---------------------------- MODULE Touch_proofs ----------------------------
(***************************************************************************)
(* Proofs about Touch, for every window, panel and number of faults.       *)
(***************************************************************************)
EXTENDS Touch, TLAPS

USE TouchAssumption

-----------------------------------------------------------------------------
(***************************************************************************)
(* Coordinates and reports.                                                *)
(***************************************************************************)
LEMMA ClampInRange ==
    ASSUME NEW value \in Int, NEW high \in Nat
    PROVE  Clamp(value, high) \in 0 .. high
BY DEF Clamp

LEMMA PositionInWindow ==
    ASSUME NEW point \in RawPoints
    PROVE  Position(point) \in Positions /\ Position(point) # NoPosition
<1>1. point.x \in Nat /\ point.y \in Nat
  OBVIOUS
<1>2. Clamp(point.y, DisplayWidth - 1) \in 0 .. DisplayWidth - 1
  <2>1. DisplayWidth - 1 \in Nat /\ point.y \in Int
    BY <1>1
  <2> QED
    BY <2>1, ClampInRange
<1>3. Clamp(DisplayHeight - point.x, DisplayHeight - 1) \in 0 .. DisplayHeight - 1
  <2>1. DisplayHeight - 1 \in Nat /\ DisplayHeight - point.x \in Int
    BY <1>1
  <2> QED
    BY <2>1, ClampInRange
<1> QED
  BY <1>2, <1>3 DEF Position, Positions, NoPosition

LEMMA PositionsAreNotNone == NoPosition \notin Positions
BY DEF Positions, NoPosition

\* The chip publishes well-formed reports, and what it publishes of a finger
\* that is down is a contact.
LEMMA PublishedReports ==
    ASSUME NEW point \in RawPoints
    PROVE  /\ ContactReports(point) \subseteq Reports
           /\ LiftReports(point) \subseteq Reports
           /\ EmptyReports(point) \subseteq Reports
           /\ OddReports(point) \subseteq Reports
BY DEF ContactReports, LiftReports, EmptyReports, OddReports, Report, Reports, Byte,
       ValidMarker, HomeButton, MaxTouchPoints

LEMMA AcknowledgedReport ==
    ASSUME NEW r \in Reports
    PROVE  Acknowledged(r) \in Reports /\ ~is_contact(Acknowledged(r))
BY DEF Acknowledged, Reports, Byte, ValidMarker, is_contact, has_first_point

LEMMA EmptyIsNoContact ==
    ASSUME NEW r \in Reports, should_acknowledge_empty_report(r)
    PROVE  ~is_contact(r)
BY DEF should_acknowledge_empty_report, is_contact, has_first_point, points, Reports, Byte,
       MaxTouchPoints

-----------------------------------------------------------------------------
(***************************************************************************)
(* Types.                                                                  *)
(***************************************************************************)
EventType == [kind : {"PointerPressed", "PointerReleased"}, position : Positions,
              serial : {0, 1}]

ContactTypeOK ==
    /\ press_position \in Positions \cup {NoPosition}
    /\ event \in EventType
    /\ presses \in Nat

LEMMA DispatchType ==
    ASSUME NEW kind \in {"PointerPressed", "PointerReleased"}, NEW position \in Positions,
           event \in EventType, Dispatch(kind, position)
    PROVE  event' \in EventType
BY DEF Dispatch, EventType

LEMMA ReleaseType == ContactTypeOK /\ Release => ContactTypeOK'
<1> SUFFICES ASSUME ContactTypeOK, Release PROVE ContactTypeOK'
  OBVIOUS
<1>1. CASE press_position = NoPosition
  BY <1>1 DEF Release, ContactTypeOK, contactVars
<1>2. CASE press_position # NoPosition
  <2>1. press_position \in Positions /\ Dispatch("PointerReleased", press_position)
    BY <1>2 DEF Release, ContactTypeOK
  <2>2. event' \in EventType
    BY <2>1, DispatchType DEF ContactTypeOK
  <2> QED
    BY <1>2, <2>2 DEF Release, ContactTypeOK
<1> QED
  BY <1>1, <1>2

LEMMA ProcessType ==
    ASSUME ContactTypeOK, NEW r \in Reports, process_touch(r)
    PROVE  ContactTypeOK'
<1>1. CASE is_contact(r) /\ press_position = NoPosition
  <2>1. Position(r.point) \in Positions
    BY PositionInWindow DEF Reports
  <2>2. Dispatch("PointerPressed", Position(r.point))
    BY <1>1 DEF process_touch, Press
  <2>3. event' \in EventType
    BY <2>1, <2>2, DispatchType DEF ContactTypeOK
  <2> QED
    BY <1>1, <2>1, <2>3 DEF process_touch, Press, ContactTypeOK
<1>2. CASE is_contact(r) /\ press_position # NoPosition
  BY <1>2 DEF process_touch, Press, ContactTypeOK, contactVars
<1>3. CASE ~is_contact(r)
  BY <1>3, ReleaseType DEF process_touch
<1> QED
  BY <1>1, <1>2, <1>3

DeviceTypeOK ==
    /\ mode \in {"reset", "command", "report"}
    /\ report \in Reports
    /\ held \in Reports
    /\ finger \in RawPoints \cup {NoFinger}
    /\ render \in {"reset", "enter", "check", "leave", "idle", "sleep", "read", "ack"}
    /\ read_result \in {"none", "valid", "invalid", "error"}
    /\ touchpad \in BOOLEAN
    /\ faults \in Nat

LEMMA TypeParts == TouchTypeOK <=> DeviceTypeOK /\ ContactTypeOK
BY DEF TouchTypeOK, DeviceTypeOK, ContactTypeOK, EventType

LEMMA InitType == Init => TouchTypeOK
<1> SUFFICES ASSUME Init PROVE TouchTypeOK
  OBVIOUS
<1>1. report \in Reports
  BY PublishedReports DEF Init
<1>2. DeviceTypeOK
  BY <1>1 DEF Init, DeviceTypeOK
<1>3. ContactTypeOK
  BY DEF Init, ContactTypeOK, EventType
<1> QED
  BY <1>2, <1>3, TypeParts

LEMMA FaultType == faults \in Nat /\ Fault => faults' \in Nat
BY DEF Fault

LEMMA NextType == TouchTypeOK /\ [Next]_touchVars => TouchTypeOK'
<1> SUFFICES ASSUME DeviceTypeOK, ContactTypeOK, [Next]_touchVars
             PROVE  DeviceTypeOK' /\ ContactTypeOK'
  BY DEF TouchTypeOK, DeviceTypeOK, ContactTypeOK, EventType
<1>r. report.point \in RawPoints
  BY DEF DeviceTypeOK, Reports
<1>1. CASE Reset
  BY <1>1 DEF Reset, StartFails, DeviceTypeOK, ContactTypeOK, contactVars
<1>2. CASE EnterCommandMode
  BY <1>2 DEF EnterCommandMode, StartFails, DeviceTypeOK, ContactTypeOK, contactVars
<1>3. CASE ReadCheckcode
  BY <1>3 DEF ReadCheckcode, DeviceTypeOK, ContactTypeOK, contactVars, chipVars
<1>4. CASE LeaveCommandMode
  BY <1>4 DEF LeaveCommandMode, StartFails, DeviceTypeOK, ContactTypeOK, contactVars
<1>5. CASE Wake
  BY <1>5 DEF Wake, DeviceTypeOK, ContactTypeOK, contactVars, chipVars, startVars
<1>6. CASE ReadReport
  <2>1. ContactTypeOK'
    <3>1. CASE should_acknowledge_empty_report(report)
      BY <1>6, <3>1 DEF ReadReport, ContactTypeOK, contactVars
    <3>2. CASE ~should_acknowledge_empty_report(report)
      BY <1>6, <3>2, ProcessType DEF ReadReport, DeviceTypeOK
    <3> QED
      BY <3>1, <3>2
  <2>2. DeviceTypeOK'
    BY <1>6 DEF ReadReport, DeviceTypeOK, chipVars, startVars
  <2> QED
    BY <2>1, <2>2
<1>7. CASE AcknowledgeReport
  <2>1. ContactTypeOK'
    BY <1>7, ProcessType DEF AcknowledgeReport, DeviceTypeOK
  <2>2. report' \in Reports
    BY <1>7, AcknowledgedReport DEF AcknowledgeReport, DeviceTypeOK
  <2>3. DeviceTypeOK'
    BY <1>7, <2>2 DEF AcknowledgeReport, DeviceTypeOK, startVars
  <2> QED
    BY <2>1, <2>3
<1>8. CASE TouchFails
  <2>1. ContactTypeOK'
    BY <1>8, ReleaseType DEF TouchFails
  <2>2. report' \in Reports
    BY <1>8, AcknowledgedReport DEF TouchFails, DeviceTypeOK
  <2>3. faults' \in Nat
    BY <1>8, FaultType DEF TouchFails, DeviceTypeOK
  <2>4. DeviceTypeOK'
    BY <1>8, <2>2, <2>3 DEF TouchFails, DeviceTypeOK, startVars
  <2> QED
    BY <2>1, <2>4
<1>9. CASE Finger
  BY <1>9 DEF Finger, FingerLands, FingerRolls, FingerLifts, DeviceTypeOK, ContactTypeOK,
       chipVars, startVars, contactVars
<1>10. CASE PublishFinger
  <2>1. report' \in Reports
    BY <1>10, <1>r, PublishedReports DEF PublishFinger, DeviceTypeOK
  <2> QED
    BY <1>10, <2>1 DEF PublishFinger, DeviceTypeOK, ContactTypeOK, startVars, contactVars
<1>11. CASE PublishOddity
  <2>1. report' \in Reports
    BY <1>11, <1>r, PublishedReports DEF PublishOddity
  <2>2. faults' \in Nat
    BY <1>11, FaultType DEF PublishOddity, DeviceTypeOK
  <2> QED
    BY <1>11, <2>1, <2>2 DEF PublishOddity, DeviceTypeOK, ContactTypeOK, startVars, contactVars
<1>12. CASE UNCHANGED touchVars
  BY <1>12 DEF touchVars, DeviceTypeOK, ContactTypeOK, chipVars, startVars, contactVars
<1> QED
  BY <1>1, <1>2, <1>3, <1>4, <1>5, <1>6, <1>7, <1>8, <1>9, <1>10, <1>11, <1>12
     DEF Next, Begin, Poll, Chip

\* Every variable keeps to its type; a press is inside the window.
THEOREM TypeCorrect == TouchSpec => []TouchTypeOK
BY InitType, NextType, PTL DEF TouchSpec

-----------------------------------------------------------------------------
(***************************************************************************)
(* The start of the touchpad.                                              *)
(***************************************************************************)
LEMMA NextPolled == PolledTouchpadReports /\ [Next]_touchVars => PolledTouchpadReports'
<1> SUFFICES ASSUME PolledTouchpadReports, [Next]_touchVars PROVE PolledTouchpadReports'
  OBVIOUS
<1>1. CASE Begin
  BY <1>1 DEF Begin, Reset, EnterCommandMode, ReadCheckcode, LeaveCommandMode, StartFails,
       PolledTouchpadReports
<1>2. CASE Poll
  BY <1>2 DEF Poll, Wake, ReadReport, AcknowledgeReport, TouchFails, PolledTouchpadReports,
       chipVars, startVars
<1>3. CASE Finger \/ Chip
  BY <1>3 DEF Finger, FingerLands, FingerRolls, FingerLifts, Chip, PublishFinger,
       PublishOddity, PolledTouchpadReports, chipVars, startVars
<1>4. CASE UNCHANGED touchVars
  BY <1>4 DEF touchVars, PolledTouchpadReports, chipVars, startVars
<1> QED
  BY <1>1, <1>2, <1>3, <1>4 DEF Next

\* A touchpad that is polled answered begin's questions and is in report mode.
THEOREM PolledTouchpadIsReady == TouchSpec => []PolledTouchpadReports
<1>1. Init => PolledTouchpadReports
  BY DEF Init, PolledTouchpadReports
<1> QED
  BY <1>1, NextPolled, PTL DEF TouchSpec

\* The driver's two conditions on a report complement each other.
THEOREM ReportsArePointsOrAcknowledged == TouchSpec => []PointOrAcknowledgement
<1>1. TouchTypeOK => PointOrAcknowledgement
  BY DEF TouchTypeOK, PointOrAcknowledgement, has_first_point, points, Reports, Byte,
     should_acknowledge_empty_report, MaxTouchPoints, ValidMarker, HomeButton
<1> QED
  BY <1>1, TypeCorrect, PTL

-----------------------------------------------------------------------------
(***************************************************************************)
(* Presses and releases alternate.  The last event tells whether there is  *)
(* a press, and where.                                                     *)
(***************************************************************************)
PressIsLastEvent ==
    /\ press_position = NoPosition => event.kind = "PointerReleased"
    /\ press_position # NoPosition =>
          event.kind = "PointerPressed" /\ event.position = press_position

LEMMA DispatchedEvent ==
    ASSUME NEW kind, NEW position, Dispatch(kind, position)
    PROVE  event' = PointerPromise!Event(kind, position, 1 - event.serial)
BY DEF Dispatch, PointerPromise!Event

LEMMA ReleaseEvent ==
    ASSUME ContactTypeOK, PressIsLastEvent, Release
    PROVE  PressIsLastEvent' /\ [PointerPromise!Next]_event
<1>1. CASE press_position = NoPosition
  BY <1>1 DEF Release, PressIsLastEvent, contactVars
<1>2. CASE press_position # NoPosition
  <2>1. /\ Dispatch("PointerReleased", press_position)
        /\ press_position' = NoPosition
    BY <1>2 DEF Release
  <2>2. event' = PointerPromise!Event("PointerReleased", press_position, 1 - event.serial)
    BY <2>1, DispatchedEvent
  <2>3. event'.kind = "PointerReleased"
    BY <2>2 DEF PointerPromise!Event
  <2>4. PointerPromise!Release
    BY <1>2, <2>2 DEF PressIsLastEvent, PointerPromise!Release
  <2> QED
    BY <2>1, <2>3, <2>4 DEF PressIsLastEvent, PointerPromise!Next
<1> QED
  BY <1>1, <1>2

LEMMA ProcessEvent ==
    ASSUME ContactTypeOK, PressIsLastEvent, NEW r \in Reports, process_touch(r)
    PROVE  PressIsLastEvent' /\ [PointerPromise!Next]_event
<1>1. CASE is_contact(r) /\ press_position = NoPosition
  <2> DEFINE position == Position(r.point)
  <2>1. position \in Positions /\ position # NoPosition
    BY PositionInWindow DEF Reports
  <2>2. Dispatch("PointerPressed", position) /\ press_position' = position
    BY <1>1 DEF process_touch, Press
  <2>3. event' = PointerPromise!Event("PointerPressed", position, 1 - event.serial)
    BY <2>2, DispatchedEvent
  <2>4. event'.kind = "PointerPressed" /\ event'.position = position
    BY <2>3 DEF PointerPromise!Event
  <2>5. PointerPromise!Press
    BY <1>1, <2>1, <2>3 DEF PressIsLastEvent, PointerPromise!Press
  <2> QED
    BY <2>1, <2>2, <2>4, <2>5 DEF PressIsLastEvent, PointerPromise!Next
<1>2. CASE is_contact(r) /\ press_position # NoPosition
  BY <1>2 DEF process_touch, Press, PressIsLastEvent, contactVars
<1>3. CASE ~is_contact(r)
  BY <1>3, ReleaseEvent DEF process_touch
<1> QED
  BY <1>1, <1>2, <1>3

LEMMA NextEvent ==
    ASSUME DeviceTypeOK, ContactTypeOK, PressIsLastEvent, [Next]_touchVars
    PROVE  PressIsLastEvent' /\ [PointerPromise!Next]_event
<1>1. CASE ReadReport
  <2>1. CASE should_acknowledge_empty_report(report)
    BY <1>1, <2>1 DEF ReadReport, PressIsLastEvent, contactVars
  <2>2. CASE ~should_acknowledge_empty_report(report)
    BY <1>1, <2>2, ProcessEvent DEF ReadReport, DeviceTypeOK
  <2> QED
    BY <2>1, <2>2
<1>2. CASE AcknowledgeReport
  BY <1>2, ProcessEvent DEF AcknowledgeReport, DeviceTypeOK
<1>3. CASE TouchFails
  BY <1>3, ReleaseEvent DEF TouchFails
<1>4. CASE Begin \/ Wake
  BY <1>4 DEF Begin, Reset, EnterCommandMode, ReadCheckcode, LeaveCommandMode, Wake,
       PressIsLastEvent, contactVars
<1>5. CASE Finger \/ Chip
  BY <1>5 DEF Finger, FingerLands, FingerRolls, FingerLifts, Chip, PublishFinger,
       PublishOddity, PressIsLastEvent, contactVars
<1>6. CASE UNCHANGED touchVars
  BY <1>6 DEF touchVars, PressIsLastEvent, contactVars
<1> QED
  BY <1>1, <1>2, <1>3, <1>4, <1>5, <1>6 DEF Next, Poll

LEMMA InitEvent == Init => PressIsLastEvent /\ PointerPromise!Init
<1> SUFFICES ASSUME Init PROVE PressIsLastEvent /\ PointerPromise!Init
  OBVIOUS
<1>1. PICK position \in Positions :
         event = [kind |-> "PointerReleased", position |-> position, serial |-> 0]
  BY DEF Init
<1>2. PressIsLastEvent
  BY <1>1 DEF Init, PressIsLastEvent
<1>3. PointerPromise!Init
  BY <1>1 DEF PointerPromise!Init, PointerPromise!Event
<1> QED
  BY <1>2, <1>3

\* Slint sees presses and releases in turn, each release where its press was.
THEOREM PointerAlternates == TouchSpec => PointerSpec
<1>1. TouchTypeOK /\ PressIsLastEvent /\ [Next]_touchVars
        => PressIsLastEvent' /\ [PointerPromise!Next]_event
  BY NextEvent, TypeParts
<1> QED
  BY InitEvent, <1>1, TypeCorrect, PTL DEF TouchSpec, PointerSpec, PointerPromise!Spec

-----------------------------------------------------------------------------
(***************************************************************************)
(* One more press needs one more fault.  A contact may be pressed again    *)
(* only after a release, and a release only follows a report that is not a *)
(* contact or a failure; between them each costs the contact a fault.      *)
(***************************************************************************)
PressesArePaid == finger # NoFinger =>
    /\ presses <= faults + 1
    /\ press_position = NoPosition => presses <= faults
    /\ ~is_contact(report) => presses <= faults
    /\ render = "ack" => presses <= faults

AcknowledgedIsEmpty == render = "ack" => ~is_contact(held)

LEMMA ReleasePresses ==
    ASSUME Release
    PROVE  presses' = presses /\ press_position' = NoPosition
BY DEF Release, contactVars

LEMMA NewContact ==
    ASSUME NEW point \in RawPoints, NEW r \in ContactReports(point)
    PROVE  is_contact(r)
BY DEF ContactReports, Report, is_contact, has_first_point, points, status, ValidMarker,
       HomeButton, MaxTouchPoints, StatusPressed

LEMMA NextPresses ==
    ASSUME DeviceTypeOK, ContactTypeOK, PressesArePaid, AcknowledgedIsEmpty, [Next]_touchVars
    PROVE  PressesArePaid' /\ AcknowledgedIsEmpty'
<1>t. presses \in Nat /\ faults \in Nat
  BY DEF DeviceTypeOK, ContactTypeOK
<1>1. CASE Begin \/ Wake
  BY <1>1 DEF Begin, Reset, EnterCommandMode, ReadCheckcode, LeaveCommandMode, StartFails, Wake,
       PressesArePaid, AcknowledgedIsEmpty, contactVars, chipVars
<1>2. CASE ReadReport
  <2>0. UNCHANGED <<report, finger, faults>>
    BY <1>2 DEF ReadReport, chipVars
  <2>1. CASE should_acknowledge_empty_report(report)
    <3>1. ~is_contact(report)
      BY <2>1, EmptyIsNoContact DEF DeviceTypeOK
    <3> QED
      BY <1>2, <2>0, <2>1, <3>1 DEF ReadReport, PressesArePaid, AcknowledgedIsEmpty, contactVars
  <2>2. CASE ~should_acknowledge_empty_report(report) /\ is_contact(report)
    <3>0. Press(Position(report.point)) /\ render' = "sleep"
      BY <1>2, <2>2 DEF ReadReport, process_touch
    <3>1. Position(report.point) # NoPosition
      BY PositionInWindow DEF DeviceTypeOK, Reports
    <3>2. CASE press_position = NoPosition
      <4>1. /\ press_position' # NoPosition
            /\ finger # NoFinger => presses' = presses + 1
        BY <3>0, <3>1, <3>2 DEF Press
      <4> QED
        BY <1>t, <2>0, <2>2, <3>0, <3>2, <4>1 DEF PressesArePaid, AcknowledgedIsEmpty
    <3>3. CASE press_position # NoPosition
      BY <2>0, <2>2, <3>0, <3>3 DEF Press, contactVars, PressesArePaid, AcknowledgedIsEmpty
    <3> QED
      BY <3>2, <3>3
  <2>3. CASE ~should_acknowledge_empty_report(report) /\ ~is_contact(report)
    <3>1. Release /\ render' = "sleep"
      BY <1>2, <2>3 DEF ReadReport, process_touch
    <3> QED
      BY <2>0, <2>3, <3>1, ReleasePresses DEF PressesArePaid, AcknowledgedIsEmpty
  <2> QED
    BY <2>1, <2>2, <2>3
<1>3. CASE AcknowledgeReport
  <2>1. Release /\ render = "ack" /\ render' = "sleep" /\ UNCHANGED <<finger, faults>>
    BY <1>3 DEF AcknowledgeReport, process_touch, AcknowledgedIsEmpty
  <2> QED
    BY <1>t, <2>1, ReleasePresses DEF PressesArePaid, AcknowledgedIsEmpty
<1>4. CASE TouchFails
  <2>1. Release /\ render' = "sleep" /\ Fault /\ UNCHANGED finger
    BY <1>4 DEF TouchFails
  <2>2. finger # NoFinger => presses' = presses /\ faults' = faults + 1
    BY <2>1, ReleasePresses DEF Fault
  <2> QED
    BY <1>t, <2>1, <2>2 DEF PressesArePaid, AcknowledgedIsEmpty
<1>5. CASE FingerLands
  BY <1>5 DEF FingerLands, PressesArePaid, AcknowledgedIsEmpty
<1>6. CASE FingerRolls \/ FingerLifts
  BY <1>6 DEF FingerRolls, FingerLifts, PressesArePaid, AcknowledgedIsEmpty, chipVars,
       contactVars
<1>7. CASE PublishFinger
  <2>0. UNCHANGED <<finger, render, held, press_position, presses, faults>>
    BY <1>7 DEF PublishFinger, contactVars
  <2>1. finger # NoFinger => is_contact(report')
    BY <1>7, NewContact DEF PublishFinger, DeviceTypeOK
  <2> QED
    BY <2>0, <2>1 DEF PressesArePaid, AcknowledgedIsEmpty
<1>8. CASE PublishOddity
  <2>0. UNCHANGED <<finger, render, held, press_position, presses>> /\ Fault
    BY <1>8 DEF PublishOddity, contactVars
  <2> QED
    BY <1>t, <2>0 DEF Fault, PressesArePaid, AcknowledgedIsEmpty
<1>9. CASE UNCHANGED touchVars
  BY <1>9 DEF touchVars, PressesArePaid, AcknowledgedIsEmpty, chipVars, contactVars
<1> QED
  BY <1>1, <1>2, <1>3, <1>4, <1>5, <1>6, <1>7, <1>8, <1>9 DEF Next, Poll, Finger, Chip

LEMMA PaidPresses == TouchTypeOK /\ PressesArePaid => SecondPressNeedsFault
<1>1. TouchTypeOK => presses \in Nat /\ faults \in Nat
  BY DEF TouchTypeOK
<1> QED
  BY <1>1 DEF PressesArePaid, SecondPressNeedsFault

\* A contact is one press and at most one more for each fault that interrupts it.
THEOREM SecondPressIsAFault == TouchSpec => []SecondPressNeedsFault
<1>1. Init => PressesArePaid /\ AcknowledgedIsEmpty
  BY DEF Init, PressesArePaid, AcknowledgedIsEmpty
<1>2. TouchTypeOK /\ PressesArePaid /\ AcknowledgedIsEmpty /\ [Next]_touchVars
        => PressesArePaid' /\ AcknowledgedIsEmpty'
  BY NextPresses, TypeParts
<1> QED
  BY <1>1, <1>2, PaidPresses, TypeCorrect, PTL DEF TouchSpec
=============================================================================
