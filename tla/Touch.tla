------------------------------- MODULE Touch -------------------------------
(***************************************************************************)
(* Touch input: the CST226SE driver (drivers/src/cst226se), its start and  *)
(* its reports as the application reads them (app/src/hardware/touch.rs,   *)
(* app/src/main.rs) and the render task's contact tracking                 *)
(* (app/src/render_task.rs).                                               *)
(*                                                                         *)
(* Every transaction on the I2C bus is an await and may fail, so each is a *)
(* step; what the code does between two of them is part of the step.  A    *)
(* failed write may or may not have reached the chip.  The finger and the  *)
(* chip act whenever they like: a report is what the chip last published,  *)
(* and an empty report stays until it is acknowledged.                     *)
(***************************************************************************)
EXTENDS Integers

CONSTANTS
    DisplayWidth, DisplayHeight,   \* DISPLAY_WIDTH and DISPLAY_HEIGHT, 480 and 222
    RawPoints,                     \* coordinates of the touch panel, [x, y]
    MaxFaults                      \* bound: unreadable or odd reports during one contact

ASSUME TouchAssumption ==
    /\ DisplayWidth \in Nat \ {0}
    /\ DisplayHeight \in Nat \ {0}
    /\ RawPoints # {}
    /\ RawPoints \subseteq [x : Nat, y : Nat]
    /\ MaxFaults \in Nat

VARIABLES
    mode,              \* of the chip: "reset", "command" or "report"
    report,            \* in the chip's registers
    finger,            \* where the first finger is
    render,            \* place in initialize_touchpad and the render task's loop
    read_result,       \* begin's result of reading the firmware checkcode
    held,              \* the report read before its acknowledgement
    touchpad,          \* TRUE for Some(touchpad)
    press_position,
    event,             \* the last WindowEvent, numbered 0 and 1 in turn
    presses, faults    \* observed since the finger landed, not part of the program

chipVars == <<mode, report>>
startVars == <<read_result, touchpad>>
contactVars == <<press_position, event, presses>>
touchVars == <<chipVars, finger, render, startVars, held, contactVars, faults>>

Byte == 0 .. 255
NoFinger == [x |-> -1, y |-> -1]
NoPosition == <<-1, -1>>
Positions == (0 .. DisplayWidth - 1) \X (0 .. DisplayHeight - 1)

-----------------------------------------------------------------------------
(***************************************************************************)
(* Reports.  Of the 28 bytes, report[0] is `first', report[5] `count' and  *)
(* report[6] `marker'; the coordinates are decoded already.                *)
(***************************************************************************)
ValidMarker == 171
HomeButton == 128
MaxTouchPoints == 5
StatusPressed == 6

Reports == [first : Byte, count : Byte, marker : Byte, point : RawPoints]

Report(first, count, marker, point) ==
    [first |-> first, count |-> count, marker |-> marker, point |-> point]

points(r) == r.count % 128
status(r) == r.first % 16

\* parse_first_point returns a point
has_first_point(r) ==
    /\ r.marker = ValidMarker
    /\ r.first # ValidMarker
    /\ r.count # HomeButton
    /\ points(r) \in 1 .. MaxTouchPoints

\* Fault: only a report of no points at all is acknowledged.
should_acknowledge_no_points(r) ==
    /\ r.marker = ValidMarker
    /\ r.first # ValidMarker
    /\ r.count # HomeButton
    /\ points(r) = 0

should_acknowledge_empty_report(r) ==
    /\ r.marker = ValidMarker
    /\ r.first # ValidMarker
    /\ r.count # HomeButton
    /\ points(r) = 0 \/ points(r) > MaxTouchPoints

\* read_touch gives a Contact; everything else it reads gives an Up without points
is_contact(r) == has_first_point(r) /\ status(r) = StatusPressed

\* What the chip publishes: a finger, a lifted finger, no finger (also as a
\* count beyond five), and the home button or a report without its marker.
ContactReports(point) == {Report(22, count, ValidMarker, point) : count \in {1, MaxTouchPoints}}
LiftReports(point) == {Report(16, 1, ValidMarker, point)}
EmptyReports(point) ==
    {Report(0, count, ValidMarker, point) : count \in {0, MaxTouchPoints + 1}}
OddReports(point) == {Report(22, HomeButton, ValidMarker, point), Report(22, 1, 0, point)}

\* An acknowledgement overwrites report[0].
Acknowledged(r) == [r EXCEPT !.first = ValidMarker]
AwaitsAcknowledgement == \E point \in RawPoints : report \in EmptyReports(point)

-----------------------------------------------------------------------------
\* Fault: the width and the height count as points of the window.
Clamp_past_the_end(value, high) ==
    IF value < 0 THEN 0 ELSE IF value > high + 1 THEN high ELSE value

Clamp(value, high) == IF value < 0 THEN 0 ELSE IF value > high THEN high ELSE value

\* the panel's axes swapped, its second one mirrored
Position(point) ==
    <<Clamp(point.y, DisplayWidth - 1), Clamp(DisplayHeight - point.x, DisplayHeight - 1)>>

Dispatch(kind, position) ==
    event' = [kind |-> kind, position |-> position, serial |-> 1 - event.serial]

\* an odd or unreadable report counts only against a contact it interrupts
Fault ==
    /\ finger # NoFinger => faults < MaxFaults
    /\ faults' = IF finger = NoFinger THEN faults ELSE faults + 1

Init ==
    /\ mode = "report"
    /\ \E point \in RawPoints : report \in LiftReports(point)
    /\ finger = NoFinger
    /\ render = "reset"
    /\ read_result = "none"
    /\ held = report
    /\ touchpad = FALSE
    /\ press_position = NoPosition
    /\ \E position \in Positions :
          event = [kind |-> "PointerReleased", position |-> position, serial |-> 0]
    /\ presses = 0
    /\ faults = 0

-----------------------------------------------------------------------------
(***************************************************************************)
(* initialize_touchpad: reset, enter command mode, read the firmware       *)
(* checkcode, leave command mode whatever was read, then look at both      *)
(* results.  Without a touchpad the render task only draws.                *)
(***************************************************************************)
StartFails == render' = "idle" /\ touchpad' = FALSE

Reset ==
    /\ render = "reset"
    /\ \/ mode' = "report" /\ render' = "enter" /\ UNCHANGED touchpad
       \/ mode' \in {mode, "reset"} /\ StartFails
    /\ UNCHANGED <<report, finger, read_result, held, contactVars, faults>>

EnterCommandMode ==
    /\ render = "enter"
    /\ \/ mode' = "command" /\ render' = "check" /\ UNCHANGED touchpad
       \/ mode' \in {mode, "command"} /\ StartFails
    /\ UNCHANGED <<report, finger, read_result, held, contactVars, faults>>

ReadCheckcode ==
    /\ render = "check"
    /\ read_result' \in {"valid", "invalid", "error"}
    /\ render' = "leave"
    /\ UNCHANGED <<chipVars, finger, touchpad, held, contactVars, faults>>

\* Fault: the result of leaving command mode is not looked at.
LeaveCommandMode_ignoring_exit ==
    /\ render = "leave"
    /\ mode' \in {mode, "report"}
    /\ IF read_result = "valid"
       THEN render' = "sleep" /\ touchpad' = TRUE
       ELSE StartFails
    /\ UNCHANGED <<report, finger, read_result, held, contactVars, faults>>

LeaveCommandMode ==
    /\ render = "leave"
    /\ \/ /\ mode' = "report"
          /\ IF read_result = "valid"
             THEN render' = "sleep" /\ touchpad' = TRUE
             ELSE StartFails
       \/ mode' \in {mode, "report"} /\ StartFails
    /\ UNCHANGED <<report, finger, read_result, held, contactVars, faults>>

Begin == Reset \/ EnterCommandMode \/ ReadCheckcode \/ LeaveCommandMode

-----------------------------------------------------------------------------
(***************************************************************************)
(* The render task's loop: wake up, run the timers (see WalletUi), read a  *)
(* report, acknowledge an empty one, track the contact, draw, sleep 20 ms. *)
(***************************************************************************)
Wake ==
    /\ render = "sleep"
    /\ render' = "read"
    /\ UNCHANGED <<chipVars, finger, startVars, held, contactVars, faults>>

Release ==
    IF press_position = NoPosition
    THEN UNCHANGED contactVars
    ELSE /\ Dispatch("PointerReleased", press_position)
         /\ press_position' = NoPosition
         /\ UNCHANGED presses

\* Fault: every contact report presses.
Press_at_every_report(position) ==
    /\ press_position' = position
    /\ Dispatch("PointerPressed", position)
    /\ presses' = IF finger = NoFinger THEN presses ELSE presses + 1

Press(position) ==
    IF press_position = NoPosition
    THEN /\ press_position' = position
         /\ Dispatch("PointerPressed", position)
         /\ presses' = IF finger = NoFinger THEN presses ELSE presses + 1
    ELSE UNCHANGED contactVars

\* Fault: a contact that has moved is released.
process_touch_releasing_on_roll(r) ==
    IF is_contact(r) /\ press_position \in {NoPosition, Position(r.point)}
    THEN Press(Position(r.point))
    ELSE Release

process_touch(r) == IF is_contact(r) THEN Press(Position(r.point)) ELSE Release

\* the read succeeds; an empty report is acknowledged before it is looked at
ReadReport ==
    /\ render = "read"
    /\ IF should_acknowledge_empty_report(report)
       THEN /\ held' = report
            /\ render' = "ack"
            /\ UNCHANGED contactVars
       ELSE /\ process_touch(report)
            /\ render' = "sleep"
            /\ UNCHANGED held
    /\ UNCHANGED <<chipVars, finger, startVars, faults>>

AcknowledgeReport ==
    /\ render = "ack"
    /\ report' = Acknowledged(report)
    /\ process_touch(held)
    /\ render' = "sleep"
    /\ UNCHANGED <<mode, finger, startVars, held, faults>>

\* Fault: a failed transaction leaves the press as it is.
TouchFails_keeping_press ==
    /\ \/ render = "read" /\ UNCHANGED report
       \/ render = "ack" /\ report' \in {report, Acknowledged(report)}
    /\ Fault
    /\ render' = "sleep"
    /\ UNCHANGED <<mode, finger, startVars, held, contactVars>>

\* either transaction fails
TouchFails ==
    /\ \/ render = "read" /\ UNCHANGED report
       \/ render = "ack" /\ report' \in {report, Acknowledged(report)}
    /\ Fault
    /\ Release
    /\ render' = "sleep"
    /\ UNCHANGED <<mode, finger, startVars, held>>

Poll == Wake \/ ReadReport \/ AcknowledgeReport \/ TouchFails

-----------------------------------------------------------------------------
(***************************************************************************)
(* The user's first finger, and the chip.                                  *)
(***************************************************************************)
FingerLands ==
    /\ finger = NoFinger
    /\ finger' \in RawPoints
    /\ presses' = 0
    /\ faults' = 0
    /\ UNCHANGED <<chipVars, render, startVars, held, press_position, event>>

FingerRolls ==
    /\ finger # NoFinger
    /\ finger' \in RawPoints
    /\ UNCHANGED <<chipVars, render, startVars, held, contactVars, faults>>

FingerLifts ==
    /\ finger # NoFinger
    /\ finger' = NoFinger
    /\ UNCHANGED <<chipVars, render, startVars, held, contactVars, faults>>

\* the chip publishes what the finger does
PublishFinger ==
    /\ mode = "report"
    /\ ~AwaitsAcknowledgement
    /\ IF finger = NoFinger
       THEN report' \in LiftReports(report.point) \cup EmptyReports(report.point)
       ELSE report' \in ContactReports(finger)
    /\ UNCHANGED <<mode, finger, render, startVars, held, contactVars, faults>>

\* something that is not a contact, although a finger may be down
PublishOddity ==
    /\ mode = "report"
    /\ ~AwaitsAcknowledgement
    /\ report' \in LiftReports(report.point) \cup EmptyReports(report.point)
                    \cup OddReports(report.point)
    /\ Fault
    /\ UNCHANGED <<mode, finger, render, startVars, held, contactVars>>

Finger == FingerLands \/ FingerRolls \/ FingerLifts
Chip == PublishFinger \/ PublishOddity

Next == Begin \/ Poll \/ Finger \/ Chip

\* The executor polls the render task, and the chip keeps up with the finger.
Fairness == WF_touchVars(Begin \/ Poll) /\ WF_touchVars(PublishFinger)

TouchSpec == Init /\ [][Next]_touchVars /\ Fairness

-----------------------------------------------------------------------------
(***************************************************************************)
(* Properties.                                                             *)
(***************************************************************************)
\* The type invariant; it includes that a press is inside the window, whatever
\* coordinates the panel reports.
TouchTypeOK ==
    /\ mode \in {"reset", "command", "report"}
    /\ report \in Reports
    /\ held \in Reports
    /\ finger \in RawPoints \cup {NoFinger}
    /\ render \in {"reset", "enter", "check", "leave", "idle", "sleep", "read", "ack"}
    /\ read_result \in {"none", "valid", "invalid", "error"}
    /\ touchpad \in BOOLEAN
    /\ press_position \in Positions \cup {NoPosition}
    /\ event \in [kind : {"PointerPressed", "PointerReleased"}, position : Positions,
                  serial : {0, 1}]
    /\ presses \in Nat
    /\ faults \in Nat

PointerPromise == INSTANCE Pointer

\* Slint sees presses and releases in turn, each release where the press was,
\* whichever reads and acknowledgements fail and wherever the finger rolls.
PointerSpec == PointerPromise!Spec

\* A touchpad that is polled has a supported chip in report mode: begin looks
\* at the result of leaving command mode and at the checkcode, in spite of
\* going on after a failed read.
PolledTouchpadReports == render \in {"sleep", "read", "ack"} =>
    touchpad /\ mode = "report" /\ read_result = "valid"

\* One contact is one press, except that each fault that interrupts the contact
\* can split off one more.
SecondPressNeedsFault == finger # NoFinger => presses <= 1 + faults

\* The driver has the conditions on a report twice.  Together they leave
\* nothing out: a marked report that is neither the home button's nor
\* acknowledged holds a point or is acknowledged, and never both.
PointOrAcknowledgement ==
    (report.marker = ValidMarker /\ report.first # ValidMarker /\ report.count # HomeButton)
    => (has_first_point(report) <=> ~should_acknowledge_empty_report(report))

\* A finger that stays down is noticed: the chip waits for the acknowledgement
\* of an empty report, and a failed acknowledgement is tried again.
FingerIsNoticed ==
    (touchpad /\ finger # NoFinger) ~> (press_position # NoPosition \/ finger = NoFinger)

\* A press does not outlast its finger.
LiftReleases == (finger = NoFinger) ~> (press_position = NoPosition \/ finger # NoFinger)

\* render_task.rs:79: an event without a reported point is spurious and ignored,
\* unless it is a lift.  What is neither a point nor an empty report (the home
\* button, a report without its marker) then leaves a press as it is.
SpuriousReportsAreIgnored ==
    [][(/\ ReadReport
        /\ report.marker # ValidMarker \/ report.count = HomeButton) => UNCHANGED event]_touchVars
=============================================================================
