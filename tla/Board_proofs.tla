---------------------------- MODULE Board_proofs ----------------------------
(***************************************************************************)
(* Proofs about Board: who holds the bus, that its steps are those of the  *)
(* two parts it is made of, and that the parts keep on the shared bus what *)
(* was proved of each alone.                                               *)
(***************************************************************************)
EXTENDS Board, TLAPS

\* What was proved of the parts, about the board's variables.
TouchProofs == INSTANCE Touch_proofs
PowerProofs == INSTANCE Power_proofs

-----------------------------------------------------------------------------
(***************************************************************************)
(* Every step is one part's and leaves the other alone.                    *)
(***************************************************************************)
LEMMA TouchOrPower ==
    ASSUME [Next]_boardVars
    PROVE  \/ /\ Touch!Begin \/ Touch!Wake \/ Touch!Finger \/ Touch!Chip
              /\ UNCHANGED <<powerVars, bus>>
           \/ RenderTransfers
           \/ Power!BringUp /\ UNCHANGED <<touchVars, bus>>
           \/ Power!RefreshStarts /\ UNCHANGED <<touchVars, bus>>
           \/ MainTransfers
           \/ RenderLocks \/ MainLocks
           \/ UNCHANGED <<touchVars, powerVars, bus>>
<1>1. CASE StartTouchpad
  BY <1>1 DEF StartTouchpad
<1>2. CASE StartTasks
  BY <1>2 DEF StartTasks
<1>3. CASE RenderWakes
  BY <1>3 DEF RenderWakes
<1>4. CASE Tick
  BY <1>4 DEF Tick
<1>5. CASE Turn
  BY <1>5 DEF Turn
<1>6. CASE Outside
  BY <1>6 DEF Outside
<1>7. CASE UNCHANGED boardVars
  BY <1>7 DEF boardVars
<1> QED
  BY <1>1, <1>2, <1>3, <1>4, <1>5, <1>6, <1>7 DEF Next

LEMMA MainTransfersIsPower == MainTransfers => Power!Next /\ UNCHANGED touchVars
BY DEF MainTransfers, Power!Next, Power!Refresh

LEMMA RenderTransfersIsTouch == RenderTransfers => Touch!Next /\ UNCHANGED powerVars
BY DEF RenderTransfers, Touch!Next, Touch!Poll

LEMMA BoardStepIsPower == [Next]_boardVars => [Power!Next]_powerVars
<1> SUFFICES ASSUME [Next]_boardVars PROVE [Power!Next]_powerVars
  OBVIOUS
<1>1. CASE Power!BringUp \/ Power!RefreshStarts
  BY <1>1 DEF Power!Next, Power!Boot, Power!Refresh
<1>2. CASE RenderLocks \/ MainLocks
  BY <1>2 DEF RenderLocks, MainLocks
<1>3. CASE RenderTransfers
  BY <1>3, RenderTransfersIsTouch
<1>4. CASE MainTransfers
  BY <1>4, MainTransfersIsPower
<1>5. CASE UNCHANGED powerVars
  BY <1>5
<1> QED
  BY <1>1, <1>2, <1>3, <1>4, <1>5, TouchOrPower

\* The controller on a shared bus takes only steps that Power describes.
THEOREM ControllerIsPower == BoardSpec => PowerSteps
BY BoardStepIsPower, PTL DEF BoardSpec, PowerSteps

LEMMA BoardStepIsTouch == [Next]_boardVars => [Touch!Next]_touchVars
<1> SUFFICES ASSUME [Next]_boardVars PROVE [Touch!Next]_touchVars
  OBVIOUS
<1>1. CASE Touch!Begin \/ Touch!Wake \/ Touch!Finger \/ Touch!Chip
  BY <1>1 DEF Touch!Next, Touch!Poll
<1>2. CASE RenderLocks \/ MainLocks
  BY <1>2 DEF RenderLocks, MainLocks
<1>3. CASE RenderTransfers
  BY <1>3, RenderTransfersIsTouch
<1>4. CASE MainTransfers
  BY <1>4, MainTransfersIsPower
<1>5. CASE UNCHANGED touchVars
  BY <1>5
<1> QED
  BY <1>1, <1>2, <1>3, <1>4, <1>5, TouchOrPower

\* The render task on a shared bus takes only steps that Touch describes.
THEOREM RenderTaskIsTouch == BoardSpec => Touch!Init /\ [][Touch!Next]_touchVars
<1>1. Init => Touch!Init
  BY DEF Init
<1> QED
  BY <1>1, BoardStepIsTouch, PTL DEF BoardSpec

-----------------------------------------------------------------------------
\* The mutex is held only in the middle of a transaction.
THEOREM HolderIsTransferring == BoardSpec => []HolderTransfers
<1>1. Init => HolderTransfers
  BY DEF Init, HolderTransfers
<1>2. HolderTransfers /\ [Next]_boardVars => HolderTransfers'
  <2> SUFFICES ASSUME HolderTransfers, [Next]_boardVars PROVE HolderTransfers'
    OBVIOUS
  <2>1. CASE /\ Touch!Begin \/ Touch!Wake \/ Touch!Finger \/ Touch!Chip
             /\ UNCHANGED <<powerVars, bus>>
    <3>1. UNCHANGED <<main, bus>>
      BY <2>1 DEF powerVars
    <3>2. UNCHANGED render \/ ~RenderUsesBus
      BY <2>1 DEF Touch!Begin, Touch!Reset, Touch!EnterCommandMode, Touch!ReadCheckcode,
           Touch!LeaveCommandMode, Touch!Wake, Touch!Finger, Touch!FingerLands,
           Touch!FingerRolls, Touch!FingerLifts, Touch!Chip, Touch!PublishFinger,
           Touch!PublishOddity, RenderUsesBus
    <3> QED
      BY <3>1, <3>2 DEF HolderTransfers, RenderUsesBus, MainUsesBus
  <2>2. CASE (Power!BringUp \/ Power!RefreshStarts) /\ UNCHANGED <<touchVars, bus>>
    <3>1. UNCHANGED <<render, bus>>
      BY <2>2 DEF touchVars
    <3>2. ~MainUsesBus
      BY <2>2 DEF Power!BringUp, Power!RefreshStarts, MainUsesBus
    <3> QED
      BY <3>1, <3>2 DEF HolderTransfers, RenderUsesBus
  <2>3. CASE RenderTransfers
    <3>1. UNCHANGED main /\ bus = "render" /\ bus' = IF RenderUsesBus' THEN "render" ELSE "free"
      BY <2>3 DEF RenderTransfers, Unlocks, powerVars
    <3> QED
      BY <3>1 DEF HolderTransfers
  <2>4. CASE MainTransfers
    <3>1. UNCHANGED render /\ bus = "main" /\ bus' = IF MainUsesBus' THEN "main" ELSE "free"
      BY <2>4 DEF MainTransfers, Unlocks, touchVars
    <3> QED
      BY <3>1 DEF HolderTransfers
  <2>5. CASE RenderLocks
    BY <2>5 DEF RenderLocks, HolderTransfers, RenderUsesBus, touchVars
  <2>6. CASE MainLocks
    BY <2>6 DEF MainLocks, HolderTransfers, MainUsesBus, powerVars
  <2>7. CASE UNCHANGED <<touchVars, powerVars, bus>>
    BY <2>7 DEF touchVars, powerVars, HolderTransfers, RenderUsesBus, MainUsesBus
  <2> QED
    BY <2>1, <2>2, <2>3, <2>4, <2>5, <2>6, <2>7, TouchOrPower
<1> QED
  BY <1>1, <1>2, PTL DEF BoardSpec
-----------------------------------------------------------------------------
(***************************************************************************)
(* What holds of the parts holds of the board.                             *)
(***************************************************************************)
LEMMA AssumptionsHold == TouchProofs!TouchAssumption /\ PowerProofs!PowerAssumption
BY PartsAssumption
DEF TouchProofs!TouchAssumption, PowerProofs!PowerAssumption, PowerProofs!ChargeStatus

(***************************************************************************)
(* Touch and Touch_proofs define the same steps, and so do Power and       *)
(* Power_proofs: the definitions are expanded on both sides.               *)
(***************************************************************************)
LEMMA SameTouchStep == Touch!Next <=> TouchProofs!Next
BY Zenon
DEF
       Touch!Next, Touch!Begin, Touch!Poll, Touch!Finger, Touch!Chip, Touch!Reset,
       Touch!EnterCommandMode, Touch!ReadCheckcode, Touch!LeaveCommandMode, Touch!Wake,
       Touch!ReadReport, Touch!AcknowledgeReport, Touch!TouchFails, Touch!FingerLands,
       Touch!FingerRolls, Touch!FingerLifts, Touch!PublishFinger, Touch!PublishOddity,
       Touch!StartFails, Touch!contactVars, Touch!chipVars, Touch!startVars,
       Touch!should_acknowledge_empty_report, Touch!process_touch, Touch!Acknowledged,
       Touch!Fault, Touch!Release, Touch!NoFinger, Touch!AwaitsAcknowledgement,
       Touch!LiftReports, Touch!EmptyReports, Touch!ContactReports, Touch!OddReports,
       Touch!ValidMarker, Touch!HomeButton, Touch!points, Touch!MaxTouchPoints,
       Touch!is_contact, Touch!Press, Touch!Position, Touch!NoPosition, Touch!Dispatch,
       Touch!Report, Touch!has_first_point, Touch!status, Touch!StatusPressed,
       Touch!Clamp,
       TouchProofs!Next, TouchProofs!Begin, TouchProofs!Poll, TouchProofs!Finger,
       TouchProofs!Chip, TouchProofs!Reset, TouchProofs!EnterCommandMode,
       TouchProofs!ReadCheckcode, TouchProofs!LeaveCommandMode, TouchProofs!Wake,
       TouchProofs!ReadReport, TouchProofs!AcknowledgeReport, TouchProofs!TouchFails,
       TouchProofs!FingerLands, TouchProofs!FingerRolls, TouchProofs!FingerLifts,
       TouchProofs!PublishFinger, TouchProofs!PublishOddity, TouchProofs!StartFails,
       TouchProofs!contactVars, TouchProofs!chipVars, TouchProofs!startVars,
       TouchProofs!should_acknowledge_empty_report, TouchProofs!process_touch,
       TouchProofs!Acknowledged, TouchProofs!Fault, TouchProofs!Release,
       TouchProofs!NoFinger, TouchProofs!AwaitsAcknowledgement, TouchProofs!LiftReports,
       TouchProofs!EmptyReports, TouchProofs!ContactReports, TouchProofs!OddReports,
       TouchProofs!ValidMarker, TouchProofs!HomeButton, TouchProofs!points,
       TouchProofs!MaxTouchPoints, TouchProofs!is_contact, TouchProofs!Press,
       TouchProofs!Position, TouchProofs!NoPosition, TouchProofs!Dispatch,
       TouchProofs!Report, TouchProofs!has_first_point, TouchProofs!status,
       TouchProofs!StatusPressed, TouchProofs!Clamp

LEMMA SameTouchInit == Touch!Init <=> TouchProofs!Init
BY Zenon
DEF
       Touch!Init, Touch!LiftReports, Touch!NoFinger, Touch!NoPosition, Touch!Positions,
       Touch!Report, Touch!ValidMarker,
       TouchProofs!Init, TouchProofs!LiftReports, TouchProofs!NoFinger,
       TouchProofs!NoPosition, TouchProofs!Positions, TouchProofs!Report,
       TouchProofs!ValidMarker

LEMMA SameTouchProperties ==
    /\ Touch!TouchTypeOK <=> TouchProofs!TouchTypeOK
    /\ Touch!PolledTouchpadReports <=> TouchProofs!PolledTouchpadReports
    /\ Touch!SecondPressNeedsFault <=> TouchProofs!SecondPressNeedsFault
BY Zenon
DEF
       Touch!TouchTypeOK, Touch!PolledTouchpadReports, Touch!SecondPressNeedsFault,
       Touch!Reports, Touch!NoFinger, Touch!Positions, Touch!NoPosition, Touch!Byte,
       TouchProofs!TouchTypeOK, TouchProofs!PolledTouchpadReports,
       TouchProofs!SecondPressNeedsFault, TouchProofs!Reports, TouchProofs!NoFinger,
       TouchProofs!Positions, TouchProofs!NoPosition, TouchProofs!Byte

LEMMA SameUpdates == Power!boot_updates = PowerProofs!boot_updates
BY Zenon
DEF Power!boot_updates, Power!set_charge_enabled, Power!update_bits,
    PowerProofs!boot_updates, PowerProofs!set_charge_enabled, PowerProofs!update_bits

LEMMA SamePercentage ==
    ASSUME NEW mv
    PROVE  Power!battery_percentage_from_voltage(mv)
              = PowerProofs!battery_percentage_from_voltage(mv)
BY DEF Power!battery_percentage_from_voltage,
       PowerProofs!battery_percentage_from_voltage

LEMMA SameStatus ==
    ASSUME NEW usb, NEW s, NEW code
    PROVE  Power!StatusWithBattery(usb, s, Power!battery_voltage(code))
              = PowerProofs!StatusWithBattery(usb, s, PowerProofs!battery_voltage(code))
BY Zenon, SamePercentage
DEF Power!StatusWithBattery, Power!battery_voltage, Power!is_charging,
    Power!FullBatteryThreshold, PowerProofs!StatusWithBattery, PowerProofs!battery_voltage,
    PowerProofs!is_charging, PowerProofs!FullBatteryThreshold

LEMMA SameRefreshed ==
    ASSUME NEW state
    PROVE  Power!Refreshed(state) <=> PowerProofs!Refreshed(state)
BY Zenon
DEF Power!Refreshed, Power!Painted, Power!set_battery_state, Power!set_battery_unavailable,
    Power!NoPercentage, Power!bootVars, PowerProofs!Refreshed, PowerProofs!Painted,
    PowerProofs!set_battery_state, PowerProofs!set_battery_unavailable,
    PowerProofs!NoPercentage, PowerProofs!bootVars

LEMMA SameFailure == Power!RefreshFails <=> PowerProofs!RefreshFails
BY Zenon, SameRefreshed
DEF Power!RefreshFails, Power!Unavailable, Power!NoFacts, Power!NoPercentage,
    Power!statusVars, PowerProofs!RefreshFails, PowerProofs!Unavailable,
    PowerProofs!NoFacts, PowerProofs!NoPercentage, PowerProofs!statusVars

LEMMA SameVoltageRead ==
    ASSUME NEW code
    PROVE  Power!BatteryVoltageRead(code) <=> PowerProofs!BatteryVoltageRead(code)
BY Zenon, SameRefreshed, SameStatus
DEF Power!BatteryVoltageRead, Power!Available, Power!statusVars,
    PowerProofs!BatteryVoltageRead, PowerProofs!Available, PowerProofs!statusVars

LEMMA SameBusRead ==
    ASSUME NEW good
    PROVE  Power!BusVoltageRead(good) <=> PowerProofs!BusVoltageRead(good)
BY Zenon, SameRefreshed
DEF Power!BusVoltageRead, Power!Available, Power!StatusWithoutBattery, Power!NoFacts,
    Power!NoPercentage, Power!bootVars, Power!presentedVars, PowerProofs!BusVoltageRead,
    PowerProofs!Available, PowerProofs!StatusWithoutBattery, PowerProofs!NoFacts,
    PowerProofs!NoPercentage, PowerProofs!bootVars, PowerProofs!presentedVars

LEMMA SameRefresh == Power!Refresh <=> PowerProofs!Refresh
BY Zenon, SameVoltageRead, SameBusRead
DEF Power!Refresh, Power!RefreshStarts, Power!SystemStatusRead, Power!bootVars,
    Power!statusVars, Power!presentedVars, PowerProofs!Refresh, PowerProofs!RefreshStarts,
    PowerProofs!SystemStatusRead, PowerProofs!bootVars, PowerProofs!statusVars,
    PowerProofs!presentedVars

LEMMA SameBoot == Power!Boot <=> PowerProofs!Boot
BY Zenon, SameUpdates
DEF Power!Boot, Power!UpdateRead, Power!UpdateWritten, Power!BatteryMeasured, Power!BringUp,
    Power!CurrentRegister, Power!Updated, Power!LastInitUpdate, Power!EnableUpdate,
    Power!battery_voltage, Power!BatteryPresentThreshold, Power!bootVars, Power!statusVars,
    Power!presentedVars, PowerProofs!Boot, PowerProofs!UpdateRead,
    PowerProofs!UpdateWritten, PowerProofs!BatteryMeasured, PowerProofs!BringUp,
    PowerProofs!CurrentRegister, PowerProofs!Updated, PowerProofs!LastInitUpdate,
    PowerProofs!EnableUpdate, PowerProofs!battery_voltage,
    PowerProofs!BatteryPresentThreshold, PowerProofs!bootVars, PowerProofs!statusVars,
    PowerProofs!presentedVars

LEMMA SamePowerFaults ==
    /\ Power!BootFails <=> PowerProofs!BootFails
    /\ Power!WatchdogExpires <=> PowerProofs!WatchdogExpires
    /\ Power!Reset <=> PowerProofs!Reset
BY Zenon, SameUpdates
DEF Power!BootFails, Power!WatchdogExpires, Power!Reset, Power!Booting,
    Power!watchdog_running, Power!CurrentRegister, Power!Updated, Power!NotPresented,
    Power!NoFacts, Power!NoPercentage, Power!set_battery_unavailable, Power!bootVars,
    Power!statusVars, Power!presentedVars, PowerProofs!BootFails,
    PowerProofs!WatchdogExpires, PowerProofs!Reset, PowerProofs!Booting,
    PowerProofs!watchdog_running, PowerProofs!CurrentRegister, PowerProofs!Updated,
    PowerProofs!NotPresented, PowerProofs!NoFacts, PowerProofs!NoPercentage,
    PowerProofs!set_battery_unavailable, PowerProofs!bootVars, PowerProofs!statusVars,
    PowerProofs!presentedVars

LEMMA SamePowerStep == Power!Next <=> PowerProofs!Next
BY Zenon, SameFailure, SameRefresh, SameBoot, SamePowerFaults DEF Power!Next, PowerProofs!Next

LEMMA SamePowerProperties ==
    /\ Power!PowerTypeOK <=> PowerProofs!PowerTypeOK
    /\ Power!ChargingFollowsBoot <=> PowerProofs!ChargingFollowsBoot
    /\ Power!MeasuredWithChargingOff <=> PowerProofs!MeasuredWithChargingOff
    /\ Power!ProtectionHolds <=> PowerProofs!ProtectionHolds
    /\ Power!IndicatorShowsLastRead <=> PowerProofs!IndicatorShowsLastRead
    /\ Power!IconIsConsistent <=> PowerProofs!IconIsConsistent
BY Zenon
DEF
       Power!PowerTypeOK, Power!ChargingFollowsBoot, Power!MeasuredWithChargingOff,
       Power!ProtectionHolds, Power!IndicatorShowsLastRead, Power!IconIsConsistent,
       Power!RegisterValues, Power!EnableUpdate, Power!Bits, Power!ChargeStatus,
       Power!PresentedStates, Power!WindowProperties, Power!Booting,
       Power!charging_enabled, Power!watchdog_running, Power!LastInitUpdate,
       Power!Painted, Power!NoBatteryNoIcon, Power!ChargingOrComplete,
       Power!FullMeansFull, Power!PowerStatus, Power!Unavailable, Power!NotPresented,
       Power!set_battery_state, Power!set_battery_unavailable, Power!active_charge,
       Power!complete_charge, Power!external_power, Power!FullBar, Power!Percentages,
       Power!NoFacts, Power!NoPercentage,
       PowerProofs!PowerTypeOK, PowerProofs!ChargingFollowsBoot,
       PowerProofs!MeasuredWithChargingOff, PowerProofs!ProtectionHolds,
       PowerProofs!IndicatorShowsLastRead, PowerProofs!IconIsConsistent,
       PowerProofs!RegisterValues, PowerProofs!EnableUpdate, PowerProofs!Bits,
       PowerProofs!ChargeStatus, PowerProofs!PresentedStates,
       PowerProofs!WindowProperties, PowerProofs!Booting, PowerProofs!charging_enabled,
       PowerProofs!watchdog_running, PowerProofs!LastInitUpdate, PowerProofs!Painted,
       PowerProofs!NoBatteryNoIcon, PowerProofs!ChargingOrComplete,
       PowerProofs!FullMeansFull, PowerProofs!PowerStatus, PowerProofs!Unavailable,
       PowerProofs!NotPresented, PowerProofs!set_battery_state,
       PowerProofs!set_battery_unavailable, PowerProofs!active_charge,
       PowerProofs!complete_charge, PowerProofs!external_power, PowerProofs!FullBar,
       PowerProofs!Percentages, PowerProofs!NoFacts, PowerProofs!NoPercentage

LEMMA TouchStep == [Next]_boardVars => [TouchProofs!Next]_(TouchProofs!touchVars)
<1>1. [Next]_boardVars => [Touch!Next]_touchVars
  BY BoardStepIsTouch
<1>2. UNCHANGED touchVars => UNCHANGED TouchProofs!touchVars
  BY DEF touchVars, TouchProofs!touchVars, TouchProofs!chipVars, TouchProofs!startVars,
     TouchProofs!contactVars
<1> QED
  BY <1>1, <1>2, SameTouchStep

LEMMA PowerStep == [Next]_boardVars => [PowerProofs!Next]_(PowerProofs!powerVars)
<1>1. [Next]_boardVars => [Power!Next]_powerVars
  BY BoardStepIsPower
<1>2. UNCHANGED powerVars => UNCHANGED PowerProofs!powerVars
  BY DEF powerVars, PowerProofs!powerVars, PowerProofs!bootVars, PowerProofs!statusVars,
     PowerProofs!presentedVars
<1> QED
  BY <1>1, <1>2, SamePowerStep

LEMMA BoardStartsBooted == Init => PowerProofs!BootEnded
<1> SUFFICES ASSUME Init PROVE PowerProofs!BootEnded
  OBVIOUS
<1>1. reg \in PowerProofs!RegisterValues
  BY DEF Init, PowerProofs!RegisterValues
<1>2. /\ update \in 1 .. PowerProofs!EnableUpdate
      /\ update = IF battery_present_at_boot
                  THEN PowerProofs!EnableUpdate ELSE PowerProofs!LastInitUpdate
  BY DEF Init, PowerProofs!EnableUpdate, PowerProofs!LastInitUpdate, Power!EnableUpdate,
     Power!LastInitUpdate
<1>3. PowerProofs!BootTypeOK
  BY <1>1, <1>2 DEF Init, PowerProofs!BootTypeOK, PowerProofs!Bits, PowerProofs!ChargeStatus
<1>4. /\ PowerProofs!charging_enabled <=> battery_present_at_boot
      /\ "EN_HIZ" \notin reg.REG_INPUT_SOURCE_CONTROL
      /\ "CONV_RATE" \in reg.REG_ADC_CONTROL
      /\ ~PowerProofs!watchdog_running
  BY DEF Init, PowerProofs!charging_enabled, PowerProofs!watchdog_running
<1>5. /\ last_power_state = PowerProofs!NotPresented
      /\ window = PowerProofs!set_battery_unavailable
      /\ last_read = PowerProofs!NotPresented
  BY Zenon DEF Init, Power!NotPresented, Power!NoFacts, Power!NoPercentage,
     Power!set_battery_unavailable, PowerProofs!NotPresented, PowerProofs!NoFacts,
     PowerProofs!NoPercentage, PowerProofs!set_battery_unavailable
<1> QED
  BY <1>2, <1>3, <1>4, <1>5 DEF Init, PowerProofs!BootEnded

\* Touch input on the shared bus: the panel's coordinates stay inside the
\* window, a polled touchpad reports, and a contact is pressed once and once
\* more for each fault that interrupts it, however refreshes delay the polls.
THEOREM TouchOnTheBoard ==
    BoardSpec => [](/\ Touch!TouchTypeOK
                    /\ Touch!PolledTouchpadReports
                    /\ Touch!SecondPressNeedsFault)
<1> DEFINE I == /\ TouchProofs!TouchTypeOK
                /\ TouchProofs!PolledTouchpadReports
                /\ TouchProofs!PressesArePaid /\ TouchProofs!AcknowledgedIsEmpty
<1>1. Init => I
  <2> SUFFICES ASSUME Init PROVE I
    OBVIOUS
  <2>1. TouchProofs!Init
    BY SameTouchInit DEF Init
  <2>2. TouchProofs!TouchTypeOK
    BY <2>1, AssumptionsHold, TouchProofs!InitType
  <2>3. /\ TouchProofs!PolledTouchpadReports
        /\ TouchProofs!PressesArePaid /\ TouchProofs!AcknowledgedIsEmpty
    BY <2>1 DEF TouchProofs!Init, TouchProofs!PolledTouchpadReports,
       TouchProofs!PressesArePaid, TouchProofs!AcknowledgedIsEmpty
  <2> QED
    BY <2>2, <2>3
<1>2. I /\ [Next]_boardVars => I'
  <2> SUFFICES ASSUME I, [Next]_boardVars PROVE I'
    OBVIOUS
  <2>1. [TouchProofs!Next]_(TouchProofs!touchVars)
    BY TouchStep
  <2>2. TouchProofs!TouchTypeOK'
    BY <2>1, AssumptionsHold, TouchProofs!NextType
  <2>3. TouchProofs!PolledTouchpadReports'
    BY <2>1, AssumptionsHold, TouchProofs!NextPolled
  <2>4. TouchProofs!PressesArePaid' /\ TouchProofs!AcknowledgedIsEmpty'
    BY <2>1, AssumptionsHold, TouchProofs!NextPresses, TouchProofs!TypeParts
  <2> QED
    BY <2>2, <2>3, <2>4
<1>3. I => /\ Touch!TouchTypeOK
           /\ Touch!PolledTouchpadReports
           /\ Touch!SecondPressNeedsFault
  <2>1. I => TouchProofs!SecondPressNeedsFault
    BY AssumptionsHold, TouchProofs!PaidPresses
  <2> QED
    BY <2>1, SameTouchProperties
<1> QED
  BY <1>1, <1>2, <1>3, PTL DEF BoardSpec

\* The controller on the shared bus, which begins where initialize_pmu ends:
\* charging stays as the boot decided it, and the indicator shows what the last
\* refresh read and never contradicts itself, however touch input delays it.
THEOREM PowerOnTheBoard ==
    BoardSpec => [](/\ Power!PowerTypeOK
                    /\ Power!ChargingFollowsBoot
                    /\ Power!IndicatorShowsLastRead
                    /\ Power!IconIsConsistent)
<1> DEFINE I == /\ PowerProofs!Types
                /\ PowerProofs!BootInv
                /\ PowerProofs!Presented
                /\ PowerProofs!NoIconInv
                /\ PowerProofs!FactsShown
<1>1. Init => I
  BY BoardStartsBooted, AssumptionsHold, PowerProofs!InvariantsAfterBoot
<1>2. I /\ [Next]_boardVars => I'
  <2> SUFFICES ASSUME I, [Next]_boardVars PROVE I'
    OBVIOUS
  <2>1. [PowerProofs!Next]_(PowerProofs!powerVars)
    BY PowerStep
  <2>2. PowerProofs!Types'
    BY <2>1, AssumptionsHold, PowerProofs!NextType DEF PowerProofs!Types
  <2>3. PowerProofs!BootInv'
    BY <2>1, AssumptionsHold, PowerProofs!NextBoot
  <2>4. PowerProofs!Presented'
    BY <2>1, AssumptionsHold, PowerProofs!NextPresented
  <2>5. PowerProofs!NoIconInv'
    BY <2>1, AssumptionsHold, PowerProofs!NextNoIcon
  <2>6. PowerProofs!FactsShown'
    BY <2>1, AssumptionsHold, PowerProofs!NextFacts
  <2> QED
    BY <2>2, <2>3, <2>4, <2>5, <2>6
<1>3. I => /\ Power!PowerTypeOK
           /\ Power!ChargingFollowsBoot
           /\ Power!IndicatorShowsLastRead
           /\ Power!IconIsConsistent
  <2> SUFFICES ASSUME I PROVE /\ PowerProofs!PowerTypeOK
                              /\ PowerProofs!ChargingFollowsBoot
                              /\ PowerProofs!IndicatorShowsLastRead
                              /\ PowerProofs!IconIsConsistent
    BY SamePowerProperties
  <2> QED
    BY AssumptionsHold, PowerProofs!InvariantsImply DEF PowerProofs!NoIconInv
<1> QED
  BY <1>1, <1>2, <1>3, PTL DEF BoardSpec

LEMMA SamePointer ==
    /\ Touch!PointerPromise!Init <=> TouchProofs!PointerPromise!Init
    /\ Touch!PointerPromise!Next <=> TouchProofs!PointerPromise!Next
BY Zenon
DEF Touch!PointerPromise!Init, Touch!PointerPromise!Next, Touch!PointerPromise!Press,
    Touch!PointerPromise!Release, Touch!PointerPromise!Event, Touch!Positions,
    TouchProofs!PointerPromise!Init, TouchProofs!PointerPromise!Next,
    TouchProofs!PointerPromise!Press, TouchProofs!PointerPromise!Release,
    TouchProofs!PointerPromise!Event, TouchProofs!Positions

\* What the shared bus leaves of the render task still gives Slint presses and
\* releases in turn, each release where its press was: the board refines Pointer.
THEOREM PointerOnTheBoard == BoardSpec => Touch!PointerSpec
<1> DEFINE I == /\ TouchProofs!TouchTypeOK
                /\ TouchProofs!PressIsLastEvent
<1>1. Init => I /\ Touch!PointerPromise!Init
  <2> SUFFICES ASSUME Init PROVE I /\ TouchProofs!PointerPromise!Init
    BY SamePointer
  <2>1. TouchProofs!Init
    BY SameTouchInit DEF Init
  <2>2. TouchProofs!TouchTypeOK
    BY <2>1, AssumptionsHold, TouchProofs!InitType
  <2>3. TouchProofs!PressIsLastEvent /\ TouchProofs!PointerPromise!Init
    BY <2>1, AssumptionsHold, TouchProofs!InitEvent
  <2> QED
    BY <2>2, <2>3
<1>2. I /\ [Next]_boardVars => I' /\ [Touch!PointerPromise!Next]_event
  <2> SUFFICES ASSUME I, [Next]_boardVars
               PROVE  I' /\ [TouchProofs!PointerPromise!Next]_event
    BY SamePointer
  <2>1. [TouchProofs!Next]_(TouchProofs!touchVars)
    BY TouchStep
  <2>2. TouchProofs!TouchTypeOK'
    BY <2>1, AssumptionsHold, TouchProofs!NextType
  <2>3. TouchProofs!PressIsLastEvent' /\ [TouchProofs!PointerPromise!Next]_event
    BY <2>1, AssumptionsHold, TouchProofs!NextEvent, TouchProofs!TypeParts
  <2> QED
    BY <2>2, <2>3
<1> QED
  BY <1>1, <1>2, PTL DEF BoardSpec, Touch!PointerSpec, Touch!PointerPromise!Spec
=============================================================================
