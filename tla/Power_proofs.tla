---------------------------- MODULE Power_proofs ----------------------------
(***************************************************************************)
(* Proofs about Power, for every reading of the charger.                   *)
(***************************************************************************)
EXTENDS Power, TLAPS

USE PowerAssumption

-----------------------------------------------------------------------------
(***************************************************************************)
(* Readings, and what is painted of them.                                  *)
(***************************************************************************)
LEMMA VoltageIsNatural ==
    ASSUME NEW code \in VoltageCodes
    PROVE  battery_voltage(code) \in Nat
BY DEF battery_voltage

LEMMA PercentageBands ==
    ASSUME NEW millivolts \in Nat
    PROVE  /\ battery_percentage_from_voltage(millivolts) \in {0, 20, 40, 60, 80, 100}
           /\ battery_percentage_from_voltage(millivolts) = 100 <=>
                 millivolts > FullBatteryThreshold
<1> DEFINE percentage == battery_percentage_from_voltage(millivolts)
<1>1. CASE millivolts <= 3200
  BY <1>1 DEF battery_percentage_from_voltage, FullBatteryThreshold
<1>2. CASE millivolts > 3200 /\ millivolts <= 3400
  BY <1>2 DEF battery_percentage_from_voltage, FullBatteryThreshold
<1>3. CASE millivolts > 3400 /\ millivolts <= 3600
  BY <1>3 DEF battery_percentage_from_voltage, FullBatteryThreshold
<1>4. CASE millivolts > 3600 /\ millivolts <= 3800
  BY <1>4 DEF battery_percentage_from_voltage, FullBatteryThreshold
<1>5. CASE millivolts > 3800 /\ millivolts <= 4000
  BY <1>5 DEF battery_percentage_from_voltage, FullBatteryThreshold
<1>6. CASE millivolts > 4000
  BY <1>6 DEF battery_percentage_from_voltage, FullBatteryThreshold
<1> QED
  BY <1>1, <1>2, <1>3, <1>4, <1>5, <1>6

LEMMA StatusTypes ==
    ASSUME NEW usb \in BOOLEAN, NEW s \in ChargeStatus, NEW millivolts \in Nat
    PROVE  /\ StatusWithBattery(usb, s, millivolts) \in PowerStatus
           /\ StatusWithoutBattery(usb) \in PowerStatus
<1>1. battery_percentage_from_voltage(millivolts) \in Percentages
  BY PercentageBands DEF Percentages
<1>2. (s = "Done" \/ (~is_charging(s) /\ millivolts > FullBatteryThreshold)) \in BOOLEAN
  OBVIOUS
<1>3. is_charging(s) \in BOOLEAN
  BY DEF is_charging
<1>4. StatusWithBattery(usb, s, millivolts) \in PowerStatus
  BY <1>1, <1>2, <1>3 DEF StatusWithBattery, PowerStatus
<1>5. StatusWithoutBattery(usb) \in PowerStatus
  BY DEF StatusWithoutBattery, NoFacts, PowerStatus, Percentages
<1> QED
  BY <1>4, <1>5

\* A refresh ends in a status or in Unavailable.
RefreshResults == [kind : {"Available"}, facts : PowerStatus] \cup {Unavailable}

LEMMA AvailableType ==
    ASSUME NEW facts \in PowerStatus
    PROVE  Available(facts) \in RefreshResults
BY DEF Available, RefreshResults

LEMMA PaintedType ==
    ASSUME NEW state \in PresentedStates
    PROVE  Painted(state) \in WindowProperties
<1>1. CASE state.kind = "Available"
  <2>1. state.facts \in PowerStatus
    BY <1>1 DEF PresentedStates, Unavailable, NotPresented
  <2>2. (state.facts.percentage # NoPercentage) \in BOOLEAN
    OBVIOUS
  <2>3. (IF state.facts.percentage = NoPercentage THEN 0 ELSE state.facts.percentage)
          \in 0 .. 100
    BY <2>1 DEF PowerStatus, Percentages, NoPercentage
  <2> QED
    BY <1>1, <2>1, <2>2, <2>3 DEF Painted, set_battery_state, WindowProperties, PowerStatus
<1>2. CASE state.kind # "Available"
  BY <1>2 DEF Painted, set_battery_unavailable, WindowProperties
<1> QED
  BY <1>1, <1>2

-----------------------------------------------------------------------------
(***************************************************************************)
(* The updates of the boot.                                                *)
(***************************************************************************)
LEMMA BootUpdate ==
    ASSUME update \in 1 .. EnableUpdate
    PROVE  LET u == boot_updates[update]
           IN  /\ update = 1 => u = update_bits("REG_POWER_ON_CONFIG", {"CHARGE_ENABLE"}, {})
               /\ update = 2 => u = update_bits("REG_INPUT_SOURCE_CONTROL", {"EN_HIZ"}, {})
               /\ update = 3 => u = update_bits("REG_ADC_CONTROL", {},
                                                {"CONV_START", "CONV_RATE"})
               /\ update = 4 => u = update_bits("REG_CHARGE_TIMER_CONTROL",
                                                {"WATCHDOG_TIMER"}, {})
               /\ update = 5 => u = update_bits("REG_POWER_ON_CONFIG", {}, {"CHARGE_ENABLE"})
BY DEF boot_updates, set_charge_enabled, EnableUpdate

\* The effect of writing back what was read and updated.
UpdateIsWritten == reg' = [reg EXCEPT ![CurrentRegister] = Updated]

LEMMA UpdateEffect ==
    ASSUME update \in 1 .. EnableUpdate, reg \in RegisterValues,
           value = reg[CurrentRegister], UpdateIsWritten
    PROVE  /\ reg' \in RegisterValues
           /\ \A r \in Registers : ("OTHER" \in reg[r]) <=> ("OTHER" \in reg'[r])
           /\ charging_enabled' <=> update = 5 \/ (update # 1 /\ charging_enabled)
           /\ "EN_HIZ" \in reg'.REG_INPUT_SOURCE_CONTROL <=>
                 update # 2 /\ "EN_HIZ" \in reg.REG_INPUT_SOURCE_CONTROL
           /\ "CONV_RATE" \in reg'.REG_ADC_CONTROL <=>
                 update = 3 \/ "CONV_RATE" \in reg.REG_ADC_CONTROL
           /\ watchdog_running' <=> update # 4 /\ watchdog_running
<1>0. update \in {1, 2, 3, 4, 5}
  BY DEF EnableUpdate
<1>1. CASE update = 1
  <2>1. /\ CurrentRegister = "REG_POWER_ON_CONFIG"
        /\ Updated = value \ {"CHARGE_ENABLE"}
    BY <1>1, BootUpdate DEF CurrentRegister, Updated, update_bits
  <2>2. reg' = [reg EXCEPT !.REG_POWER_ON_CONFIG = @ \ {"CHARGE_ENABLE"}]
    BY <2>1 DEF UpdateIsWritten
  <2> QED
    BY <1>1, <2>2 DEF RegisterValues, Registers, charging_enabled, watchdog_running
<1>2. CASE update = 2
  <2>1. /\ CurrentRegister = "REG_INPUT_SOURCE_CONTROL"
        /\ Updated = value \ {"EN_HIZ"}
    BY <1>2, BootUpdate DEF CurrentRegister, Updated, update_bits
  <2>2. reg' = [reg EXCEPT !.REG_INPUT_SOURCE_CONTROL = @ \ {"EN_HIZ"}]
    BY <2>1 DEF UpdateIsWritten
  <2> QED
    BY <1>2, <2>2 DEF RegisterValues, Registers, charging_enabled, watchdog_running
<1>3. CASE update = 3
  <2>1. /\ CurrentRegister = "REG_ADC_CONTROL"
        /\ Updated = value \cup {"CONV_START", "CONV_RATE"}
    BY <1>3, BootUpdate DEF CurrentRegister, Updated, update_bits
  <2>2. reg' = [reg EXCEPT !.REG_ADC_CONTROL = @ \cup {"CONV_START", "CONV_RATE"}]
    BY <2>1 DEF UpdateIsWritten
  <2> QED
    BY <1>3, <2>2 DEF RegisterValues, Registers, charging_enabled, watchdog_running
<1>4. CASE update = 4
  <2>1. /\ CurrentRegister = "REG_CHARGE_TIMER_CONTROL"
        /\ Updated = value \ {"WATCHDOG_TIMER"}
    BY <1>4, BootUpdate DEF CurrentRegister, Updated, update_bits
  <2>2. reg' = [reg EXCEPT !.REG_CHARGE_TIMER_CONTROL = @ \ {"WATCHDOG_TIMER"}]
    BY <2>1 DEF UpdateIsWritten
  <2> QED
    BY <1>4, <2>2 DEF RegisterValues, Registers, charging_enabled, watchdog_running
<1>5. CASE update = 5
  <2>1. /\ CurrentRegister = "REG_POWER_ON_CONFIG"
        /\ Updated = value \cup {"CHARGE_ENABLE"}
    BY <1>5, BootUpdate DEF CurrentRegister, Updated, update_bits
  <2>2. reg' = [reg EXCEPT !.REG_POWER_ON_CONFIG = @ \cup {"CHARGE_ENABLE"}]
    BY <2>1 DEF UpdateIsWritten
  <2> QED
    BY <1>5, <2>2 DEF RegisterValues, Registers, charging_enabled, watchdog_running
<1> QED
  BY <1>0, <1>1, <1>2, <1>3, <1>4, <1>5

-----------------------------------------------------------------------------
(***************************************************************************)
(* Types, with what update_bits has read still in the register: the write  *)
(* is of the register as it is.                                            *)
(***************************************************************************)
ReadIsCurrent == main = "update_write" /\ ~halted => value = reg[CurrentRegister]

BootTypeOK ==
    /\ reg \in RegisterValues
    /\ main \in {"update_read", "update_write", "battery_voltage", "bring_up",
                 "system", "bus", "voltage", "select"}
    /\ update \in 1 .. EnableUpdate
    /\ halted \in BOOLEAN
    /\ value \in SUBSET Bits
    /\ battery_present_at_boot \in BOOLEAN
    /\ charge_status \in ChargeStatus
    /\ usb_present \in BOOLEAN

PresentedTypeOK ==
    /\ last_power_state \in PresentedStates
    /\ window \in WindowProperties
    /\ last_read \in PresentedStates

LEMMA TypeParts == PowerTypeOK <=> BootTypeOK /\ PresentedTypeOK
BY DEF PowerTypeOK, BootTypeOK, PresentedTypeOK

LEMMA WindowStarts == set_battery_unavailable \in WindowProperties
BY DEF set_battery_unavailable, WindowProperties

LEMMA BootStarts == 1 \in 1 .. EnableUpdate /\ {} \in SUBSET Bits /\ "NotCharging" \in ChargeStatus
BY DEF EnableUpdate, ChargeStatus

LEMMA InitType == Init => PowerTypeOK /\ ReadIsCurrent
<1> SUFFICES ASSUME Init PROVE PowerTypeOK /\ ReadIsCurrent
  OBVIOUS
<1>1. PresentedTypeOK
  BY WindowStarts DEF Init, PresentedTypeOK, PresentedStates
<1>2. BootTypeOK
  BY BootStarts DEF Init, BootTypeOK
<1>3. ReadIsCurrent
  BY DEF Init, ReadIsCurrent
<1> QED
  BY <1>1, <1>2, <1>3, TypeParts

LEMMA RefreshedType ==
    ASSUME PresentedTypeOK, NEW state \in RefreshResults, Refreshed(state)
    PROVE  PresentedTypeOK'
<1>1. state \in PresentedStates
  BY DEF RefreshResults, PresentedStates
<1>2. Painted(state) \in WindowProperties
  BY <1>1, PaintedType
<1> QED
  BY <1>1, <1>2 DEF Refreshed, PresentedTypeOK

\* Every refresh that ends does so in a state of its type.
LEMMA RefreshEndsInResult ==
    ASSUME BootTypeOK
    PROVE  /\ Unavailable \in RefreshResults
           /\ \A usb \in BusReadings :
                 Available(StatusWithoutBattery(usb)) \in RefreshResults
           /\ \A code \in VoltageCodes :
                 Available(StatusWithBattery(usb_present, charge_status, battery_voltage(code)))
                    \in RefreshResults
<1>1. Unavailable \in RefreshResults
  BY DEF RefreshResults
<1>2. ASSUME NEW usb \in BusReadings
      PROVE  Available(StatusWithoutBattery(usb)) \in RefreshResults
  <2>1. usb \in BOOLEAN
    OBVIOUS
  <2>2. StatusWithoutBattery(usb) \in PowerStatus
    BY <2>1, StatusTypes DEF BootTypeOK
  <2> QED
    BY <2>2, AvailableType
<1>3. ASSUME NEW code \in VoltageCodes
      PROVE  Available(StatusWithBattery(usb_present, charge_status, battery_voltage(code)))
                \in RefreshResults
  <2>1. battery_voltage(code) \in Nat
    BY VoltageIsNatural
  <2>2. StatusWithBattery(usb_present, charge_status, battery_voltage(code)) \in PowerStatus
    BY <2>1, StatusTypes DEF BootTypeOK
  <2> QED
    BY <2>2, AvailableType
<1> QED
  BY <1>1, <1>2, <1>3

LEMMA NextType ==
    ASSUME BootTypeOK, PresentedTypeOK, ReadIsCurrent, [Next]_powerVars
    PROVE  BootTypeOK' /\ PresentedTypeOK' /\ ReadIsCurrent'
<1>1. CASE UpdateRead
  <2>1. reg[CurrentRegister] \in SUBSET Bits
    <3>1. CurrentRegister \in Registers
      BY BootUpdate DEF BootTypeOK, CurrentRegister, Registers, update_bits, EnableUpdate
    <3> QED
      BY <3>1 DEF BootTypeOK, RegisterValues, Registers, Bits
  <2>2. BootTypeOK'
    BY <1>1, <2>1 DEF UpdateRead, BootTypeOK, statusVars
  <2>3. ReadIsCurrent' /\ PresentedTypeOK'
    BY <1>1 DEF UpdateRead, ReadIsCurrent, CurrentRegister, PresentedTypeOK, presentedVars
  <2> QED
    BY <2>2, <2>3
<1>2. CASE UpdateWritten
  <2>1. reg' \in RegisterValues
    BY <1>2, UpdateEffect DEF UpdateWritten, ReadIsCurrent, BootTypeOK, UpdateIsWritten
  <2>2. update' \in 1 .. EnableUpdate
    BY <1>2 DEF UpdateWritten, BootTypeOK, EnableUpdate, LastInitUpdate
  <2>3. BootTypeOK' /\ main' # "update_write"
    BY <1>2, <2>1, <2>2 DEF UpdateWritten, BootTypeOK, statusVars
  <2> QED
    BY <1>2, <2>3 DEF UpdateWritten, ReadIsCurrent, PresentedTypeOK, presentedVars
<1>3. ASSUME NEW code \in VoltageCodes, BatteryMeasured(code)
      PROVE  BootTypeOK' /\ PresentedTypeOK' /\ ReadIsCurrent'
  <2>1. (battery_voltage(code) >= BatteryPresentThreshold) \in BOOLEAN
    OBVIOUS
  <2>2. BootTypeOK'
    BY <1>3, <2>1 DEF BatteryMeasured, BootTypeOK, statusVars, EnableUpdate
  <2> QED
    BY <1>3, <2>2 DEF BatteryMeasured, ReadIsCurrent, PresentedTypeOK, presentedVars
<1>4. CASE BringUp
  BY <1>4 DEF BringUp, BootTypeOK, PresentedTypeOK, ReadIsCurrent, bootVars, statusVars,
       presentedVars
<1>5. CASE BootFails
  <2>1. reg' \in RegisterValues
    <3>1. CASE UNCHANGED reg
      BY <3>1 DEF BootTypeOK
    <3>2. CASE main = "update_write" /\ reg' = [reg EXCEPT ![CurrentRegister] = Updated]
      BY <1>5, <3>2, UpdateEffect DEF BootFails, ReadIsCurrent, BootTypeOK, UpdateIsWritten
    <3> QED
      BY <1>5, <3>1, <3>2 DEF BootFails
  <2>2. BootTypeOK'
    BY <1>5, <2>1 DEF BootFails, BootTypeOK, statusVars
  <2> QED
    BY <1>5, <2>2 DEF BootFails, PresentedTypeOK, ReadIsCurrent, presentedVars
<1>6. CASE RefreshStarts
  BY <1>6 DEF RefreshStarts, BootTypeOK, PresentedTypeOK, ReadIsCurrent, bootVars, statusVars,
       presentedVars
<1>7. CASE SystemStatusRead
  BY <1>7 DEF SystemStatusRead, BootTypeOK, PresentedTypeOK, ReadIsCurrent, bootVars,
       presentedVars
<1>8. ASSUME NEW bus_good \in BusReadings, BusVoltageRead(bus_good)
      PROVE  BootTypeOK' /\ PresentedTypeOK' /\ ReadIsCurrent'
  <2>1. CASE battery_present_at_boot
    BY <1>8, <2>1 DEF BusVoltageRead, BootTypeOK, PresentedTypeOK, ReadIsCurrent, bootVars,
         presentedVars
  <2>2. CASE ~battery_present_at_boot
    <3>1. Refreshed(Available(StatusWithoutBattery(bus_good)))
      BY <1>8, <2>2 DEF BusVoltageRead
    <3>2. PresentedTypeOK'
      BY <3>1, RefreshedType, RefreshEndsInResult
    <3>3. UNCHANGED <<reg, bootVars, charge_status>> /\ main' = "select"
      BY <1>8, <3>1 DEF BusVoltageRead, Refreshed
    <3> QED
      BY <1>8, <3>2, <3>3 DEF BusVoltageRead, BootTypeOK, ReadIsCurrent, bootVars
  <2> QED
    BY <2>1, <2>2
<1>9. ASSUME NEW code \in VoltageCodes, BatteryVoltageRead(code)
      PROVE  BootTypeOK' /\ PresentedTypeOK' /\ ReadIsCurrent'
  <2>1. PresentedTypeOK'
    BY <1>9, RefreshedType, RefreshEndsInResult DEF BatteryVoltageRead
  <2> QED
    BY <1>9, <2>1 DEF BatteryVoltageRead, Refreshed, BootTypeOK, ReadIsCurrent, bootVars,
         statusVars
<1>10. CASE RefreshFails
  <2>1. PresentedTypeOK'
    BY <1>10, RefreshedType, RefreshEndsInResult DEF RefreshFails
  <2> QED
    BY <1>10, <2>1 DEF RefreshFails, Refreshed, BootTypeOK, ReadIsCurrent, bootVars, statusVars
<1>11. CASE WatchdogExpires
  <2>1. reg' \in RegisterValues
    BY <1>11 DEF WatchdogExpires, BootTypeOK, RegisterValues
  <2> QED
    BY <1>11, <2>1 DEF WatchdogExpires, Booting, BootTypeOK, PresentedTypeOK, ReadIsCurrent,
         bootVars, statusVars, presentedVars
<1>12. CASE Reset
  <2>1. PresentedTypeOK'
    BY <1>12, WindowStarts DEF Reset, PresentedTypeOK, PresentedStates
  <2>2. BootTypeOK'
    BY <1>12, BootStarts DEF Reset, BootTypeOK
  <2>3. ReadIsCurrent'
    BY <1>12 DEF Reset, ReadIsCurrent
  <2> QED
    BY <2>1, <2>2, <2>3
<1>13. CASE UNCHANGED powerVars
  BY <1>13 DEF powerVars, BootTypeOK, PresentedTypeOK, ReadIsCurrent, CurrentRegister, bootVars,
       statusVars, presentedVars
<1> QED
  BY <1>1, <1>2, <1>3, <1>4, <1>5, <1>6, <1>7, <1>8, <1>9, <1>10, <1>11, <1>12, <1>13
     DEF Next, Boot, Refresh

Types == BootTypeOK /\ PresentedTypeOK /\ ReadIsCurrent

LEMMA TypesHold == PowerSpec => []Types
<1>1. Init => Types
  BY InitType, TypeParts DEF Types
<1>2. Types /\ [Next]_powerVars => Types'
  BY NextType DEF Types
<1> QED
  BY <1>1, <1>2, PTL DEF PowerSpec

\* Registers, readings and the window keep to their types.
THEOREM TypeCorrect == PowerSpec => []PowerTypeOK
<1>1. Types => PowerTypeOK
  BY TypeParts DEF Types
<1> QED
  BY <1>1, TypesHold, PTL

-----------------------------------------------------------------------------
(***************************************************************************)
(* The boot.  Its updates stay done as it goes on, and charging is off     *)
(* between the first and the last of them.                                 *)
(***************************************************************************)
PassedUpdates ==
    /\ main = "battery_voltage" => update = LastInitUpdate
    /\ update \in 1 .. LastInitUpdate - 1 => main \in {"update_read", "update_write"}
    /\ update > 2 => "EN_HIZ" \notin reg.REG_INPUT_SOURCE_CONTROL
    /\ update > 3 => "CONV_RATE" \in reg.REG_ADC_CONTROL
    /\ (update > 4 \/ main \notin {"update_read", "update_write"}) => ~watchdog_running

BatteryDecision ==
    /\ update = EnableUpdate => battery_present_at_boot
    /\ main \notin {"update_read", "update_write", "battery_voltage"} =>
          (charging_enabled <=> battery_present_at_boot)

ChargingOff == (Booting /\ update \in 2 .. LastInitUpdate /\ charging_enabled) =>
    halted /\ watchdog_running

BootInv == PassedUpdates /\ ChargingOff /\ BatteryDecision

\* the step neither boots nor touches the registers
Unrelated == UNCHANGED <<reg, bootVars>> /\ ~Booting /\ ~Booting'

LEMMA UnrelatedKeepsBoot ==
    ASSUME BootTypeOK, BootInv, Unrelated
    PROVE  BootInv'
<1>1. update \notin 1 .. LastInitUpdate - 1
  BY DEF Unrelated, BootInv, PassedUpdates, Booting
<1>2. main' \notin {"update_read", "update_write", "battery_voltage"}
  BY DEF Unrelated, Booting
<1>3. PassedUpdates'
  BY <1>1, <1>2 DEF Unrelated, BootInv, PassedUpdates, bootVars, watchdog_running, Booting
<1>4. BatteryDecision'
  BY <1>2 DEF Unrelated, BootInv, BatteryDecision, bootVars, charging_enabled, Booting
<1>5. ChargingOff'
  BY DEF Unrelated, ChargingOff
<1> QED
  BY <1>3, <1>4, <1>5 DEF BootInv

LEMMA NextBoot ==
    ASSUME Types, BootInv, [Next]_powerVars
    PROVE  BootInv'
<1>u. update \in 1 .. 5
  BY DEF Types, BootTypeOK, EnableUpdate
<1>1. CASE UpdateRead
  <2>1. /\ UNCHANGED <<reg, update, halted, battery_present_at_boot>>
        /\ main = "update_read" /\ main' = "update_write"
    BY <1>1 DEF UpdateRead
  <2>2. PassedUpdates'
    BY <2>1 DEF BootInv, PassedUpdates, watchdog_running, LastInitUpdate
  <2>3. ChargingOff'
    BY <2>1 DEF BootInv, ChargingOff, Booting, charging_enabled, watchdog_running
  <2>4. BatteryDecision'
    BY <2>1 DEF BootInv, BatteryDecision, charging_enabled
  <2> QED
    BY <2>2, <2>3, <2>4 DEF BootInv
<1>2. CASE UpdateWritten
  <2>0. /\ main = "update_write" /\ ~halted /\ UNCHANGED <<halted, battery_present_at_boot>>
        /\ reg \in RegisterValues /\ value = reg[CurrentRegister] /\ UpdateIsWritten
    BY <1>2 DEF UpdateWritten, Types, BootTypeOK, ReadIsCurrent, UpdateIsWritten
  <2>1. /\ charging_enabled' <=> update = 5 \/ (update # 1 /\ charging_enabled)
        /\ "EN_HIZ" \in reg'.REG_INPUT_SOURCE_CONTROL <=>
              update # 2 /\ "EN_HIZ" \in reg.REG_INPUT_SOURCE_CONTROL
        /\ "CONV_RATE" \in reg'.REG_ADC_CONTROL <=>
              update = 3 \/ "CONV_RATE" \in reg.REG_ADC_CONTROL
        /\ watchdog_running' <=> update # 4 /\ watchdog_running
    BY <1>u, <2>0, UpdateEffect DEF EnableUpdate
  <2>2. \/ update < 4 /\ update' = update + 1 /\ main' = "update_read"
        \/ update = 4 /\ update' = 4 /\ main' = "battery_voltage"
        \/ update = 5 /\ update' = 5 /\ main' = "bring_up"
    BY <1>2, <1>u DEF UpdateWritten, LastInitUpdate
  <2>3. PassedUpdates'
    BY <1>u, <2>1, <2>2 DEF BootInv, PassedUpdates, LastInitUpdate
  <2>4. ChargingOff'
    <3>1. CASE update = 1
      BY <2>1, <3>1 DEF ChargingOff
    <3>2. CASE update \in 2 .. 4
      <4>1. ~charging_enabled
        BY <2>0, <3>2 DEF BootInv, ChargingOff, Booting, LastInitUpdate
      <4> QED
        BY <2>1, <3>2, <4>1 DEF ChargingOff
    <3>3. CASE update = 5
      BY <2>2, <3>3 DEF ChargingOff, LastInitUpdate
    <3> QED
      BY <1>u, <3>1, <3>2, <3>3
  <2>5. BatteryDecision'
    BY <1>u, <2>0, <2>1, <2>2 DEF BootInv, BatteryDecision, EnableUpdate, LastInitUpdate
  <2> QED
    BY <2>3, <2>4, <2>5 DEF BootInv
<1>3. ASSUME NEW code \in VoltageCodes, BatteryMeasured(code)
      PROVE  BootInv'
  <2>0. /\ main = "battery_voltage" /\ ~halted /\ UNCHANGED <<reg, halted>> /\ update = 4
        /\ ~watchdog_running /\ ~charging_enabled
        /\ "EN_HIZ" \notin reg.REG_INPUT_SOURCE_CONTROL
        /\ "CONV_RATE" \in reg.REG_ADC_CONTROL
    BY <1>3, <1>u DEF BatteryMeasured, BootInv, PassedUpdates, ChargingOff, Booting, LastInitUpdate
  <2>1. \/ battery_present_at_boot' /\ main' = "update_read" /\ update' = 5
        \/ ~battery_present_at_boot' /\ main' = "bring_up" /\ update' = 4
    BY <1>3, <2>0 DEF BatteryMeasured, EnableUpdate
  <2>2. ~watchdog_running' /\ ~charging_enabled'
    BY <2>0 DEF watchdog_running, charging_enabled
  <2>3. PassedUpdates'
    BY <2>0, <2>1, <2>2 DEF PassedUpdates, LastInitUpdate
  <2>4. ChargingOff'
    BY <2>2 DEF ChargingOff
  <2>5. BatteryDecision'
    BY <2>1, <2>2 DEF BatteryDecision, EnableUpdate
  <2> QED
    BY <2>3, <2>4, <2>5 DEF BootInv
<1>4. CASE BringUp
  <2>1. main = "bring_up" /\ main' = "system" /\ UNCHANGED <<reg, bootVars>>
    BY <1>4 DEF BringUp
  <2>2. PassedUpdates'
    BY <2>1 DEF BootInv, PassedUpdates, bootVars, watchdog_running
  <2>3. ChargingOff'
    BY <2>1 DEF ChargingOff, Booting
  <2>4. BatteryDecision'
    BY <2>1 DEF BootInv, BatteryDecision, bootVars, charging_enabled
  <2> QED
    BY <2>2, <2>3, <2>4 DEF BootInv
<1>5. CASE BootFails
  <2>0. Booting /\ ~halted /\ halted' = TRUE
        /\ UNCHANGED <<main, update, battery_present_at_boot>>
    BY <1>5 DEF BootFails
  <2>1. CASE UNCHANGED reg
    <3>1. PassedUpdates' /\ BatteryDecision'
      BY <2>0, <2>1 DEF BootInv, PassedUpdates, BatteryDecision, watchdog_running,
           charging_enabled
    <3>2. ChargingOff'
      BY <2>0, <2>1 DEF BootInv, ChargingOff, Booting, charging_enabled, watchdog_running
    <3> QED
      BY <3>1, <3>2 DEF BootInv
  <2>2. CASE main = "update_write" /\ reg' = [reg EXCEPT ![CurrentRegister] = Updated]
    <3>0. reg \in RegisterValues /\ value = reg[CurrentRegister] /\ UpdateIsWritten
      BY <2>0, <2>2 DEF Types, BootTypeOK, ReadIsCurrent, UpdateIsWritten
    <3>1. /\ charging_enabled' <=> update = 5 \/ (update # 1 /\ charging_enabled)
          /\ "EN_HIZ" \in reg'.REG_INPUT_SOURCE_CONTROL <=>
                update # 2 /\ "EN_HIZ" \in reg.REG_INPUT_SOURCE_CONTROL
          /\ "CONV_RATE" \in reg'.REG_ADC_CONTROL <=>
                update = 3 \/ "CONV_RATE" \in reg.REG_ADC_CONTROL
          /\ watchdog_running' <=> update # 4 /\ watchdog_running
      BY <1>u, <3>0, UpdateEffect DEF EnableUpdate
    <3>2. PassedUpdates' /\ BatteryDecision'
      BY <2>0, <2>2, <3>1 DEF BootInv, PassedUpdates, BatteryDecision
    <3>3. ChargingOff'
      <4>1. update \in 2 .. LastInitUpdate => ~charging_enabled
        BY <2>0 DEF BootInv, ChargingOff
      <4>2. update \in 2 .. LastInitUpdate => ~charging_enabled'
        BY <3>1, <4>1 DEF LastInitUpdate
      <4> QED
        BY <2>0, <4>2 DEF ChargingOff
    <3> QED
      BY <3>2, <3>3 DEF BootInv
  <2> QED
    BY <1>5, <2>1, <2>2 DEF BootFails
<1>6. CASE Refresh \/ RefreshFails
  <2>1. Unrelated
    BY <1>6 DEF Refresh, RefreshFails, RefreshStarts, SystemStatusRead, BusVoltageRead,
         BatteryVoltageRead, Refreshed, Unrelated, Booting
  <2> QED
    BY <2>1, UnrelatedKeepsBoot DEF Types
<1>7. CASE WatchdogExpires
  <2>0. /\ watchdog_running /\ watchdog_running' /\ charging_enabled'
        /\ UNCHANGED <<main, update, halted, battery_present_at_boot>>
        /\ reg'.REG_INPUT_SOURCE_CONTROL = reg.REG_INPUT_SOURCE_CONTROL
        /\ reg'.REG_ADC_CONTROL = reg.REG_ADC_CONTROL
    BY <1>7 DEF WatchdogExpires, Types, BootTypeOK, RegisterValues, watchdog_running,
         charging_enabled, bootVars
  <2>1. main \in {"update_read", "update_write"}
    BY <2>0 DEF BootInv, PassedUpdates
  <2>2. halted
    BY <1>7, <2>1 DEF WatchdogExpires, Booting
  <2>3. PassedUpdates' /\ BatteryDecision'
    BY <2>0, <2>1 DEF BootInv, PassedUpdates, BatteryDecision
  <2>4. ChargingOff'
    BY <2>0, <2>2 DEF ChargingOff
  <2> QED
    BY <2>3, <2>4 DEF BootInv
<1>8. CASE Reset
  <2>1. main' = "update_read" /\ update' = 1
    BY <1>8 DEF Reset
  <2> QED
    BY <2>1 DEF BootInv, PassedUpdates, ChargingOff, BatteryDecision, LastInitUpdate,
         EnableUpdate
<1>9. CASE UNCHANGED powerVars
  <2>1. UNCHANGED <<reg, main, update, halted, battery_present_at_boot>>
    BY <1>9 DEF powerVars, bootVars
  <2> QED
    BY <2>1 DEF BootInv, PassedUpdates, ChargingOff, BatteryDecision, Booting,
         charging_enabled, watchdog_running
<1> QED
  BY <1>1, <1>2, <1>3, <1>4, <1>5, <1>6, <1>7, <1>8, <1>9 DEF Next, Boot

LEMMA BootHolds == PowerSpec => []BootInv
<1>1. Init => BootInv
  BY DEF Init, BootInv, PassedUpdates, ChargingOff, BatteryDecision, LastInitUpdate,
     EnableUpdate
<1> QED
  BY <1>1, NextBoot, TypesHold, PTL DEF PowerSpec

\* The battery is measured alone: charging off, out of HIZ mode, converting,
\* and no watchdog that could turn charging on.
THEOREM MeasuredAlone == PowerSpec => []MeasuredWithChargingOff
<1>1. BootInv => MeasuredWithChargingOff
  BY DEF BootInv, PassedUpdates, ChargingOff, Booting, MeasuredWithChargingOff, LastInitUpdate
<1> QED
  BY <1>1, BootHolds, PTL

\* A boot that stops before the battery's measurement is used leaves charging
\* off, unless it leaves the watchdog running.
THEOREM ChargingStaysOff == PowerSpec => []ProtectionHolds
<1>1. BootInv => ProtectionHolds
  BY DEF BootInv, ChargingOff, ProtectionHolds
<1> QED
  BY <1>1, BootHolds, PTL

\* The running controller has charging on exactly if there was a battery.
THEOREM ChargingIsDecidedAtBoot == PowerSpec => []ChargingFollowsBoot
<1>1. BootInv => ChargingFollowsBoot
  BY DEF BootInv, BatteryDecision, Booting, ChargingFollowsBoot
<1> QED
  BY <1>1, BootHolds, PTL

\* No step of the boot changes a bit that it does not mean to change.
THEOREM OtherSettingsSurvive == PowerSpec => OtherSettingsKept
<1> DEFINE Kept == \A r \in Registers : ("OTHER" \in reg[r]) <=> ("OTHER" \in reg'[r])
<1>1. ASSUME Types, Next PROVE Kept
  <2>1. CASE UNCHANGED reg
    BY <2>1
  <2>2. CASE /\ main = "update_write" /\ ~halted
             /\ reg' = [reg EXCEPT ![CurrentRegister] = Updated]
    BY <1>1, <2>2, UpdateEffect DEF Types, BootTypeOK, ReadIsCurrent, UpdateIsWritten
  <2>3. CASE WatchdogExpires
    BY <1>1, <2>3 DEF WatchdogExpires, Types, BootTypeOK, RegisterValues, Registers
  <2>4. UNCHANGED reg \/ WatchdogExpires
        \/ /\ main = "update_write" /\ ~halted
           /\ reg' = [reg EXCEPT ![CurrentRegister] = Updated]
    BY <1>1 DEF Next, Boot, Refresh, UpdateRead, UpdateWritten, BatteryMeasured, BringUp,
       BootFails, RefreshStarts, SystemStatusRead, BusVoltageRead, BatteryVoltageRead,
       RefreshFails, Refreshed, Reset
  <2> QED
    BY <2>1, <2>2, <2>3, <2>4
<1>2. Types /\ [Next]_powerVars => [Kept]_powerVars
  BY <1>1
<1> QED
  BY <1>2, TypesHold, PTL DEF PowerSpec, OtherSettingsKept

-----------------------------------------------------------------------------
(***************************************************************************)
(* The indicator.  What was last presented is what was last read, and the  *)
(* window is painted with it, so that a skipped repaint changes nothing.   *)
(***************************************************************************)
Presented ==
    /\ last_power_state = last_read
    /\ window = Painted(last_power_state)

LEMMA RefreshedPresents ==
    ASSUME Presented, NEW state, Refreshed(state)
    PROVE  Presented' /\ last_read' = state /\ window' = Painted(state)
<1>1. last_power_state' = state /\ last_read' = state
  BY DEF Refreshed
<1>2. window' = Painted(state)
  BY DEF Refreshed, Presented
<1>3. Painted(state) = Painted(last_power_state)'
  BY <1>1 DEF Painted, set_battery_state, set_battery_unavailable
<1> QED
  BY <1>1, <1>2, <1>3 DEF Presented

\* The steps after which the window shows another reading, or none.
EndsRefresh ==
    \/ RefreshFails
    \/ \E bus_good \in BusReadings : BusVoltageRead(bus_good) /\ ~battery_present_at_boot
    \/ \E code \in VoltageCodes : BatteryVoltageRead(code)

LEMMA PresentingSteps ==
    ASSUME [Next]_powerVars
    PROVE  \/ Reset \/ EndsRefresh
           \/ UNCHANGED presentedVars
BY DEF Next, Boot, Refresh, UpdateRead, UpdateWritten, BatteryMeasured, BringUp, BootFails,
   RefreshStarts, SystemStatusRead, BusVoltageRead, EndsRefresh, WatchdogExpires, powerVars,
   presentedVars

LEMMA NextPresented ==
    ASSUME Presented, [Next]_powerVars
    PROVE  Presented'
<1>1. CASE Reset
  BY <1>1 DEF Reset, Presented, Painted, NotPresented, set_battery_unavailable
<1>2. CASE EndsRefresh
  <2>1. PICK state : Refreshed(state)
    BY <1>2 DEF EndsRefresh, RefreshFails, BusVoltageRead, BatteryVoltageRead
  <2> QED
    BY <2>1, RefreshedPresents
<1>3. CASE UNCHANGED presentedVars
  BY <1>3 DEF presentedVars, Presented, Painted, set_battery_state, set_battery_unavailable
<1> QED
  BY <1>1, <1>2, <1>3, PresentingSteps

LEMMA PresentedHolds == PowerSpec => []Presented
<1>1. Init => Presented
  BY DEF Init, Presented, Painted, NotPresented, set_battery_unavailable
<1> QED
  BY <1>1, NextPresented, PTL DEF PowerSpec

\* Between two refreshes the window shows what the last one read.
THEOREM WindowShowsLastRead == PowerSpec => []IndicatorShowsLastRead
<1>1. Presented => IndicatorShowsLastRead
  BY DEF Presented, IndicatorShowsLastRead
<1> QED
  BY <1>1, PresentedHolds, PTL

-----------------------------------------------------------------------------
(***************************************************************************)
(* What a battery's presence at boot means for the window.                 *)
(***************************************************************************)
NoIcon == ~window.battery_present /\ ~window.battery_charging /\ ~window.charge_complete

NoIconInv ==
    /\ NoBatteryNoIcon
    /\ Booting => NoIcon
    /\ main = "voltage" => battery_present_at_boot

LEMMA UnavailableHasNoIcon ==
    /\ Painted(Unavailable) = set_battery_unavailable
    /\ ~set_battery_unavailable.battery_present
    /\ ~set_battery_unavailable.battery_charging
    /\ ~set_battery_unavailable.charge_complete
BY DEF Painted, Unavailable, set_battery_unavailable

LEMMA WithoutBatteryHasNoIcon ==
    ASSUME NEW usb
    PROVE  LET properties == Painted(Available(StatusWithoutBattery(usb)))
           IN  ~properties.battery_present /\ ~properties.battery_charging
               /\ ~properties.charge_complete
BY DEF Painted, Available, StatusWithoutBattery, NoFacts, set_battery_state, NoPercentage

LEMMA NextNoIcon ==
    ASSUME NoIconInv, Presented, [Next]_powerVars
    PROVE  NoIconInv'
<1>1. CASE Reset
  <2>1. window' = set_battery_unavailable /\ main' = "update_read"
    BY <1>1 DEF Reset
  <2> QED
    BY <2>1, UnavailableHasNoIcon DEF NoIconInv, NoIcon, NoBatteryNoIcon
<1>2. CASE RefreshFails
  <2>1. window' = Painted(Unavailable) /\ main' = "select"
    BY <1>2, RefreshedPresents DEF RefreshFails, Refreshed
  <2> QED
    BY <2>1, UnavailableHasNoIcon DEF NoIconInv, NoIcon, NoBatteryNoIcon, Booting
<1>3. ASSUME NEW bus_good \in BusReadings, BusVoltageRead(bus_good), ~battery_present_at_boot
      PROVE  NoIconInv'
  <2>1. window' = Painted(Available(StatusWithoutBattery(bus_good))) /\ main' = "select"
    BY <1>3, RefreshedPresents DEF BusVoltageRead, Refreshed
  <2> QED
    BY <2>1, WithoutBatteryHasNoIcon DEF NoIconInv, NoIcon, NoBatteryNoIcon, Booting
<1>4. ASSUME NEW code \in VoltageCodes, BatteryVoltageRead(code)
      PROVE  NoIconInv'
  <2>1. battery_present_at_boot' /\ main' = "select"
    BY <1>4 DEF BatteryVoltageRead, Refreshed, NoIconInv, bootVars
  <2> QED
    BY <2>1 DEF NoIconInv, NoBatteryNoIcon, Booting
<1>5. CASE UNCHANGED presentedVars
  <2>2. UNCHANGED window
    BY <1>5 DEF presentedVars
  <2>3. CASE Boot \/ BootFails
    <3>1. Booting /\ main' # "voltage"
      BY <2>3 DEF Boot, UpdateRead, UpdateWritten, BatteryMeasured, BringUp, BootFails, Booting
    <3> QED
      BY <2>2, <3>1 DEF NoIconInv, NoIcon, NoBatteryNoIcon
  <2>4. CASE ~(Boot \/ BootFails) /\ ~Reset
    <3>1. UNCHANGED battery_present_at_boot /\ (Booting' => Booting)
          /\ (main' = "voltage" => main = "voltage" \/ battery_present_at_boot)
      BY <2>4 DEF Next, Refresh, RefreshFails, RefreshStarts, SystemStatusRead, BusVoltageRead,
           BatteryVoltageRead, Refreshed, WatchdogExpires, powerVars, bootVars, Booting
    <3> QED
      BY <2>2, <3>1 DEF NoIconInv, NoIcon, NoBatteryNoIcon
  <2> QED
    BY <1>1, <2>3, <2>4
<1> QED
  BY <1>1, <1>2, <1>3, <1>4, <1>5, PresentingSteps DEF EndsRefresh

\* Without a battery at boot no later reading makes the icon appear.
LEMMA NoBatteryShowsNoIcon == PowerSpec => []NoBatteryNoIcon
<1>1. Init => NoIconInv
  BY UnavailableHasNoIcon DEF Init, NoIconInv, NoIcon, NoBatteryNoIcon
<1>2. NoIconInv => NoBatteryNoIcon
  BY DEF NoIconInv
<1> QED
  BY <1>1, <1>2, NextNoIcon, PresentedHolds, PTL DEF PowerSpec

-----------------------------------------------------------------------------
(***************************************************************************)
(* Charging and full.                                                      *)
(***************************************************************************)
LEMMA StatusWithBatteryFacts ==
    ASSUME NEW usb, NEW s \in ChargeStatus, NEW millivolts \in Nat
    PROVE  LET facts == StatusWithBattery(usb, s, millivolts)
           IN  /\ ~(facts.charging /\ facts.charge_complete)
               /\ ~facts.charging /\ facts.percentage = 100 => facts.charge_complete
               /\ facts.charge_complete => facts.percentage = 100 \/ s = "Done"
               /\ facts.percentage \in {0, 20, 40, 60, 80, 100}
<1> DEFINE percentage == battery_percentage_from_voltage(millivolts)
<1>1. /\ percentage \in {0, 20, 40, 60, 80, 100}
      /\ percentage = 100 <=> millivolts > FullBatteryThreshold
  BY PercentageBands
<1>2. is_charging(s) => s # "Done"
  BY DEF is_charging
<1> HIDE DEF percentage
<1> QED
  BY <1>1, <1>2 DEF StatusWithBattery, percentage

\* The same of the window.
FactsShown ==
    /\ ~(window.battery_charging /\ window.charge_complete)
    /\ main = "select" =>
          \/ ~window.battery_present
          \/ /\ ~window.battery_charging /\ window.battery_percentage = 100
                => window.charge_complete
             /\ window.charge_complete =>
                   window.battery_percentage = 100 \/ charge_status = "Done"
             /\ window.battery_percentage \in {0, 20, 40, 60, 80, 100}

LEMMA PaintedFacts ==
    ASSUME NEW facts, facts.percentage \in {0, 20, 40, 60, 80, 100}
    PROVE  LET properties == Painted(Available(facts))
           IN  /\ properties.battery_charging = facts.charging
               /\ properties.charge_complete = facts.charge_complete
               /\ properties.battery_percentage = facts.percentage
BY DEF Painted, Available, set_battery_state, NoPercentage

LEMMA NextFacts ==
    ASSUME Types, FactsShown, Presented, [Next]_powerVars
    PROVE  FactsShown'
<1>1. CASE Reset
  <2>1. window' = set_battery_unavailable
    BY <1>1 DEF Reset
  <2> QED
    BY <2>1, UnavailableHasNoIcon DEF FactsShown
<1>2. CASE RefreshFails
  <2>1. window' = Painted(Unavailable)
    BY <1>2, RefreshedPresents DEF RefreshFails
  <2> QED
    BY <2>1, UnavailableHasNoIcon DEF FactsShown
<1>3. ASSUME NEW bus_good \in BusReadings, BusVoltageRead(bus_good), ~battery_present_at_boot
      PROVE  FactsShown'
  <2>1. window' = Painted(Available(StatusWithoutBattery(bus_good)))
    BY <1>3, RefreshedPresents DEF BusVoltageRead
  <2> QED
    BY <2>1, WithoutBatteryHasNoIcon DEF FactsShown
<1>4. ASSUME NEW code \in VoltageCodes, BatteryVoltageRead(code)
      PROVE  FactsShown'
  <2> DEFINE facts == StatusWithBattery(usb_present, charge_status, battery_voltage(code))
  <2>1. window' = Painted(Available(facts)) /\ charge_status' = charge_status
    BY <1>4, RefreshedPresents DEF BatteryVoltageRead, statusVars
  <2>2. charge_status \in ChargeStatus /\ battery_voltage(code) \in Nat
    BY VoltageIsNatural DEF Types, BootTypeOK
  <2>3. /\ ~(facts.charging /\ facts.charge_complete)
        /\ ~facts.charging /\ facts.percentage = 100 => facts.charge_complete
        /\ facts.charge_complete => facts.percentage = 100 \/ charge_status = "Done"
        /\ facts.percentage \in {0, 20, 40, 60, 80, 100}
    BY <2>2, StatusWithBatteryFacts
  <2> HIDE DEF facts
  <2> QED
    BY <2>1, <2>3, PaintedFacts DEF FactsShown
<1>5. CASE UNCHANGED presentedVars
  <2>1. UNCHANGED window
    BY <1>5 DEF presentedVars
  <2>2. CASE main' = "select"
    <3>1. CASE ~Reset /\ ~EndsRefresh
      <4>1. main = "select" /\ UNCHANGED charge_status
        BY <2>2, <3>1 DEF Next, Boot, Refresh, UpdateRead, UpdateWritten, BatteryMeasured,
             BringUp, BootFails, RefreshStarts, SystemStatusRead, BusVoltageRead, EndsRefresh,
             WatchdogExpires, powerVars, statusVars, Booting
      <4> QED
        BY <2>1, <4>1 DEF FactsShown
    <3> QED
      BY <1>1, <1>2, <1>3, <1>4, <3>1 DEF EndsRefresh
  <2>3. CASE main' # "select"
    BY <2>1, <2>3 DEF FactsShown
  <2> QED
    BY <2>2, <2>3
<1> QED
  BY <1>1, <1>2, <1>3, <1>4, <1>5, PresentingSteps DEF EndsRefresh

LEMMA FactsHold == PowerSpec => []FactsShown
<1>1. Init => FactsShown
  BY UnavailableHasNoIcon DEF Init, FactsShown
<1> QED
  BY <1>1, NextFacts, PresentedHolds, TypesHold, PTL DEF PowerSpec

\* What the inductive invariants say of charging, window and icon.
LEMMA InvariantsImply ==
    /\ Types => PowerTypeOK
    /\ BootInv => ChargingFollowsBoot
    /\ Presented => IndicatorShowsLastRead
    /\ NoBatteryNoIcon /\ FactsShown => IconIsConsistent
<1>1. FactsShown => ChargingOrComplete
  BY DEF FactsShown, ChargingOrComplete, active_charge, complete_charge
<1>2. FactsShown => FullMeansFull
  BY DEF FactsShown, FullMeansFull, external_power, active_charge, complete_charge, FullBar
<1>3. NoBatteryNoIcon /\ FactsShown => IconIsConsistent
  BY <1>1, <1>2 DEF IconIsConsistent
<1>4. Types => PowerTypeOK
  BY TypeParts DEF Types
<1>5. BootInv => ChargingFollowsBoot
  BY DEF BootInv, BatteryDecision, Booting, ChargingFollowsBoot
<1>6. Presented => IndicatorShowsLastRead
  BY DEF Presented, IndicatorShowsLastRead
<1> QED
  BY <1>3, <1>4, <1>5, <1>6

\* The icon never contradicts itself, whatever the charger and the battery
\* report: no icon without a battery, no animated completed charge, and the
\* thresholds of "full" agree.
THEOREM IconAgrees == PowerSpec => []IconIsConsistent
BY InvariantsImply, NoBatteryShowsNoIcon, FactsHold, PTL
-----------------------------------------------------------------------------
(***************************************************************************)
(* The end of initialize_pmu, where a model of the running board begins.   *)
(***************************************************************************)
BootEnded ==
    /\ BootTypeOK
    /\ update = IF battery_present_at_boot THEN EnableUpdate ELSE LastInitUpdate
    /\ charging_enabled <=> battery_present_at_boot
    /\ "EN_HIZ" \notin reg.REG_INPUT_SOURCE_CONTROL
    /\ "CONV_RATE" \in reg.REG_ADC_CONTROL
    /\ ~watchdog_running
    /\ main = "bring_up"
    /\ last_power_state = NotPresented
    /\ window = set_battery_unavailable
    /\ last_read = NotPresented

LEMMA InvariantsAfterBoot ==
    ASSUME BootEnded
    PROVE  Types /\ BootInv /\ Presented /\ NoIconInv /\ FactsShown
<1>1. PresentedTypeOK
  BY WindowStarts DEF BootEnded, PresentedTypeOK, PresentedStates
<1>2. Types
  BY <1>1 DEF BootEnded, Types, ReadIsCurrent
<1>3. PassedUpdates
  BY DEF BootEnded, PassedUpdates, LastInitUpdate, EnableUpdate
<1>4. ChargingOff
  BY DEF BootEnded, ChargingOff, LastInitUpdate, EnableUpdate
<1>5. BatteryDecision
  BY DEF BootEnded, BatteryDecision, LastInitUpdate, EnableUpdate
<1>6. Presented
  BY DEF BootEnded, Presented, Painted, NotPresented
<1>7. NoIconInv
  BY UnavailableHasNoIcon DEF BootEnded, NoIconInv, NoIcon, NoBatteryNoIcon
<1>8. FactsShown
  BY UnavailableHasNoIcon DEF BootEnded, FactsShown
<1> QED
  BY <1>2, <1>3, <1>4, <1>5, <1>6, <1>7, <1>8 DEF BootInv
=============================================================================
