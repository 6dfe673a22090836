------------------------------- MODULE Power -------------------------------
(***************************************************************************)
(* Power management: the SY6970 driver (drivers/src/sy6970), the decision  *)
(* at boot whether there is a battery and the status snapshots             *)
(* (app/src/hardware/pmu.rs), the controller's refresh of the indicator    *)
(* (app/src/controller.rs) and the window's battery properties             *)
(* (wallet_ui.rs, app-window.slint).                                       *)
(*                                                                         *)
(* Each transaction on the I2C bus is an await and may fail, so each is a  *)
(* step of its own; a failed write may or may not have reached the chip.   *)
(* The chip keeps its registers over a restart of the firmware, and its    *)
(* watchdog may change them.                                               *)
(***************************************************************************)
EXTENDS Integers, Sequences

CONSTANTS
    VoltageCodes,              \* readings of the battery ADC, 0 .. 127
    ChargeReadings,            \* readings of CHRG_STAT
    BusReadings                \* readings of BUS_GD

ChargeStatus == {"NotCharging", "PreCharge", "FastCharge", "Done"}

ASSUME PowerAssumption ==
    /\ VoltageCodes \subseteq 0 .. 127
    /\ ChargeReadings \subseteq ChargeStatus
    /\ BusReadings \subseteq BOOLEAN

VARIABLES
    reg,                       \* the bits that are set in each register
    main,                      \* place in main, initialize_pmu and Controller::run
    update,                    \* number of the boot's current update_bits
    halted,                    \* an expect failed
    value,                     \* the register read by update_bits
    battery_present_at_boot,
    charge_status, usb_present, \* read so far by get_power_status
    last_power_state,          \* None is NotPresented
    window,                    \* the window's battery properties
    last_read                  \* what the last refresh read, not part of the program

bootVars == <<update, halted, value, battery_present_at_boot>>
statusVars == <<charge_status, usb_present>>
presentedVars == <<last_power_state, window, last_read>>
powerVars == <<reg, main, bootVars, statusVars, presentedVars>>

-----------------------------------------------------------------------------
(***************************************************************************)
(* Registers.  Each has the bits the driver names and the rest of its      *)
(* configuration, which is one bit here.                                   *)
(***************************************************************************)
RegisterValues ==
    [REG_INPUT_SOURCE_CONTROL : SUBSET {"EN_HIZ", "OTHER"},
     REG_ADC_CONTROL : SUBSET {"CONV_START", "CONV_RATE", "OTHER"},
     REG_POWER_ON_CONFIG : SUBSET {"CHARGE_ENABLE", "OTHER"},
     REG_CHARGE_TIMER_CONTROL : SUBSET {"WATCHDOG_TIMER", "OTHER"}]

Registers == {"REG_INPUT_SOURCE_CONTROL", "REG_ADC_CONTROL", "REG_POWER_ON_CONFIG",
              "REG_CHARGE_TIMER_CONTROL"}
Bits == {"EN_HIZ", "CONV_START", "CONV_RATE", "CHARGE_ENABLE", "WATCHDOG_TIMER", "OTHER"}

charging_enabled == "CHARGE_ENABLE" \in reg.REG_POWER_ON_CONFIG
watchdog_running == "WATCHDOG_TIMER" \in reg.REG_CHARGE_TIMER_CONTROL

update_bits(register, clear, set) == [register |-> register, clear |-> clear, set |-> set]

set_charge_enabled(enabled) ==
    IF enabled
    THEN update_bits("REG_POWER_ON_CONFIG", {}, {"CHARGE_ENABLE"})
    ELSE update_bits("REG_POWER_ON_CONFIG", {"CHARGE_ENABLE"}, {})

\* Fault: the watchdog is left running.
boot_updates_keeping_watchdog ==
    <<set_charge_enabled(FALSE),
      update_bits("REG_INPUT_SOURCE_CONTROL", {"EN_HIZ"}, {}),
      update_bits("REG_ADC_CONTROL", {}, {"CONV_START", "CONV_RATE"}),
      update_bits("REG_CHARGE_TIMER_CONTROL", {}, {}),
      set_charge_enabled(TRUE)>>

\* Fault: charging is disabled last.
boot_updates_init_first ==
    <<update_bits("REG_INPUT_SOURCE_CONTROL", {"EN_HIZ"}, {}),
      update_bits("REG_ADC_CONTROL", {}, {"CONV_START", "CONV_RATE"}),
      update_bits("REG_CHARGE_TIMER_CONTROL", {"WATCHDOG_TIMER"}, {}),
      set_charge_enabled(FALSE),
      set_charge_enabled(TRUE)>>

\* initialize_pmu disables charging, initialises the chip, and enables charging
\* for a battery measured in between
boot_updates ==
    <<set_charge_enabled(FALSE),
      update_bits("REG_INPUT_SOURCE_CONTROL", {"EN_HIZ"}, {}),
      update_bits("REG_ADC_CONTROL", {}, {"CONV_START", "CONV_RATE"}),
      update_bits("REG_CHARGE_TIMER_CONTROL", {"WATCHDOG_TIMER"}, {}),
      set_charge_enabled(TRUE)>>

LastInitUpdate == 4
EnableUpdate == 5

CurrentRegister == boot_updates[update].register
Updated == (value \ boot_updates[update].clear) \cup boot_updates[update].set

-----------------------------------------------------------------------------
(***************************************************************************)
(* Readings.  A percentage that is None is NoPercentage.                   *)
(***************************************************************************)
BatteryPresentThreshold == 3000
FullBatteryThreshold == 4000

battery_voltage(code) == IF code = 0 THEN 0 ELSE 2304 + 20 * code

battery_percentage_from_voltage(millivolts) ==
    CASE millivolts <= 3200 -> 0
      [] millivolts > 3200 /\ millivolts <= 3400 -> 20
      [] millivolts > 3400 /\ millivolts <= 3600 -> 40
      [] millivolts > 3600 /\ millivolts <= 3800 -> 60
      [] millivolts > 3800 /\ millivolts <= 4000 -> 80
      [] OTHER -> 100

NoPercentage == -1
Percentages == {NoPercentage, 0, 20, 40, 60, 80, 100}

is_charging(s) == s \in {"PreCharge", "FastCharge"}

PowerStatus ==
    [usb_present : BOOLEAN, charging : BOOLEAN, charge_complete : BOOLEAN,
     percentage : Percentages]

\* PresentedPowerState; get_power_status never makes one without facts equal to these
NoFacts == [usb_present |-> FALSE, charging |-> FALSE, charge_complete |-> FALSE,
            percentage |-> NoPercentage]
Available(facts) == [kind |-> "Available", facts |-> facts]
Unavailable == [kind |-> "Unavailable", facts |-> NoFacts]
NotPresented == [kind |-> "None", facts |-> NoFacts]

\* Fault: a voltage above the threshold is full even while the battery charges.
StatusWithBattery_full_by_voltage(usb, s, millivolts) ==
    [usb_present |-> usb,
     charging |-> is_charging(s),
     charge_complete |-> s = "Done" \/ millivolts > FullBatteryThreshold,
     percentage |-> battery_percentage_from_voltage(millivolts)]

\* get_power_status with the battery's voltage; without a battery it is not read
StatusWithBattery(usb, s, millivolts) ==
    [usb_present |-> usb,
     charging |-> is_charging(s),
     charge_complete |->
        s = "Done" \/ (~is_charging(s) /\ millivolts > FullBatteryThreshold),
     percentage |-> battery_percentage_from_voltage(millivolts)]

StatusWithoutBattery(usb) == [NoFacts EXCEPT !.usb_present = usb]

-----------------------------------------------------------------------------
(***************************************************************************)
(* The window's battery properties, and what the icon draws from them.     *)
(***************************************************************************)
\* Fault: no percentage is painted as a number.
set_battery_state_of_no_percentage(facts) ==
    [usb_present |-> facts.usb_present,
     battery_present |-> facts.percentage # NoPercentage,
     battery_percentage |-> facts.percentage,
     battery_charging |-> facts.charging,
     charge_complete |-> facts.charge_complete]

set_battery_state(facts) ==
    [usb_present |-> facts.usb_present,
     battery_present |-> facts.percentage # NoPercentage,
     battery_percentage |-> IF facts.percentage = NoPercentage THEN 0 ELSE facts.percentage,
     battery_charging |-> facts.charging,
     charge_complete |-> facts.charge_complete]

set_battery_unavailable ==
    [usb_present |-> FALSE, battery_present |-> FALSE, battery_percentage |-> 0,
     battery_charging |-> FALSE, charge_complete |-> FALSE]

Painted(state) ==
    IF state.kind = "Available" THEN set_battery_state(state.facts) ELSE set_battery_unavailable

external_power == window.battery_present /\ window.usb_present
active_charge == external_power /\ window.battery_charging
complete_charge == external_power /\ window.charge_complete

\* the bar fills the battery
FullBar == complete_charge \/ (~active_charge /\ window.battery_percentage > 80)

-----------------------------------------------------------------------------
(***************************************************************************)
(* The start of main.  What the firmware keeps is lost in a restart; the   *)
(* chip's registers are not.                                               *)
(***************************************************************************)
Init ==
    /\ reg \in RegisterValues
    /\ main = "update_read"
    /\ update = 1
    /\ halted = FALSE
    /\ value = {}
    /\ battery_present_at_boot = FALSE
    /\ charge_status = "NotCharging"
    /\ usb_present = FALSE
    /\ last_power_state = NotPresented
    /\ window = set_battery_unavailable
    /\ last_read = NotPresented

Reset ==
    /\ main' = "update_read"
    /\ update' = 1
    /\ halted' = FALSE
    /\ value' = {}
    /\ battery_present_at_boot' = FALSE
    /\ charge_status' = "NotCharging"
    /\ usb_present' = FALSE
    /\ last_power_state' = NotPresented
    /\ window' = set_battery_unavailable
    /\ last_read' = NotPresented
    /\ UNCHANGED reg

-----------------------------------------------------------------------------
(***************************************************************************)
(* initialize_pmu, then the rest of main up to Controller::run.  Each step *)
(* that fails ends in an expect.                                           *)
(***************************************************************************)
Booting == main \in {"update_read", "update_write", "battery_voltage", "bring_up"}

UpdateRead ==
    /\ main = "update_read" /\ ~halted
    /\ value' = reg[CurrentRegister]
    /\ main' = "update_write"
    /\ UNCHANGED <<reg, update, halted, battery_present_at_boot, statusVars, presentedVars>>

UpdateWritten ==
    /\ main = "update_write" /\ ~halted
    /\ reg' = [reg EXCEPT ![CurrentRegister] = Updated]
    /\ IF update < LastInitUpdate
       THEN main' = "update_read" /\ update' = update + 1
       ELSE /\ main' = IF update = LastInitUpdate THEN "battery_voltage" ELSE "bring_up"
            /\ UNCHANGED update
    /\ UNCHANGED <<halted, value, battery_present_at_boot, statusVars, presentedVars>>

\* Fault: charging is enabled before the measurement is looked at.
BatteryMeasured_ignoring_threshold(code) ==
    /\ main = "battery_voltage" /\ ~halted
    /\ battery_present_at_boot' = (battery_voltage(code) >= BatteryPresentThreshold)
    /\ main' = "update_read" /\ update' = EnableUpdate
    /\ UNCHANGED <<reg, halted, value, statusVars, presentedVars>>

\* after the time the ADC needs to settle
BatteryMeasured(code) ==
    /\ main = "battery_voltage" /\ ~halted
    /\ battery_present_at_boot' = (battery_voltage(code) >= BatteryPresentThreshold)
    /\ IF battery_present_at_boot'
       THEN main' = "update_read" /\ update' = EnableUpdate
       ELSE main' = "bring_up" /\ UNCHANGED update
    /\ UNCHANGED <<reg, halted, value, statusVars, presentedVars>>

BringUp ==
    /\ main = "bring_up" /\ ~halted
    /\ main' = "system"
    /\ UNCHANGED <<reg, bootVars, statusVars, presentedVars>>

BootFails ==
    /\ Booting /\ ~halted
    /\ halted' = TRUE
    /\ \/ UNCHANGED reg
       \/ main = "update_write" /\ reg' = [reg EXCEPT ![CurrentRegister] = Updated]
    /\ UNCHANGED <<main, update, value, battery_present_at_boot, statusVars, presentedVars>>

-----------------------------------------------------------------------------
(***************************************************************************)
(* refresh_device_status: get_power_status, then the window if what it     *)
(* would show has changed.  The first refresh follows main at once, every  *)
(* other one a tick.                                                       *)
(***************************************************************************)
\* Fault: a failed refresh is painted but not remembered.
Refreshed_forgetting_failure(state) ==
    /\ window' = IF last_power_state # state THEN Painted(state) ELSE window
    /\ last_power_state' = IF state = Unavailable THEN last_power_state ELSE state
    /\ last_read' = state
    /\ main' = "select"
    /\ UNCHANGED <<reg, bootVars>>

Refreshed(state) ==
    /\ window' = IF last_power_state # state THEN Painted(state) ELSE window
    /\ last_power_state' = state
    /\ last_read' = state
    /\ main' = "select"
    /\ UNCHANGED <<reg, bootVars>>

RefreshStarts ==
    /\ main = "select"
    /\ main' = "system"
    /\ UNCHANGED <<reg, bootVars, statusVars, presentedVars>>

SystemStatusRead ==
    /\ main = "system"
    /\ charge_status' \in ChargeReadings
    /\ main' = "bus"
    /\ UNCHANGED <<reg, bootVars, usb_present, presentedVars>>

BusVoltageRead(bus_good) ==
    /\ main = "bus"
    /\ usb_present' = bus_good
    /\ UNCHANGED charge_status
    /\ IF battery_present_at_boot
       THEN main' = "voltage" /\ UNCHANGED <<reg, bootVars, presentedVars>>
       ELSE Refreshed(Available(StatusWithoutBattery(bus_good)))

BatteryVoltageRead(code) ==
    /\ main = "voltage"
    /\ Refreshed(Available(StatusWithBattery(usb_present, charge_status, battery_voltage(code))))
    /\ UNCHANGED statusVars

RefreshFails ==
    /\ main \in {"system", "bus", "voltage"}
    /\ Refreshed(Unavailable)
    /\ UNCHANGED statusVars

-----------------------------------------------------------------------------
(***************************************************************************)
(* A watchdog that runs while main is not busy with the boot expires and   *)
(* undoes "charging disabled"; a boot is shorter than its period.          *)
(***************************************************************************)
WatchdogExpires ==
    /\ watchdog_running
    /\ halted \/ ~Booting
    /\ reg' = [reg EXCEPT !.REG_POWER_ON_CONFIG = @ \cup {"CHARGE_ENABLE"}]
    /\ UNCHANGED <<main, bootVars, statusVars, presentedVars>>

Boot == UpdateRead \/ UpdateWritten \/ BringUp \/ \E code \in VoltageCodes : BatteryMeasured(code)

Refresh ==
    \/ RefreshStarts \/ SystemStatusRead
    \/ \E bus_good \in BusReadings : BusVoltageRead(bus_good)
    \/ \E code \in VoltageCodes : BatteryVoltageRead(code)

Next == Boot \/ BootFails \/ Refresh \/ RefreshFails \/ WatchdogExpires \/ Reset

PowerSpec == Init /\ [][Next]_powerVars

-----------------------------------------------------------------------------
(***************************************************************************)
(* Properties.                                                             *)
(***************************************************************************)
WindowProperties ==
    [usb_present : BOOLEAN, battery_present : BOOLEAN, battery_percentage : 0 .. 100,
     battery_charging : BOOLEAN, charge_complete : BOOLEAN]

PresentedStates ==
    [kind : {"Available"}, facts : PowerStatus] \cup {Unavailable, NotPresented}

\* The type invariant.
PowerTypeOK ==
    /\ reg \in RegisterValues
    /\ main \in {"update_read", "update_write", "battery_voltage", "bring_up",
                 "system", "bus", "voltage", "select"}
    /\ update \in 1 .. EnableUpdate
    /\ halted \in BOOLEAN
    /\ value \in SUBSET Bits
    /\ battery_present_at_boot \in BOOLEAN
    /\ charge_status \in ChargeStatus
    /\ usb_present \in BOOLEAN
    /\ last_power_state \in PresentedStates
    /\ window \in WindowProperties
    /\ last_read \in PresentedStates

\* The battery is measured with charging off, out of HIZ mode, with the ADC
\* converting and nothing left that could turn charging on again: the reading
\* is of the battery alone.
MeasuredWithChargingOff == (main = "battery_voltage" /\ ~halted) =>
    /\ ~charging_enabled
    /\ "EN_HIZ" \notin reg.REG_INPUT_SOURCE_CONTROL
    /\ "CONV_RATE" \in reg.REG_ADC_CONTROL
    /\ ~watchdog_running

\* Charging is off from the first update to the battery's; a boot that stops
\* in between leaves it off, unless it left the watchdog running as well.
ProtectionHolds ==
    (Booting /\ update \in 2 .. LastInitUpdate /\ charging_enabled) =>
        halted /\ watchdog_running

\* Once the controller runs, charging is on exactly if the boot found a
\* battery, however long it runs and whatever an earlier boot left behind.
ChargingFollowsBoot == ~Booting => (charging_enabled <=> battery_present_at_boot)

\* No boot, complete or not, changes a bit that it does not mean to change.
OtherSettingsKept ==
    [][\A r \in Registers : ("OTHER" \in reg[r]) <=> ("OTHER" \in reg'[r])]_powerVars

\* Between two refreshes the window shows what the last one read: all of it,
\* or nothing if any of its reads failed, also after failures and recoveries.
IndicatorShowsLastRead == main = "select" => window = Painted(last_read)

\* Without a battery at boot no later reading makes the icon appear.
NoBatteryNoIcon == ~battery_present_at_boot =>
    ~window.battery_present /\ ~window.battery_charging /\ ~window.charge_complete

\* The icon never animates a charge and shows a completed one.
ChargingOrComplete == ~(active_charge /\ complete_charge)

\* The thresholds of "full" agree: a battery that is not charging shows a full
\* bar exactly if its voltage is in the top band or the charger is done.
FullMeansFull == (main = "select" /\ external_power /\ ~window.battery_charging) =>
    /\ window.battery_percentage = 100 => complete_charge
    /\ FullBar => window.battery_percentage = 100 \/ charge_status = "Done"

\* Percentage, charge and completion come from three reads and two thresholds,
\* and the icon combines them again: it never contradicts itself, and shows
\* nothing without a battery.
IconIsConsistent == NoBatteryNoIcon /\ ChargingOrComplete /\ FullMeansFull
=============================================================================
