------------------------------- MODULE Board -------------------------------
(***************************************************************************)
(* The two tasks of the running board: the render task (Touch) and main,   *)
(* which becomes the controller (Power), share the I2C bus behind a mutex  *)
(* and meet in the channel of random-word requests (app/src/main.rs,       *)
(* render_task.rs, controller.rs).  It begins when initialize_pmu has      *)
(* returned; Power has what comes before.                                  *)
(*                                                                         *)
(* The executor is cooperative.  A task that ends one transaction and      *)
(* begins the next does not yield in between, so it takes the mutex again  *)
(* before a task that waits for it can run.  And a timer fires only when   *)
(* no task can run: 20 ms and 2 s are longer than the rest of a turn.      *)
(***************************************************************************)
EXTENDS Integers

CONSTANTS
    DisplayWidth, DisplayHeight, RawPoints, MaxFaults,     \* of Touch
    VoltageCodes, ChargeReadings, BusReadings,             \* of Power
    RequestCapacity                                        \* slots of RANDOM_WORD_REQUEST, 2

ASSUME BoardAssumption == RequestCapacity \in Nat \ {0}

\* What Touch and Power assume of their constants.
ASSUME PartsAssumption ==
    /\ DisplayWidth \in Nat \ {0}
    /\ DisplayHeight \in Nat \ {0}
    /\ RawPoints # {}
    /\ RawPoints \subseteq [x : Nat, y : Nat]
    /\ MaxFaults \in Nat
    /\ VoltageCodes \subseteq 0 .. 127
    /\ ChargeReadings \subseteq {"NotCharging", "PreCharge", "FastCharge", "Done"}
    /\ BusReadings \subseteq BOOLEAN

VARIABLES
    mode, report, finger, render, read_result, held, touchpad,
    press_position, event, presses, faults,
    reg, main, update, halted, value, battery_present_at_boot,
    charge_status, usb_present, last_power_state, window, last_read,
    bus,                   \* who holds the mutex: "free", "render" or "main"
    requests,              \* messages in RANDOM_WORD_REQUEST
    due                    \* power_status_ticker has expired

Touch == INSTANCE Touch
Power == INSTANCE Power

touchVars ==
    <<mode, report, finger, render, read_result, held, touchpad, press_position, event,
      presses, faults>>
powerVars ==
    <<reg, main, update, halted, value, battery_present_at_boot, charge_status, usb_present,
      last_power_state, window, last_read>>
boardVars == <<touchVars, powerVars, bus, requests, due>>

Init ==
    /\ Touch!Init
    /\ battery_present_at_boot \in BOOLEAN
    /\ update = IF battery_present_at_boot
                THEN Power!EnableUpdate ELSE Power!LastInitUpdate
    /\ reg = [REG_INPUT_SOURCE_CONTROL |-> {},
              REG_ADC_CONTROL |-> {"CONV_START", "CONV_RATE"},
              REG_POWER_ON_CONFIG |-> IF battery_present_at_boot
                                      THEN {"CHARGE_ENABLE"} ELSE {},
              REG_CHARGE_TIMER_CONTROL |-> {}]
    /\ main = "bring_up"
    /\ halted = FALSE
    /\ value = {}
    /\ charge_status = "NotCharging"
    /\ usb_present = FALSE
    /\ last_power_state = Power!NotPresented
    /\ window = Power!set_battery_unavailable
    /\ last_read = Power!NotPresented
    /\ bus = "free"
    /\ requests = 0
    /\ due = FALSE

-----------------------------------------------------------------------------
(***************************************************************************)
(* main starts the touchpad, spawns the render task and runs the           *)
(* controller; until then nobody contends for the bus.                     *)
(***************************************************************************)
StartTouchpad ==
    /\ main = "bring_up"
    /\ Touch!Begin
    /\ UNCHANGED <<powerVars, bus, requests, due>>

StartTasks ==
    /\ render \in {"idle", "sleep"}
    /\ Power!BringUp
    /\ UNCHANGED <<touchVars, bus, requests, due>>

-----------------------------------------------------------------------------
RenderUsesBus == render \in {"read", "ack"}
MainUsesBus == main \in {"system", "bus", "voltage"}

CanLock == bus = "free" /\ (RenderUsesBus \/ MainUsesBus)
ControllerWoken == main = "select" /\ (requests > 0 \/ due)
TimersMayFire == main # "bring_up" /\ ~CanLock /\ ~ControllerWoken

RenderLocks ==
    /\ bus = "free" /\ RenderUsesBus
    /\ bus' = "render"
    /\ UNCHANGED <<touchVars, powerVars, requests, due>>

MainLocks ==
    /\ bus = "free" /\ MainUsesBus
    /\ bus' = "main"
    /\ UNCHANGED <<touchVars, powerVars, requests, due>>

Unlocks(user, uses_bus_again) == bus' = IF uses_bus_again THEN user ELSE "free"

\* try_send, which drops a message that finds the channel full
request_random_words == requests' = IF requests < RequestCapacity THEN requests + 1 ELSE requests

\* Fault: the render task goes on to its next read without letting go of the bus.
RenderTransfers_in_a_row ==
    /\ bus = "render"
    /\ Touch!ReadReport \/ Touch!AcknowledgeReport \/ Touch!TouchFails
    /\ Unlocks("render", TRUE)
    /\ \/ UNCHANGED requests
       \/ event' # event /\ event'.kind = "PointerReleased" /\ request_random_words
    /\ UNCHANGED <<powerVars, due>>

\* A release may be a click on Random 11, whose callback sends a request.
RenderTransfers ==
    /\ bus = "render"
    /\ Touch!ReadReport \/ Touch!AcknowledgeReport \/ Touch!TouchFails
    /\ Unlocks("render", RenderUsesBus')
    /\ \/ UNCHANGED requests
       \/ event' # event /\ event'.kind = "PointerReleased" /\ request_random_words
    /\ UNCHANGED <<powerVars, due>>

MainTransfers ==
    /\ bus = "main"
    /\ \/ Power!SystemStatusRead
       \/ \E bus_good \in BusReadings : Power!BusVoltageRead(bus_good)
       \/ \E code \in VoltageCodes : Power!BatteryVoltageRead(code)
       \/ Power!RefreshFails
    /\ Unlocks("main", MainUsesBus')
    /\ UNCHANGED <<touchVars, requests, due>>

RenderWakes ==
    /\ TimersMayFire
    /\ Touch!Wake
    /\ UNCHANGED <<powerVars, bus, requests, due>>

\* A refresh takes less than the ticker's two seconds.
Tick ==
    /\ TimersMayFire
    /\ main = "select"
    /\ due' = TRUE
    /\ UNCHANGED <<touchVars, powerVars, bus, requests>>

\* Fault: the controller refreshes without waiting for the ticker.
Turn_without_ticker ==
    /\ main = "select"
    /\ requests' = 0
    /\ due' = FALSE
    /\ Power!RefreshStarts
    /\ UNCHANGED <<touchVars, bus>>

\* Fault: the refresh is an arm of the select, so that a request cancels it.
Turn_cancelling_refresh ==
    /\ ControllerWoken \/ (requests > 0 /\ MainUsesBus)
    /\ requests' = 0
    /\ due' = FALSE
    /\ main' = IF due THEN "system" ELSE "select"
    /\ bus' = IF bus = "main" THEN "free" ELSE bus
    /\ UNCHANGED <<touchVars, reg, update, halted, value, battery_present_at_boot,
                   charge_status, usb_present, last_power_state, window, last_read>>

\* One poll of the controller's loop: select prefers a request to the ticker,
\* and the loop goes round until neither is ready.
Turn ==
    /\ ControllerWoken
    /\ requests' = 0
    /\ due' = FALSE
    /\ IF due THEN Power!RefreshStarts ELSE UNCHANGED powerVars
    /\ UNCHANGED <<touchVars, bus>>

Outside ==
    /\ Touch!Finger \/ Touch!Chip
    /\ UNCHANGED <<powerVars, bus, requests, due>>

Next ==
    \/ StartTouchpad \/ StartTasks
    \/ RenderWakes \/ RenderLocks \/ RenderTransfers
    \/ Tick \/ Turn \/ MainLocks \/ MainTransfers
    \/ Outside

(***************************************************************************)
(* The executor polls every task that can run, a transaction ends, and     *)
(* time passes: a timer that may fire again and again does.                *)
(***************************************************************************)
Fairness ==
    /\ WF_boardVars(StartTouchpad) /\ WF_boardVars(StartTasks)
    /\ WF_boardVars(RenderLocks) /\ WF_boardVars(RenderTransfers)
    /\ WF_boardVars(MainLocks) /\ WF_boardVars(MainTransfers)
    /\ WF_boardVars(Turn)
    /\ SF_boardVars(RenderWakes) /\ SF_boardVars(Tick)
    /\ WF_boardVars(Touch!PublishFinger /\ UNCHANGED <<powerVars, bus, requests, due>>)

BoardSpec == Init /\ [][Next]_boardVars /\ Fairness

-----------------------------------------------------------------------------
(***************************************************************************)
(* Properties.                                                             *)
(***************************************************************************)
\* The mutex is held by a task in the middle of a transaction: no task sleeps,
\* waits for the ticker or ends a failed refresh with the bus.
HolderTransfers ==
    /\ bus \in {"free", "render", "main"}
    /\ bus = "render" => RenderUsesBus
    /\ bus = "main" => MainUsesBus

\* The render task on a shared bus is the one Touch describes, including that
\* it is polled again and again: refreshes delay it but do not stop it.
TouchSpec == Touch!TouchSpec

\* The controller on a shared bus takes only steps that Power describes.
PowerSteps == [][Power!Next]_powerVars

\* Touch input does not starve the indicator: it is refreshed again and again,
\* and each refresh ends.
RefreshRecurs ==
    /\ (main # "bring_up") ~> (main = "system" /\ bus = "main")
    /\ MainUsesBus ~> (main = "select")

\* A request is answered, also one that is sent during a refresh.
RequestsAreAnswered == (requests > 0) ~> (requests = 0)
=============================================================================
