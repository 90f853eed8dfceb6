------------------------------- MODULE Cabinet -------------------------------
(***************************************************************************)
(* The storage cabinet: the threads of applications/ and the three kernel  *)
(* objects they share (global_event, motor_mq, servo_mq).                  *)
(*                                                                         *)
(* A request made on the screen picks a storage slot (the KV key), sends   *)
(* the slot's position to the motor and its layer to the servo, and shows  *)
(* a modal box with a Finish button.  The motor turns the carousel and     *)
(* raises POSITION_OK; the servo then opens the door of the layer, waits   *)
(* for PICK_FINNISH and closes it.                                         *)
(*                                                                         *)
(* The kernel is a uniprocessor with strict priorities: a thread takes a   *)
(* step only when no thread of higher priority is ready (MayRun).  All the *)
(* delays of the motor and the servo are 20 ticks long, so they expire in  *)
(* the order in which they began (sleepers), and the microseconds of work  *)
(* the servo does between two blocking calls fit in 20 ticks: the motor's  *)
(* delay does not expire before work that was ready when it began is done  *)
(* (busy).  rt_mq_send never blocks                                        *)
(* (timeout 0); rt_event_send resumes waiters in priority order and clears *)
(* the bits of a RT_EVENT_FLAG_CLEAR waiter on the spot.                   *)
(***************************************************************************)
EXTENDS Integers, Sequences, FiniteSets

CONSTANTS
    MaxComponents,  \* MAX_COMPONENT_COUNT: slots in the cabinet (36)
    PerLayer,       \* slots on one layer of the carousel (12)
    QueueDepth,     \* max_msgs of motor_mq and of servo_mq (5)
    Settle,         \* samples in the band before POSITION_OK (10)
    CounterMod,     \* range of the uint8_t settle counter (256)
    User,           \* how the person behaves: "patient", "hasty", "frantic"
    Overshoot,      \* the carousel may leave the band again before it settles
    Faults,         \* devices and the database may fail to come up
    MaxPending      \* bound of the history of unserved requests

ASSUME CabinetAssumption ==
    /\ MaxComponents \in Nat \ {0}
    /\ PerLayer \in Nat \ {0}
    /\ QueueDepth \in Nat \ {0}
    /\ Settle \in Nat /\ CounterMod \in Nat
    /\ 1 < Settle /\ Settle < CounterMod
    /\ User \in {"patient", "hasty", "frantic"}
    /\ Overshoot \in BOOLEAN
    /\ Faults \in BOOLEAN
    /\ MaxPending \in Nat \ {0}

EVENT_PICK_FINNISH == "PICK_FINNISH"
EVENT_POSITION_OK  == "POSITION_OK"
EVENT_TOUCH_SCREEN == "TOUCH_SCREEN"
Events == {EVENT_PICK_FINNISH, EVENT_POSITION_OK, EVENT_TOUCH_SCREEN}

Keys      == 0 .. MaxComponents - 1
Slots     == 0 .. PerLayer - 1
Between   == -1                        \* the carousel is between two slots
Layers    == 0 .. (MaxComponents - 1) \div PerLayer
PosOf(k)   == k % PerLayer
LayerOf(k) == k \div PerLayer

VARIABLES
    main,       \* where the main thread is in its start-up
    dbUp,       \* database_init succeeded
    gui,        \* where the LVGL thread is in its callbacks
    op,         \* the slot the current request is about
    kind,       \* "add": a new component; "get": one from the list
    kv,         \* the slots that hold a component in the KV database
    motor_mq, servo_mq,
    event,      \* the bits set in global_event
    motor,      \* where the motor thread is
    target,     \* the position it last received
    t,          \* its settle counter
    at,         \* the slot at the doors, or Between
    moving,     \* the motor is driven with a non-zero duty
    servo,      \* where the servo thread is
    layer,      \* the layer it last received
    door,       \* the layers whose door is open
    buzzer,     \* where the buzzer thread is
    sleepers,   \* the threads in a 20-tick delay, next to expire first
    busy,       \* the servo has been ready ever since the motor began its delay
    pending,    \* history: requests sent whose door has not opened yet
    streak,     \* history: samples in the band since the last one outside
    confirmed   \* history: Finish was clicked since the door last opened

mainVars  == <<main, dbUp>>
guiVars   == <<gui, op, kind, kv>>
motorVars == <<motor, target, t, at, moving, streak>>
servoVars == <<servo, layer, door>>
queues    == <<motor_mq, servo_mq>>
vars == <<main, dbUp, gui, op, kind, kv, motor_mq, servo_mq, event, motor,
          target, t, at, moving, servo, layer, door, buzzer, sleepers,
          busy, pending, streak, confirmed>>

(***************************************************************************)
(* Scheduling.                                                             *)
(***************************************************************************)
MainReady  == main \in {"create_event", "database_init", "start_threads"}
MotorReady == \/ motor \in {"pid", "recv_pick", "pause"}
              \/ motor = "recv" /\ motor_mq # <<>>
ServoReady == \/ servo \in {"init", "recv_pos", "open", "recv_pick", "close", "pause"}
              \/ servo = "recv" /\ servo_mq # <<>>

\* main 6, motor 10, servo 11, LVGL and buzzer 20
MotorMayRun == ~MainReady
ServoMayRun == ~MainReady /\ ~MotorReady
LowMayRun   == ~MainReady /\ ~MotorReady /\ ~ServoReady

(***************************************************************************)
(* rt_event_send: the suspended threads are visited in priority order; one *)
(* whose bits are all set is resumed, and if it asked for CLEAR its bits   *)
(* are gone before the next one is looked at.                              *)
(***************************************************************************)

ClearsAll == {"motor", "servo", "buzzer"}           \* mutants of Clears
ClearsBuzzer == {"buzzer"}
Clears  == {"servo", "buzzer"}          \* receive with RT_EVENT_FLAG_CLEAR
Prio    == [motor |-> 10, servo |-> 11, buzzer |-> 20]

Awaits(u) ==
    CASE u = "motor" /\ motor = "wait_pick"   -> {EVENT_PICK_FINNISH}
      [] u = "servo" /\ servo = "wait_pos"    -> {EVENT_POSITION_OK}
      [] u = "servo" /\ servo = "wait_pick"   -> {EVENT_PICK_FINNISH}
      [] u = "buzzer" /\ buzzer = "wait"      -> {EVENT_TOUCH_SCREEN}
      [] OTHER                                -> {}

Served(u, set) ==
    /\ Awaits(u) # {}
    /\ Awaits(u) \subseteq set
    /\ \A v \in Clears : Prio[v] < Prio[u] => Awaits(v) # Awaits(u)

EventSend(e) ==
    LET set == event \cup {e}
    IN  /\ event' = set \ UNION {Awaits(u) : u \in {v \in Clears : Served(v, set)}}
        /\ servo' = IF ~Served("servo", set) THEN servo
                    ELSE IF servo = "wait_pos" THEN "open" ELSE "close"
        /\ buzzer' = IF Served("buzzer", set) THEN "beep" ELSE buzzer

MotorResumesNever(e) == e \in Events /\ motor' = motor  \* mutant of MotorResumes
MotorResumes(e) ==
    motor' = IF Served("motor", event \cup {e}) THEN "pause" ELSE motor

(***************************************************************************)
(* The main thread.  database_init waits for the serial flash with         *)
(* rt_thread_delay when it formats it, which lets the LVGL thread run; the *)
(* other steps do not block until motor_zero_out polls the hall sensor.    *)
(***************************************************************************)
CreateEvent ==
    /\ main = "create_event"
    /\ main' = "database_init"
    /\ UNCHANGED <<dbUp, guiVars, queues, event, motorVars, servoVars, buzzer,
                   sleepers, pending, confirmed>>

DatabaseInit ==
    /\ \/ main = "database_init" /\ main' \in {"database_wait", "start_threads"}
       \/ main = "database_wait" /\ main' = "start_threads"
    /\ dbUp' \in IF main' = "database_wait" THEN {FALSE}
                 ELSE IF Faults THEN BOOLEAN ELSE {TRUE}
    /\ UNCHANGED <<guiVars, queues, event, motorVars, servoVars, buzzer,
                   sleepers, pending, confirmed>>

\* buzzer_thread_init, servo_thread_init, encoder_thread_init up to the first
\* delay of motor_zero_out: each creates its queue before it looks for devices.
StartThreads ==
    /\ main = "start_threads"
    /\ buzzer' = "recv"
    /\ servo' \in IF Faults THEN {"init", "absent"} ELSE {"init"}
    /\ \/ main' = "zeroing" /\ moving' = TRUE
       \/ Faults /\ main' = "led" /\ UNCHANGED moving
    /\ UNCHANGED <<dbUp, guiVars, queues, event, motor, target, t, at, streak,
                   layer, door, sleepers, pending, confirmed>>

\* motor_zero_out saw the hall edge it waits for; the motor thread starts.
ZeroFound ==
    /\ main = "zeroing"
    /\ main' = "led"
    /\ moving' = FALSE
    /\ at' = 0
    /\ motor' = "recv"
    /\ UNCHANGED <<dbUp, guiVars, queues, event, target, t, streak, servoVars,
                   buzzer, sleepers, pending, confirmed>>

QueuesExist == main \in {"zeroing", "led"}

(***************************************************************************)
(* The LVGL thread: callbacks of the screen.  A box with a Finish button   *)
(* is modal, so no other callback runs until it is clicked.                *)
(***************************************************************************)
\* Only a frantic user makes a request while the queues are full.
Asks ==
    /\ Len(pending) < MaxPending
    /\ \/ User = "frantic"
       \/ Len(motor_mq) < QueueDepth /\ Len(servo_mq) < QueueDepth

\* components_add_kv: the first free slot, stored before anything moves.  A
\* database that is not up finds no KV and stores none: always slot 0.
AddComponent ==
    /\ gui = "idle" /\ LowMayRun /\ Asks
    /\ \E k \in Keys :
          /\ IF dbUp THEN k \notin kv /\ \A j \in 0 .. k - 1 : j \in kv ELSE k = 0
          /\ op' = k
          /\ kv' = IF dbUp THEN kv \cup {k} ELSE kv
    /\ kind' = "add"
    /\ gui' = "send_motor"
    /\ UNCHANGED <<mainVars, queues, event, motorVars, servoVars, buzzer,
                   sleepers, pending, confirmed>>

\* event_get_component_cb on the row of a stored component; taking the whole
\* rest deletes its KV.
GetComponent ==
    /\ gui = "idle" /\ LowMayRun /\ Asks
    /\ dbUp
    /\ \E k \in kv, all \in BOOLEAN :
          /\ op' = k
          /\ kv' = IF all THEN kv \ {k} ELSE kv
    /\ kind' = "get"
    /\ gui' = "send_motor"
    /\ EventSend(EVENT_TOUCH_SCREEN) /\ MotorResumes(EVENT_TOUCH_SCREEN)
    /\ UNCHANGED <<mainVars, queues, target, t, at, moving, streak, layer, door,
                   sleepers, pending, confirmed>>

\* rt_mq_send asserts that the queue exists; a full queue drops the message and
\* the caller ignores -RT_EFULL.
SendMotor ==
    /\ gui = "send_motor" /\ LowMayRun
    /\ IF QueuesExist
       THEN /\ motor_mq' = IF Len(motor_mq) < QueueDepth
                           THEN Append(motor_mq, PosOf(op)) ELSE motor_mq
            /\ gui' = "send_servo"
            /\ pending' = Append(pending, op)
       ELSE gui' = "halted" /\ UNCHANGED <<motor_mq, pending>>
    /\ UNCHANGED <<mainVars, op, kind, kv, servo_mq, event, motorVars, servoVars,
                   buzzer, sleepers, confirmed>>

SendServo ==
    /\ gui = "send_servo" /\ LowMayRun
    /\ servo_mq' = IF Len(servo_mq) < QueueDepth
                   THEN Append(servo_mq, LayerOf(op)) ELSE servo_mq
    /\ gui' = IF kind = "add" THEN "touch" ELSE "box"
    /\ UNCHANGED <<mainVars, op, kind, kv, motor_mq, event, motorVars, servoVars,
                   buzzer, sleepers, pending, confirmed>>

\* ui_event_addButton calls screen_touch_function after the request; the
\* keyboards and the search button call it with nothing requested.
ScreenTouch ==
    /\ gui \in {"idle", "touch"} /\ LowMayRun
    /\ gui' = IF gui = "touch" THEN "box" ELSE "idle"
    /\ EventSend(EVENT_TOUCH_SCREEN) /\ MotorResumes(EVENT_TOUCH_SCREEN)
    /\ UNCHANGED <<mainVars, op, kind, kv, queues, target, t, at, moving, streak,
                   layer, door, sleepers, pending, confirmed>>

\* event_finish_cb.  Only a patient user looks at the door first.
Finish ==
    /\ gui = "box" /\ LowMayRun
    /\ User = "patient" => servo = "wait_pick"
    /\ gui' = "idle"
    /\ confirmed' = (confirmed \/ door # {})
    /\ EventSend(EVENT_PICK_FINNISH) /\ MotorResumes(EVENT_PICK_FINNISH)
    /\ UNCHANGED <<mainVars, op, kind, kv, queues, target, t, at, moving, streak,
                   layer, door, sleepers, pending>>

Gui == AddComponent \/ GetComponent \/ SendMotor \/ SendServo \/ ScreenTouch \/ Finish

(***************************************************************************)
(* The motor thread, encodermotor_entry.                                   *)
(***************************************************************************)
MotorRecv ==
    /\ motor = "recv" /\ motor_mq # <<>> /\ MotorMayRun
    /\ target' = Head(motor_mq)
    /\ motor_mq' = Tail(motor_mq)
    /\ motor' = "pid"
    /\ streak' = 0
    /\ UNCHANGED <<mainVars, guiVars, servo_mq, event, t, at, moving, servoVars,
                   buzzer, sleepers, pending, confirmed>>

\* One sample of the PID loop: where the carousel has got to, then either the
\* position is settled or a new duty is set and the thread sleeps 20 ms.
PidSample(p) ==
    LET inBand == p = target
        count  == (t + 1) % CounterMod
    IN  /\ motor = "pid" /\ MotorMayRun
        /\ moving \/ p = at
        /\ Overshoot \/ at # target \/ p = at
        /\ at' = p
        /\ streak' = IF ~inBand THEN 0
                     ELSE IF streak < Settle THEN streak + 1 ELSE streak
        /\ \/ /\ inBand /\ count = Settle
              /\ t' = 0
              /\ moving' = FALSE
              /\ motor' = "recv_pick"
              /\ EventSend(EVENT_POSITION_OK)
              /\ UNCHANGED sleepers
           \/ /\ ~(inBand /\ count = Settle)
              /\ t' = IF inBand THEN count ELSE 0
              /\ moving' \in IF Overshoot THEN BOOLEAN ELSE {~inBand}
              /\ motor' = "asleep_pid"
              /\ sleepers' = Append(sleepers, "motor")
              /\ UNCHANGED <<event, servo, buzzer>>
        /\ UNCHANGED <<mainVars, guiVars, queues, target, layer, door, pending,
                       confirmed>>

Pid == \E p \in Slots \cup {Between} : PidSample(p)

\* rt_event_recv(PICK_FINNISH, AND): the bit is left set for the servo.
MotorRecvPick ==
    /\ motor = "recv_pick" /\ MotorMayRun
    /\ motor' = IF EVENT_PICK_FINNISH \in event THEN "pause" ELSE "wait_pick"
    /\ UNCHANGED <<mainVars, guiVars, queues, event, target, t, at, moving, streak,
                   servoVars, buzzer, sleepers, pending, confirmed>>

MotorPause ==
    /\ motor = "pause" /\ MotorMayRun
    /\ motor' = "asleep"
    /\ sleepers' = Append(sleepers, "motor")
    /\ UNCHANGED <<mainVars, guiVars, queues, event, target, t, at, moving, streak,
                   servoVars, buzzer, pending, confirmed>>

Motor == MotorRecv \/ Pid \/ MotorRecvPick \/ MotorPause

(***************************************************************************)
(* The servo thread, servo_trhread_entry.                                  *)
(***************************************************************************)
ServoInit ==
    /\ servo = "init" /\ ServoMayRun
    /\ servo' = "recv"
    /\ door' = {}
    /\ UNCHANGED <<mainVars, guiVars, queues, event, motorVars, layer, buzzer,
                   sleepers, pending, confirmed>>

ServoRecv ==
    /\ servo = "recv" /\ servo_mq # <<>> /\ ServoMayRun
    /\ layer' = Head(servo_mq)
    /\ servo_mq' = Tail(servo_mq)
    /\ servo' = "recv_pos"
    /\ UNCHANGED <<mainVars, guiVars, motor_mq, event, motorVars, door, buzzer,
                   sleepers, pending, confirmed>>

\* rt_event_recv(e, AND | CLEAR): at once if the bit is set, else suspended.
ServoRecvEventKeep(from, e, wait, next) ==         \* mutant of ServoRecvEvent
    /\ servo = from /\ ServoMayRun
    /\ servo' = IF e \in event THEN next ELSE wait
    /\ UNCHANGED <<mainVars, guiVars, queues, event, motorVars, layer, door, buzzer,
                   sleepers, pending, confirmed>>
ServoRecvEvent(from, e, wait, next) ==
    /\ servo = from /\ ServoMayRun
    /\ servo' = IF e \in event THEN next ELSE wait
    /\ event' = event \ {e}
    /\ UNCHANGED <<mainVars, guiVars, queues, motorVars, layer, door, buzzer,
                   sleepers, pending, confirmed>>

ServoRecvPosNoWait ==                              \* mutant of ServoRecvPos
    ServoRecvEvent("recv_pos", EVENT_POSITION_OK, "open", "open")
ServoRecvPos  == ServoRecvEvent("recv_pos", EVENT_POSITION_OK, "wait_pos", "open")
ServoRecvPick == ServoRecvEvent("recv_pick", EVENT_PICK_FINNISH, "wait_pick", "close")

ServoOpen ==
    /\ servo = "open" /\ ServoMayRun
    /\ door' = door \cup {layer}
    /\ confirmed' = FALSE
    /\ pending' = IF pending # <<>> THEN Tail(pending) ELSE pending
    /\ servo' = "recv_pick"
    /\ UNCHANGED <<mainVars, guiVars, queues, event, motorVars, layer, buzzer,
                   sleepers>>

ServoClose ==
    /\ servo = "close" /\ ServoMayRun
    /\ door' = door \ {layer}
    /\ servo' = "pause"
    /\ UNCHANGED <<mainVars, guiVars, queues, event, motorVars, layer, buzzer,
                   sleepers, pending, confirmed>>

ServoPause ==
    /\ servo = "pause" /\ ServoMayRun
    /\ servo' = "asleep"
    /\ sleepers' = Append(sleepers, "servo")
    /\ UNCHANGED <<mainVars, guiVars, queues, event, motorVars, layer, door, buzzer,
                   pending, confirmed>>

Servo == \/ ServoInit \/ ServoRecv \/ ServoRecvPos \/ ServoOpen
         \/ ServoRecvPick \/ ServoClose \/ ServoPause

(***************************************************************************)
(* The buzzer thread, and the expiry of the delays.                        *)
(***************************************************************************)
BuzzerRecv ==
    /\ buzzer = "recv" /\ LowMayRun
    /\ buzzer' = IF EVENT_TOUCH_SCREEN \in event THEN "beep" ELSE "wait"
    /\ event' = event \ {EVENT_TOUCH_SCREEN}
    /\ UNCHANGED <<mainVars, guiVars, queues, motorVars, servoVars, sleepers,
                   pending, confirmed>>

\* The pin is high for 80 ms, then low again.
BuzzerQuiet ==
    /\ buzzer = "beep" /\ LowMayRun
    /\ buzzer' = "recv"
    /\ UNCHANGED <<mainVars, guiVars, queues, event, motorVars, servoVars, sleepers,
                   pending, confirmed>>

WakeUp ==
    /\ sleepers # <<>>
    /\ Head(sleepers) = "motor" => ~busy
    /\ sleepers' = Tail(sleepers)
    /\ IF Head(sleepers) = "motor"
       THEN /\ motor' = IF motor = "asleep_pid" THEN "pid" ELSE "recv"
            /\ UNCHANGED servo
       ELSE servo' = "recv" /\ UNCHANGED motor
    /\ UNCHANGED <<mainVars, guiVars, queues, event, target, t, at, moving, streak,
                   layer, door, buzzer, pending, confirmed>>

Init ==
    /\ main = "create_event" /\ dbUp = FALSE
    /\ gui = "idle" /\ op = 0 /\ kind = "add"
    /\ kv \in SUBSET Keys
    /\ motor_mq = <<>> /\ servo_mq = <<>>
    /\ event = {}
    /\ motor = "absent" /\ target = 0
    /\ t \in 0 .. CounterMod - 1          \* uninitialised
    /\ at \in Slots \cup {Between}
    /\ moving = FALSE
    /\ servo = "absent" /\ layer = 0
    /\ door \in SUBSET Layers
    /\ buzzer = "absent"
    /\ sleepers = <<>> /\ busy = FALSE
    /\ pending = <<>> /\ streak = 0 /\ confirmed = FALSE

Start == CreateEvent \/ DatabaseInit \/ StartThreads \/ ZeroFound

Step ==
    \/ Start \/ Gui \/ Motor \/ Servo
    \/ BuzzerRecv \/ BuzzerQuiet \/ WakeUp

MotorAsleep == motor \in {"asleep", "asleep_pid"}
Busy == busy' = (ServoReady' /\ MotorAsleep' /\ (busy \/ ~MotorAsleep))

Next == Step /\ Busy

Spec == Init /\ [][Next]_vars

(***************************************************************************)
(* Fairness.  Every thread runs when it is ready and nothing above it is;  *)
(* the LVGL thread is only interrupted by threads that sleep 20 ms between *)
(* short bursts, so it runs although it is not ready without a break.  The *)
(* controller reaches the target; nothing is assumed of the user.          *)
(***************************************************************************)
PidReaches == PidSample(target)

Fairness ==
    /\ WF_vars(Start /\ Busy)
    /\ WF_vars(Motor /\ Busy) /\ SF_vars(PidReaches /\ Busy)
    /\ WF_vars(Servo /\ Busy)
    /\ WF_vars(WakeUp /\ Busy)
    /\ SF_vars(SendMotor /\ Busy) /\ SF_vars(SendServo /\ Busy)
    /\ SF_vars(gui = "touch" /\ ScreenTouch /\ Busy)

FairSpec == Spec /\ Fairness

(***************************************************************************)
(* Types.                                                                  *)
(***************************************************************************)
MotorStates == {"absent", "recv", "pid", "asleep_pid", "recv_pick", "wait_pick",
                "pause", "asleep"}
ServoStates == {"absent", "init", "recv", "recv_pos", "wait_pos", "open",
                "recv_pick", "wait_pick", "close", "pause", "asleep"}

\* Every variable holds a value of its kind and no queue exceeds its depth.
TypeOK ==
    /\ main \in {"create_event", "database_init", "database_wait",
                 "start_threads", "zeroing", "led"}
    /\ dbUp \in BOOLEAN
    /\ gui \in {"idle", "send_motor", "send_servo", "touch", "box", "halted"}
    /\ op \in Keys /\ kind \in {"add", "get"} /\ kv \in SUBSET Keys
    /\ motor_mq \in Seq(Slots) /\ Len(motor_mq) <= QueueDepth
    /\ servo_mq \in Seq(Layers) /\ Len(servo_mq) <= QueueDepth
    /\ event \in SUBSET Events
    /\ motor \in MotorStates /\ target \in Slots
    /\ t \in 0 .. CounterMod - 1
    /\ at \in Slots \cup {Between} /\ moving \in BOOLEAN
    /\ servo \in ServoStates /\ layer \in Layers /\ door \in SUBSET Layers
    /\ buzzer \in {"absent", "recv", "wait", "beep"}
    /\ sleepers \in Seq({"motor", "servo"}) /\ busy \in BOOLEAN
    /\ pending \in Seq(Keys)
    /\ streak \in 0 .. Settle
    /\ confirmed \in BOOLEAN

(***************************************************************************)
(* Safety.                                                                 *)
(***************************************************************************)
\* While a door is open it is the only one, the carousel stands still, and the
\* motor thread is past its PID loop (servo.c:57, wait for the motor).
DoorOpenIsStill ==
    servo \in {"recv_pick", "wait_pick", "close"} =>
        /\ door = {layer}
        /\ ~moving
        /\ motor \notin {"pid", "asleep_pid"}

\* The door that opens is that of the oldest request not yet served, with the
\* carousel at that request's position: position and layer, which travel in
\* two queues, are never paired across requests.
OpensForOldest ==
    [][ServoOpen => /\ pending # <<>>
                    /\ layer = LayerOf(Head(pending))
                    /\ at = PosOf(Head(pending))]_vars

\* POSITION_OK is a single bit: the motor never raises it while an earlier one
\* has not been consumed by the servo, if there is one, so each positioning opens
\* exactly one door.
NoPositionMerged ==
    [][motor = "pid" /\ motor' = "recv_pick" /\ servo # "absent"
          => EVENT_POSITION_OK \notin event]_vars

\* README 6.3: the door stays open until the user reports having finished.
DoorWaitsForUser == servo = "close" => confirmed

\* README 6.4: POSITION_OK is raised after ten consecutive samples in the band.
SettledEnough == motor = "recv_pick" => streak = Settle

\* README 6.3: while a door waits for the user there is a Finish button to click.
OpenDoorHasButton ==
    servo = "wait_pick" => gui # "idle"

\* ipc.c:2748, RT_ASSERT(mq != RT_NULL): no callback sends before the queues exist.
QueuesExistWhenUsed == gui # "halted"

(***************************************************************************)
(* Liveness.                                                               *)
(***************************************************************************)
\* Every request sent is eventually served by an open door at its slot.
RequestServed ==
    QueuesExist /\ gui = "send_motor"
        ~> /\ servo = "wait_pick" /\ door = {LayerOf(op)}
           /\ at = PosOf(op)

\* One click on Finish releases both threads that wait for it: the door closes
\* and the motor is ready for the next request.
FinishReleasesBoth ==
    confirmed /\ door # {} ~> door = {} /\ motor = "recv"
=============================================================================
