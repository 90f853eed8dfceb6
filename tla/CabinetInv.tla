------------------------------ MODULE CabinetInv ------------------------------
(***************************************************************************)
(* The inductive invariant behind DoorOpenIsStill, for a user who never    *)
(* overfills the queues, and what is added to it for OpensForOldest        *)
(* (RequestsInOrder) and for the patient user (OneAtATime).                *)
(*                                                                         *)
(* The motor and the servo each take the requests in the order they were   *)
(* made.  Lead is the number of requests the motor has taken minus the     *)
(* number the servo has; it is 0 while both work on the same request.  The *)
(* invariant says which pairs of places the two threads can be in, what    *)
(* Lead is there, and whether the two event bits are set.                  *)
(***************************************************************************)
EXTENDS Cabinet

ServoDone  == {"init", "recv", "pause", "asleep"}
ServoWaits == {"recv_pos", "wait_pos"}
ServoOpens == {"open", "recv_pick", "wait_pick", "close"}
MotorBefore == {"absent", "recv"}
MotorTurns  == {"pid", "asleep_pid"}
MotorAfter  == {"recv_pick", "wait_pick", "pause", "asleep"}
MotorPassed == {"pause", "asleep"}     \* it has seen PICK_FINNISH

One(b) == IF b THEN 1 ELSE 0
Lead == Len(servo_mq) - Len(motor_mq) + One(gui = "send_servo")

\* Before the queues exist nothing has been sent and no thread is up.
NotStarted ==
    ~QueuesExist =>
        /\ motor_mq = <<>> /\ servo_mq = <<>> /\ sleepers = <<>>
        /\ event \subseteq {EVENT_TOUCH_SCREEN}
        /\ gui \in {"idle", "send_motor", "halted"}
        /\ motor = "absent" /\ servo = "absent" /\ buzzer = "absent"
        /\ ~moving

\* A user who is not frantic leaves room in both queues for a request.
RoomToSend ==
    /\ gui = "send_motor" => Len(motor_mq) < QueueDepth /\ Len(servo_mq) < QueueDepth
    /\ gui = "send_servo" => Len(servo_mq) < QueueDepth

\* The delay list holds exactly the threads that sleep.
SleepersMatch ==
    sleepers \in
        IF MotorAsleep
        THEN IF servo = "asleep" THEN {<<"motor", "servo">>, <<"servo", "motor">>}
                                 ELSE {<<"motor">>}
        ELSE IF servo = "asleep" THEN {<<"servo">>} ELSE {<<>>}

BusyMeans == busy => ServoReady /\ MotorAsleep

\* The motor is driven only in the PID loop and while it looks for zero.
MovesWhenDriven ==
    /\ moving => motor \in MotorTurns \/ main = "zeroing"
    /\ main = "zeroing" => motor = "absent"

DoorMatches ==
    /\ servo \in {"recv_pick", "wait_pick", "close"} => door = {layer}
    /\ servo \in {"recv", "pause", "asleep", "recv_pos", "wait_pos", "open"} => door = {}

\* One PICK_FINNISH serves one request: if the bit is set there is a request
\* that has been finished on the screen and not yet by the servo.
FinishCounts ==
    servo # "absent" =>
        Len(servo_mq) + One(servo \in ServoWaits \cup (ServoOpens \ {"close"}))
            >= One(EVENT_PICK_FINNISH \in event) + One(gui \in {"touch", "box"})

\* Where the servo can be, for each place of the motor.
Phases ==
    servo # "absent" =>
        /\ motor \in MotorBefore =>
              /\ EVENT_POSITION_OK \notin event
              /\ \/ servo \in ServoDone /\ Lead = 0
                 \/ servo \in ServoWaits /\ Lead = -1
        /\ motor \in MotorTurns =>
              /\ EVENT_POSITION_OK \notin event
              /\ \/ servo \in ServoDone /\ Lead = 1
                 \/ servo \in ServoWaits /\ Lead = 0
        /\ motor \in MotorAfter =>
              \/ servo \in ServoDone /\ Lead = 1 /\ EVENT_POSITION_OK \in event
              \/ servo \in {"pause", "asleep"} /\ Lead = 0
                 /\ EVENT_POSITION_OK \notin event /\ motor \in MotorPassed
              \/ servo = "recv_pos" /\ Lead = 0 /\ EVENT_POSITION_OK \in event
              \/ servo \in ServoOpens /\ Lead = 0 /\ EVENT_POSITION_OK \notin event

\* The servo has still to consume the PICK_FINNISH of the motor's request.
ServoOwes == \/ servo \in ServoDone /\ Lead = 1
             \/ servo \in {"recv_pos", "open", "recv_pick"}

\* What the PICK_FINNISH bit says of the threads that wait for it.
PickBit ==
    /\ motor = "wait_pick" => EVENT_PICK_FINNISH \notin event
    /\ servo = "wait_pick" => EVENT_PICK_FINNISH \notin event /\ motor \notin MotorPassed
    /\ servo = "close" => motor \in MotorPassed
    /\ servo # "absent" /\ motor \in MotorPassed /\ ServoOwes =>
           EVENT_PICK_FINNISH \in event

\* The order of the two delays.  The motor's pause after a request begins
\* before the servo's, so the next positioning starts with the counter at 0 and
\* takes a delay that ends after the servo's.
DelayOrder ==
    /\ motor \in MotorAfter => t = 0
    /\ servo \in {"close", "pause"} => motor \in MotorPassed /\ Lead = 0
    /\ servo = "asleep" =>
          \/ motor \in {"recv", "pid"} /\ t = 0
          \/ motor = "asleep" /\ Lead = 0 /\ sleepers = <<"motor", "servo">>
          \/ motor = "asleep_pid" /\ sleepers = <<"servo", "motor">>
    /\ motor = "asleep" /\ (ServoOwes \/ servo \in {"close", "pause"})
          /\ servo \notin {"absent", "asleep"} => busy

IInv == /\ TypeOK /\ NotStarted /\ RoomToSend /\ SleepersMatch /\ BusyMeans
        /\ MovesWhenDriven /\ DoorMatches /\ FinishCounts /\ Phases /\ PickBit
        /\ DelayOrder

\* What the requests without a door are, in the order they were made: the one
\* whose layer the servo holds, those of the queued layers, the one whose layer is
\* still to be sent; and the queued positions are those of the last of them, the
\* target that of the first when its position is not queued any more.
Held == One(servo \in ServoWaits \cup {"open"})
RequestsInOrder ==
    /\ ~QueuesExist => pending = <<>>
    /\ servo # "absent" =>
        /\ Len(pending) = Held + Len(servo_mq) + One(gui = "send_servo")
        /\ Held = 1 => layer = LayerOf(pending[1])
        /\ \A i \in 1 .. Len(servo_mq) : servo_mq[i] = LayerOf(pending[Held + i])
        /\ gui = "send_servo" => op = pending[Len(pending)]
        /\ \A i \in 1 .. Len(motor_mq) :
              motor_mq[i] = PosOf(pending[Len(pending) - Len(motor_mq) + i])
        /\ Len(pending) > Len(motor_mq) => target = PosOf(pending[1])
    /\ motor \in MotorAfter => at = target

\* A patient user: each request has its box on the screen until its door closes,
\* there is one at a time, and Finish is never left set.
OneAtATime ==
    /\ EVENT_PICK_FINNISH \notin event
    /\ servo = "close" => confirmed
    /\ servo # "absent" =>
          Len(servo_mq) + One(servo \in ServoWaits \cup (ServoOpens \ {"close"}))
              = One(gui \in {"touch", "box"})
=============================================================================
