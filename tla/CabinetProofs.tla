---------------------------- MODULE CabinetProofs ----------------------------
(***************************************************************************)
(* Proofs about the cabinet, for every number of slots, queue depth and    *)
(* settle count: its types; IInv, preserved by every step of a user who    *)
(* leaves room in the queues, with DoorOpenIsStill and NoPositionMerged;   *)
(* the order of the requests; and the patient user.                        *)
(***************************************************************************)
EXTENDS CabinetInv, SequenceTheorems, TLAPS

(***************************************************************************)
(* A slot number splits into a position and a layer of the carousel.       *)
(***************************************************************************)
\* key % 12 and key / 12 name an existing position and an existing layer.
LEMMA SlotSplits ==
    ASSUME CabinetAssumption, NEW k \in Keys
    PROVE  PosOf(k) \in Slots /\ LayerOf(k) \in Layers
<1> USE CabinetAssumption DEF CabinetAssumption, Keys
<1>1. PosOf(k) \in Slots
  BY DEF PosOf, Slots
<1>2. LayerOf(k) \in Layers
  <2> DEFINE q == k \div PerLayer
             m == (MaxComponents - 1) \div PerLayer
  <2>1. q \in Int /\ m \in Int /\ q >= 0 /\ m >= 0
    OBVIOUS
  <2>2. k = q * PerLayer + (k % PerLayer) /\ k % PerLayer \in 0 .. PerLayer - 1
    OBVIOUS
  <2>3. /\ MaxComponents - 1 = m * PerLayer + ((MaxComponents - 1) % PerLayer)
        /\ (MaxComponents - 1) % PerLayer \in 0 .. PerLayer - 1
    OBVIOUS
  <2>4. q <= m
    BY <2>1, <2>2, <2>3
  <2> QED BY <2>1, <2>4 DEF LayerOf, Layers
<1> QED BY <1>1, <1>2

(***************************************************************************)
(* Type correctness.                                                       *)
(***************************************************************************)
\* rt_event_send keeps the event set, the servo and the buzzer in their types.
LEMMA EventSendType ==
    ASSUME TypeOK, NEW e \in Events, EventSend(e)
    PROVE  /\ event' \in SUBSET Events
           /\ servo' \in ServoStates
           /\ buzzer' \in {"absent", "recv", "wait", "beep"}
BY DEF TypeOK, EventSend, ServoStates

\* A resumed motor thread goes on to its delay; otherwise nothing changes.
LEMMA MotorResumesType ==
    ASSUME TypeOK, NEW e \in Events, MotorResumes(e)
    PROVE  motor' \in MotorStates
BY DEF TypeOK, MotorResumes, MotorStates

LEMMA EventNames ==
    /\ EVENT_PICK_FINNISH \in Events
    /\ EVENT_POSITION_OK \in Events
    /\ EVENT_TOUCH_SCREEN \in Events
BY DEF Events

\* rt_mq_send: a full queue stays as it is, so no queue exceeds max_msgs.
LEMMA SendBounded ==
    ASSUME NEW S, NEW n \in Nat, NEW q \in Seq(S), NEW x \in S, Len(q) <= n,
           NEW r, r = IF Len(q) < n THEN Append(q, x) ELSE q
    PROVE  r \in Seq(S) /\ Len(r) <= n
OBVIOUS

LEMMA ZeroExists ==
    ASSUME CabinetAssumption PROVE 0 \in Keys /\ 0 \in Slots /\ 0 \in Layers
<1>1. 0 \in Keys /\ 0 \in Slots
  BY CabinetAssumption DEF CabinetAssumption, Keys, Slots
<1>2. (MaxComponents - 1) \div PerLayer >= 0 /\ (MaxComponents - 1) \div PerLayer \in Int
  BY CabinetAssumption DEF CabinetAssumption
<1> QED BY <1>1, <1>2 DEF Layers

LEMMA TypeInit == CabinetAssumption /\ Init => TypeOK
<1> SUFFICES ASSUME CabinetAssumption, Init PROVE TypeOK
  OBVIOUS
<1>1. 0 \in 0 .. Settle /\ 0 <= QueueDepth
  BY CabinetAssumption DEF CabinetAssumption
<1>2. motor_mq \in Seq(Slots) /\ servo_mq \in Seq(Layers) /\ pending \in Seq(Keys)
  BY DEF Init
<1>3. t \in 0 .. CounterMod - 1 /\ at \in Slots \cup {Between}
  BY DEF Init
<1>4. Len(motor_mq) <= QueueDepth /\ Len(servo_mq) <= QueueDepth
  BY <1>1 DEF Init
<1>5. /\ gui = "idle" /\ op \in Keys /\ kind = "add" /\ kv \in SUBSET Keys
      /\ target \in Slots /\ layer \in Layers /\ door \in SUBSET Layers
      /\ sleepers \in Seq({"motor", "servo"}) /\ streak \in 0 .. Settle
  BY <1>1, ZeroExists DEF Init
<1>6. /\ main = "create_event" /\ dbUp = FALSE /\ event = {} /\ motor = "absent"
      /\ moving = FALSE /\ servo = "absent" /\ buzzer = "absent"
      /\ busy = FALSE /\ confirmed = FALSE
  BY DEF Init
<1> QED BY <1>2, <1>3, <1>4, <1>5, <1>6 DEF TypeOK, MotorStates, ServoStates

LEMMA TypeStart ==
    ASSUME CabinetAssumption, TypeOK, Start PROVE TypeOK' \/ busy' \notin BOOLEAN
<1> USE DEF TypeOK, guiVars, motorVars, servoVars, queues, mainVars
<1>1. CASE CreateEvent
  BY <1>1 DEF CreateEvent
<1>2. CASE DatabaseInit
  BY <1>2 DEF DatabaseInit
<1>3. CASE StartThreads
  BY <1>3 DEF StartThreads, ServoStates
<1>4. CASE ZeroFound
  BY <1>4, ZeroExists DEF ZeroFound, MotorStates
<1> QED BY <1>1, <1>2, <1>3, <1>4 DEF Start

LEMMA TypeGui ==
    ASSUME CabinetAssumption, TypeOK, Gui PROVE TypeOK' \/ busy' \notin BOOLEAN
<1> USE DEF TypeOK, guiVars, motorVars, servoVars, queues, mainVars
<1>1. CASE AddComponent
  BY <1>1 DEF AddComponent
<1>2. CASE GetComponent
  BY <1>2, EventSendType, MotorResumesType, EventNames DEF GetComponent
<1>3. CASE SendMotor
  <2>1. PosOf(op) \in Slots
    BY SlotSplits
  <2>2. motor_mq' \in Seq(Slots) /\ Len(motor_mq') <= QueueDepth
    <3>1. motor_mq \in Seq(Slots) /\ Len(motor_mq) <= QueueDepth /\ QueueDepth \in Nat
      BY CabinetAssumption DEF CabinetAssumption
    <3>2. \/ motor_mq' = motor_mq
          \/ motor_mq' = IF Len(motor_mq) < QueueDepth THEN Append(motor_mq, PosOf(op)) ELSE motor_mq
      BY <1>3 DEF SendMotor
    <3> HIDE DEF TypeOK
    <3> QED BY <2>1, <3>1, <3>2, SendBounded
  <2>3. pending' \in Seq(Keys)
    <3>1. pending' = pending \/ pending' = Append(pending, op)
      BY <1>3 DEF SendMotor
    <3>2. pending \in Seq(Keys) /\ op \in Keys
      OBVIOUS
    <3> HIDE DEF TypeOK
    <3> QED BY <3>1, <3>2
  <2> QED BY <1>3, <2>2, <2>3 DEF SendMotor
<1>4. CASE SendServo
  <2>1. LayerOf(op) \in Layers
    BY SlotSplits
  <2>2. servo_mq' \in Seq(Layers) /\ Len(servo_mq') <= QueueDepth
    <3>1. servo_mq \in Seq(Layers) /\ Len(servo_mq) <= QueueDepth /\ QueueDepth \in Nat
      BY CabinetAssumption DEF CabinetAssumption
    <3>2. \/ servo_mq' = servo_mq
          \/ servo_mq' = IF Len(servo_mq) < QueueDepth THEN Append(servo_mq, LayerOf(op)) ELSE servo_mq
      BY <1>4 DEF SendServo
    <3> HIDE DEF TypeOK
    <3> QED BY <2>1, <3>1, <3>2, SendBounded
  <2> QED BY <1>4, <2>2 DEF SendServo
<1>5. CASE ScreenTouch
  BY <1>5, EventSendType, MotorResumesType, EventNames DEF ScreenTouch
<1>6. CASE Finish
  BY <1>6, EventSendType, MotorResumesType, EventNames DEF Finish
<1> QED BY <1>1, <1>2, <1>3, <1>4, <1>5, <1>6 DEF Gui

LEMMA TypeMotor ==
    ASSUME CabinetAssumption, TypeOK, Motor PROVE TypeOK' \/ busy' \notin BOOLEAN
<1> USE DEF TypeOK, guiVars, motorVars, servoVars, queues, mainVars
<1>1. CASE MotorRecv
  BY <1>1, CabinetAssumption DEF MotorRecv, MotorStates, CabinetAssumption
<1>2. CASE Pid
  <2>1. PICK p \in Slots \cup {Between} : PidSample(p)
    BY <1>2 DEF Pid
  <2>2. streak' \in 0 .. Settle
    BY <2>1, CabinetAssumption DEF PidSample, CabinetAssumption
  <2>5. t' \in 0 .. CounterMod - 1
    <3>1. (t + 1) % CounterMod \in 0 .. CounterMod - 1
      BY CabinetAssumption DEF CabinetAssumption
    <3>2. t' \in {0, (t + 1) % CounterMod}
      BY <2>1 DEF PidSample
    <3> QED BY <3>1, <3>2, CabinetAssumption DEF CabinetAssumption
  <2>6. moving' \in BOOLEAN /\ motor' \in MotorStates
    BY <2>1 DEF PidSample, MotorStates
  <2>3. sleepers' \in Seq({"motor", "servo"})
    <3>1. sleepers' = sleepers \/ sleepers' = Append(sleepers, "motor")
      BY <2>1 DEF PidSample
    <3>2. sleepers \in Seq({"motor", "servo"})
      OBVIOUS
    <3> HIDE DEF TypeOK
    <3> QED BY <3>1, <3>2
  <2>4. /\ event' \in SUBSET Events /\ servo' \in ServoStates
        /\ buzzer' \in {"absent", "recv", "wait", "beep"}
    <3>1. EventSend(EVENT_POSITION_OK) \/ UNCHANGED <<event, servo, buzzer>>
      BY <2>1 DEF PidSample
    <3>2. CASE EventSend(EVENT_POSITION_OK)
      BY <3>2, EventSendType, EventNames
    <3> QED BY <3>1, <3>2
  <2> QED BY <2>1, <2>2, <2>3, <2>4, <2>5, <2>6 DEF PidSample
<1>3. CASE MotorRecvPick
  BY <1>3 DEF MotorRecvPick, MotorStates
<1>4. CASE MotorPause
  BY <1>4 DEF MotorPause, MotorStates
<1> QED BY <1>1, <1>2, <1>3, <1>4 DEF Motor

LEMMA TypeServo ==
    ASSUME CabinetAssumption, TypeOK, Servo PROVE TypeOK' \/ busy' \notin BOOLEAN
<1> USE DEF TypeOK, guiVars, motorVars, servoVars, queues, mainVars, ServoStates
<1>1. CASE ServoInit
  BY <1>1 DEF ServoInit
<1>2. CASE ServoRecv
  BY <1>2, CabinetAssumption DEF ServoRecv, CabinetAssumption
<1>3. CASE ServoRecvPos
  BY <1>3 DEF ServoRecvPos, ServoRecvEvent
<1>4. CASE ServoOpen
  <2>1. door' \in SUBSET Layers
    BY <1>4 DEF ServoOpen
  <2>2. pending' \in Seq(Keys)
    BY <1>4 DEF ServoOpen
  <2> QED BY <1>4, <2>1, <2>2 DEF ServoOpen
<1>5. CASE ServoRecvPick
  BY <1>5 DEF ServoRecvPick, ServoRecvEvent
<1>6. CASE ServoClose
  BY <1>6 DEF ServoClose
<1>7. CASE ServoPause
  BY <1>7 DEF ServoPause
<1> QED BY <1>1, <1>2, <1>3, <1>4, <1>5, <1>6, <1>7 DEF Servo

LEMMA TypeOther ==
    ASSUME CabinetAssumption, TypeOK, BuzzerRecv \/ BuzzerQuiet \/ WakeUp
    PROVE  TypeOK' \/ busy' \notin BOOLEAN
<1> USE DEF TypeOK, guiVars, motorVars, servoVars, queues, mainVars
<1>1. CASE BuzzerRecv
  BY <1>1 DEF BuzzerRecv
<1>2. CASE BuzzerQuiet
  BY <1>2 DEF BuzzerQuiet
<1>3. CASE WakeUp
  BY <1>3 DEF WakeUp, MotorStates, ServoStates
<1> QED BY <1>1, <1>2, <1>3

\* Every step keeps every variable in its type.
LEMMA TypeStep == CabinetAssumption /\ TypeOK /\ [Next]_vars => TypeOK'
<1> SUFFICES ASSUME CabinetAssumption, TypeOK, [Next]_vars PROVE TypeOK'
  OBVIOUS
<1>1. CASE Next
  <2>1. busy' \in BOOLEAN
    BY <1>1 DEF Next, Busy
  <2> QED BY <1>1, <2>1, TypeStart, TypeGui, TypeMotor, TypeServo, TypeOther
          DEF Next, Step
<1>2. CASE UNCHANGED vars
  BY <1>2 DEF vars, TypeOK
<1> QED BY <1>1, <1>2

\* Type correctness of the cabinet; in particular no queue exceeds max_msgs and
\* every position and layer sent exists.
THEOREM CabinetTypes == Spec => []TypeOK
<1>1. Init => TypeOK
  BY TypeInit, CabinetAssumption
<1>2. TypeOK /\ [Next]_vars => TypeOK'
  BY TypeStep, CabinetAssumption
<1> QED BY <1>1, <1>2, PTL DEF Spec

(***************************************************************************)
(* Safety.                                                                 *)
(***************************************************************************)
\* The names of events and places, and the tuples of variables.
USE DEF EVENT_PICK_FINNISH, EVENT_POSITION_OK, EVENT_TOUCH_SCREEN,
        mainVars, guiVars, motorVars, servoVars, queues,
        ServoDone, ServoWaits, ServoOpens, MotorBefore, MotorTurns, MotorAfter,
        MotorPassed, MotorAsleep, One

(***************************************************************************)
(* What the three events do in a state of the invariant.                   *)
(***************************************************************************)
\* A touch only concerns the buzzer: the bits others wait for are not set.
LEMMA TouchSent ==
    ASSUME IInv, EventSend(EVENT_TOUCH_SCREEN), MotorResumes(EVENT_TOUCH_SCREEN)
    PROVE  /\ servo' = servo /\ motor' = motor
           /\ event' \subseteq event \cup {EVENT_TOUCH_SCREEN}
           /\ buzzer = "absent" => buzzer' = "absent"
           /\ EVENT_PICK_FINNISH \in event' <=> EVENT_PICK_FINNISH \in event
           /\ EVENT_POSITION_OK \in event' <=> EVENT_POSITION_OK \in event
<1>1. /\ motor = "wait_pick" => EVENT_PICK_FINNISH \notin event
      /\ servo = "wait_pick" => EVENT_PICK_FINNISH \notin event
  BY DEF IInv, PickBit
<1>2. servo = "wait_pos" => EVENT_POSITION_OK \notin event
  BY DEF IInv, Phases, TypeOK, MotorStates
<1>3. ~Served("servo", event \cup {EVENT_TOUCH_SCREEN})
  BY <1>1, <1>2 DEF Served, Awaits
<1>4. ~Served("motor", event \cup {EVENT_TOUCH_SCREEN})
  BY <1>1 DEF Served, Awaits
<1>5. servo' = servo /\ motor' = motor
  BY <1>3, <1>4 DEF EventSend, MotorResumes
<1>6. event' = (event \cup {EVENT_TOUCH_SCREEN})
                 \ UNION {Awaits(u) : u \in {v \in Clears : Served(v, event \cup {EVENT_TOUCH_SCREEN})}}
  BY DEF EventSend
<1>7. Awaits("buzzer") \subseteq {EVENT_TOUCH_SCREEN}
  BY DEF Awaits
<1>8. buzzer = "absent" => ~Served("buzzer", event \cup {EVENT_TOUCH_SCREEN})
  BY DEF Served, Awaits
<1>9. buzzer = "absent" => buzzer' = "absent"
  BY <1>8 DEF EventSend
<1> QED BY <1>3, <1>5, <1>6, <1>7, <1>9 DEF Clears

\* PICK_FINNISH resumes whoever waits for it; the servo clears it, the motor not.
LEMMA FinishSent ==
    ASSUME IInv, EventSend(EVENT_PICK_FINNISH), MotorResumes(EVENT_PICK_FINNISH)
    PROVE  /\ servo' = IF servo = "wait_pick" THEN "close" ELSE servo
           /\ motor' = IF motor = "wait_pick" THEN "pause" ELSE motor
           /\ EVENT_PICK_FINNISH \in event' <=> servo # "wait_pick"
           /\ EVENT_POSITION_OK \in event' <=> EVENT_POSITION_OK \in event
<1> DEFINE set == event \cup {EVENT_PICK_FINNISH}
<1>2. servo = "wait_pos" => EVENT_POSITION_OK \notin event
  BY DEF IInv, Phases, TypeOK, MotorStates
<1>3. Served("servo", set) <=> servo = "wait_pick"
  BY <1>2 DEF Served, Awaits, Clears, Prio
<1>4. Served("motor", set) <=> motor = "wait_pick"
  BY DEF Served, Awaits, Clears, Prio
<1>5. /\ servo' = IF servo = "wait_pick" THEN "close" ELSE servo
      /\ motor' = IF motor = "wait_pick" THEN "pause" ELSE motor
  BY <1>3, <1>4 DEF EventSend, MotorResumes
<1>6. event' = set \ UNION {Awaits(u) : u \in {v \in Clears : Served(v, set)}}
  BY DEF EventSend
<1>7. Awaits("buzzer") \subseteq {EVENT_TOUCH_SCREEN}
  BY DEF Awaits
<1>8. servo = "wait_pick" => Awaits("servo") = {EVENT_PICK_FINNISH}
  BY DEF Awaits
<1>9. EVENT_PICK_FINNISH \in event' <=> servo # "wait_pick"
  BY <1>3, <1>6, <1>7, <1>8 DEF Clears
<1>10. EVENT_POSITION_OK \in event' <=> EVENT_POSITION_OK \in event
  BY <1>3, <1>6, <1>7, <1>8 DEF Clears
<1> QED BY <1>5, <1>9, <1>10

\* POSITION_OK opens a door at once or stays set until the servo looks.
LEMMA PositionSent ==
    ASSUME IInv, motor = "pid", EventSend(EVENT_POSITION_OK)
    PROVE  /\ servo' = IF servo = "wait_pos" THEN "open" ELSE servo
           /\ EVENT_PICK_FINNISH \in event' <=> EVENT_PICK_FINNISH \in event
           /\ EVENT_POSITION_OK \in event' <=> servo # "wait_pos"
<1> DEFINE set == event \cup {EVENT_POSITION_OK}
<1>1. servo = "wait_pick" => EVENT_PICK_FINNISH \notin event
  BY DEF IInv, PickBit
<1>3. Served("servo", set) <=> servo = "wait_pos"
  BY <1>1 DEF Served, Awaits, Clears, Prio
<1>5. servo' = IF servo = "wait_pos" THEN "open" ELSE servo
  BY <1>3 DEF EventSend
<1>6. event' = set \ UNION {Awaits(u) : u \in {v \in Clears : Served(v, set)}}
  BY DEF EventSend
<1>7. Awaits("buzzer") \subseteq {EVENT_TOUCH_SCREEN}
  BY DEF Awaits
<1>8. servo = "wait_pos" => Awaits("servo") = {EVENT_POSITION_OK}
  BY DEF Awaits
<1>9. EVENT_POSITION_OK \in event' <=> servo # "wait_pos"
  BY <1>3, <1>6, <1>7, <1>8 DEF Clears
<1>10. EVENT_PICK_FINNISH \in event' <=> EVENT_PICK_FINNISH \in event
  BY <1>3, <1>6, <1>7, <1>8 DEF Clears
<1> QED BY <1>5, <1>9, <1>10

\* The delay list has at most two entries.
LEMMA DelayLists ==
    /\ Append(<<>>, "motor") = <<"motor">> /\ Append(<<>>, "servo") = <<"servo">>
    /\ Append(<<"motor">>, "servo") = <<"motor", "servo">>
    /\ Append(<<"servo">>, "motor") = <<"servo", "motor">>
    /\ Tail(<<"motor">>) = <<>> /\ Tail(<<"servo">>) = <<>>
    /\ Tail(<<"motor", "servo">>) = <<"servo">> /\ Tail(<<"servo", "motor">>) = <<"motor">>
    /\ Head(<<"motor">>) = "motor" /\ Head(<<"motor", "servo">>) = "motor"
    /\ Head(<<"servo">>) = "servo" /\ Head(<<"servo", "motor">>) = "servo"
    /\ <<"motor", "servo">> # <<"servo", "motor">>
<1> DEFINE S == {"motor", "servo"}
<1>1. ASSUME NEW x \in S, NEW y \in S
      PROVE  Append(<<x>>, y) = <<x, y>>
  <2>1. /\ Append(<<x>>, y) \in Seq(S) /\ Len(Append(<<x>>, y)) = 2
        /\ Append(<<x>>, y)[1] = x /\ Append(<<x>>, y)[2] = y
    OBVIOUS
  <2>2. /\ <<x, y>> \in Seq(S) /\ Len(<<x, y>>) = 2
        /\ <<x, y>>[1] = x /\ <<x, y>>[2] = y
    OBVIOUS
  <2>3. \A i \in 1 .. 2 : Append(<<x>>, y)[i] = <<x, y>>[i]
    BY <2>1, <2>2
  <2> HIDE DEF S
  <2> QED BY <2>1, <2>2, <2>3, SeqEqual
<1>2. ASSUME NEW x \in S, NEW y \in S
      PROVE  /\ Append(<<>>, x) = <<x>> /\ Tail(<<x>>) = <<>>
             /\ Tail(<<x, y>>) = <<y>> /\ Head(<<x>>) = x /\ Head(<<x, y>>) = x
  OBVIOUS
<1>3. <<"motor", "servo">> # <<"servo", "motor">>
  OBVIOUS
<1> QED BY <1>1, <1>2, <1>3

(***************************************************************************)
(* The steps.                                                              *)
(***************************************************************************)
\* main creates the event.
LEMMA InvCreateEvent ==
    ASSUME CabinetAssumption, IInv, CreateEvent, Busy, TypeOK'
    PROVE  IInv'
<1>1. Lead' = Lead /\ Lead \in Int
  BY DEF CreateEvent, Lead, IInv, TypeOK
<1>2. /\ NotStarted' /\ RoomToSend' /\ SleepersMatch'
      /\ MovesWhenDriven' /\ DoorMatches' /\ FinishCounts'
  BY DEF IInv, CreateEvent, NotStarted, QueuesExist, RoomToSend, SleepersMatch,
         MovesWhenDriven, DoorMatches, FinishCounts
<1>3. BusyMeans'
  BY DEF IInv, CreateEvent, BusyMeans, Busy, ServoReady
<1>4. Phases'
  BY <1>1 DEF IInv, CreateEvent, Phases
<1>5. PickBit'
  BY <1>1 DEF IInv, CreateEvent, PickBit, ServoOwes
<1>6. DelayOrder'
  BY DEF IInv, CreateEvent, DelayOrder, NotStarted, QueuesExist
<1> QED BY <1>2, <1>3, <1>4, <1>5, <1>6 DEF IInv

\* main opens the database, or waits for the flash.
LEMMA InvDatabaseInit ==
    ASSUME CabinetAssumption, IInv, DatabaseInit, Busy, TypeOK'
    PROVE  IInv'
<1>1. Lead' = Lead /\ Lead \in Int
  BY DEF DatabaseInit, Lead, IInv, TypeOK
<1>2. /\ NotStarted' /\ RoomToSend' /\ SleepersMatch'
      /\ MovesWhenDriven' /\ DoorMatches' /\ FinishCounts'
  BY DEF IInv, DatabaseInit, NotStarted, QueuesExist, RoomToSend, SleepersMatch,
         MovesWhenDriven, DoorMatches, FinishCounts
<1>3. BusyMeans'
  BY DEF IInv, DatabaseInit, BusyMeans, Busy, ServoReady
<1>4. Phases'
  BY <1>1 DEF IInv, DatabaseInit, Phases
<1>5. PickBit'
  BY <1>1 DEF IInv, DatabaseInit, PickBit, ServoOwes
<1>6. DelayOrder'
  BY DEF IInv, DatabaseInit, DelayOrder, NotStarted, QueuesExist
<1> QED BY <1>2, <1>3, <1>4, <1>5, <1>6 DEF IInv

\* main starts the buzzer and the servo and drives the carousel towards zero.
LEMMA InvStartThreads ==
    ASSUME CabinetAssumption, IInv, StartThreads, Busy, TypeOK'
    PROVE  IInv'
<1>1. Lead' = Lead /\ Lead \in Int
  BY DEF StartThreads, Lead, IInv, TypeOK
<1>2. NotStarted' /\ RoomToSend' /\ DoorMatches'
  BY DEF IInv, StartThreads, NotStarted, QueuesExist, RoomToSend, DoorMatches
<1>3. SleepersMatch'
  BY DEF IInv, StartThreads, SleepersMatch, NotStarted, QueuesExist
<1>4. BusyMeans'
  BY DEF IInv, StartThreads, BusyMeans, Busy, ServoReady
<1>5. MovesWhenDriven'
  BY DEF IInv, StartThreads, MovesWhenDriven, NotStarted, QueuesExist
<1>6. FinishCounts'
  BY DEF IInv, StartThreads, FinishCounts, NotStarted, QueuesExist
<1>7. Phases'
  BY DEF IInv, StartThreads, Phases, NotStarted, QueuesExist, Lead
<1>8. PickBit'
  BY DEF IInv, StartThreads, PickBit, NotStarted, QueuesExist
<1>9. DelayOrder'
  BY DEF IInv, StartThreads, DelayOrder, NotStarted, QueuesExist
<1> QED BY <1>2, <1>3, <1>4, <1>5, <1>6, <1>7, <1>8, <1>9 DEF IInv

\* The hall sensor is found and the motor thread starts.
LEMMA InvZeroFound ==
    ASSUME CabinetAssumption, IInv, ZeroFound, Busy, TypeOK'
    PROVE  IInv'
<1>1. Lead' = Lead /\ Lead \in Int
  BY DEF ZeroFound, Lead, IInv, TypeOK
<1>2. /\ NotStarted' /\ RoomToSend'
      /\ MovesWhenDriven' /\ DoorMatches' /\ FinishCounts'
  BY DEF IInv, ZeroFound, NotStarted, QueuesExist, RoomToSend, MovesWhenDriven,
         DoorMatches, FinishCounts
<1>3. SleepersMatch'
  BY DEF IInv, ZeroFound, SleepersMatch, MovesWhenDriven
<1>4. BusyMeans'
  BY DEF IInv, ZeroFound, BusyMeans, Busy, ServoReady
<1>5. Phases'
  BY <1>1 DEF IInv, ZeroFound, Phases, MovesWhenDriven
<1>6. PickBit'
  BY DEF IInv, ZeroFound, PickBit, MovesWhenDriven
<1>7. DelayOrder'
  BY DEF IInv, ZeroFound, DelayOrder, MovesWhenDriven
<1> QED BY <1>2, <1>3, <1>4, <1>5, <1>6, <1>7 DEF IInv

\* A new component: there is room in both queues.
LEMMA InvAddComponent ==
    ASSUME CabinetAssumption, User # "frantic", IInv, AddComponent, Busy, TypeOK'
    PROVE  IInv'
<1>1. Lead' = Lead /\ Lead \in Int
  BY DEF AddComponent, Lead, IInv, TypeOK
<1>2. /\ NotStarted' /\ SleepersMatch'
      /\ MovesWhenDriven' /\ DoorMatches' /\ FinishCounts'
  BY DEF IInv, AddComponent, NotStarted, QueuesExist, SleepersMatch,
         MovesWhenDriven, DoorMatches, FinishCounts
<1>3. RoomToSend'
  BY DEF IInv, AddComponent, RoomToSend, Asks
<1>4. BusyMeans'
  BY DEF IInv, AddComponent, BusyMeans, Busy, ServoReady
<1>5. Phases'
  BY <1>1 DEF IInv, AddComponent, Phases
<1>6. PickBit'
  BY <1>1 DEF IInv, AddComponent, PickBit, ServoOwes
<1>7. DelayOrder'
  BY <1>1 DEF IInv, AddComponent, DelayOrder, ServoOwes, LowMayRun, BusyMeans
<1> QED BY <1>2, <1>3, <1>4, <1>5, <1>6, <1>7 DEF IInv

\* A stored component: there is room in both queues.
LEMMA InvGetComponent ==
    ASSUME CabinetAssumption, User # "frantic", IInv, GetComponent, Busy, TypeOK'
    PROVE  IInv'
<1>1. Lead' = Lead /\ Lead \in Int
  BY DEF GetComponent, Lead, IInv, TypeOK
<1>2. /\ servo' = servo /\ motor' = motor
      /\ event' \subseteq event \cup {EVENT_TOUCH_SCREEN}
      /\ buzzer = "absent" => buzzer' = "absent"
      /\ EVENT_PICK_FINNISH \in event' <=> EVENT_PICK_FINNISH \in event
      /\ EVENT_POSITION_OK \in event' <=> EVENT_POSITION_OK \in event
  BY TouchSent DEF GetComponent
<1>3. NotStarted'
  BY <1>2 DEF IInv, GetComponent, NotStarted, QueuesExist
<1>4. RoomToSend'
  BY DEF IInv, GetComponent, RoomToSend, Asks
<1>5. SleepersMatch' /\ MovesWhenDriven' /\ DoorMatches' /\ FinishCounts' /\ Phases'
  BY <1>1, <1>2 DEF IInv, GetComponent, SleepersMatch, MovesWhenDriven, DoorMatches,
         FinishCounts, Phases
<1>6. BusyMeans'
  BY DEF IInv, GetComponent, BusyMeans, Busy, ServoReady
<1>7. PickBit'
  BY <1>1, <1>2 DEF IInv, GetComponent, PickBit, ServoOwes
<1>8. DelayOrder'
  BY <1>1, <1>2 DEF IInv, GetComponent, DelayOrder, ServoOwes, LowMayRun, BusyMeans
<1> QED BY <1>3, <1>4, <1>5, <1>6, <1>7, <1>8 DEF IInv

\* The position is queued, its layer still to be sent.
LEMMA InvSendMotor ==
    ASSUME CabinetAssumption, User # "frantic", IInv, SendMotor, Busy, TypeOK'
    PROVE  IInv'
<1>1. Lead' = Lead /\ Lead \in Int
  <2>1. /\ Len(motor_mq) \in Nat /\ Len(servo_mq) \in Nat
        /\ Len(motor_mq) < QueueDepth /\ gui = "send_motor"
    BY DEF SendMotor, IInv, TypeOK, RoomToSend
  <2>2. CASE QueuesExist
    <3>1. Len(motor_mq') = Len(motor_mq) + 1
      BY <2>1, <2>2 DEF SendMotor, IInv, TypeOK
    <3> QED BY <2>1, <2>2, <3>1 DEF SendMotor, Lead
  <2>3. CASE ~QueuesExist
    BY <2>1, <2>3 DEF SendMotor, Lead
  <2> QED BY <2>2, <2>3
<1>2. /\ NotStarted' /\ RoomToSend' /\ SleepersMatch'
      /\ MovesWhenDriven' /\ DoorMatches' /\ FinishCounts'
  BY DEF IInv, SendMotor, NotStarted, QueuesExist, RoomToSend, SleepersMatch,
         MovesWhenDriven, DoorMatches, FinishCounts
<1>3. BusyMeans'
  BY DEF IInv, SendMotor, BusyMeans, Busy, ServoReady
<1>4. Phases'
  BY <1>1 DEF IInv, SendMotor, Phases
<1>5. PickBit'
  BY <1>1 DEF IInv, SendMotor, PickBit, ServoOwes
<1>6. DelayOrder'
  BY <1>1 DEF IInv, SendMotor, DelayOrder, ServoOwes, LowMayRun, BusyMeans
<1> QED BY <1>2, <1>3, <1>4, <1>5, <1>6 DEF IInv

\* The layer is queued.
LEMMA InvSendServo ==
    ASSUME CabinetAssumption, User # "frantic", IInv, SendServo, Busy, TypeOK'
    PROVE  IInv'
<1>2. Len(servo_mq') = Len(servo_mq) + 1 /\ Len(servo_mq) \in Nat
  BY DEF SendServo, IInv, TypeOK, RoomToSend
<1>1. Lead' = Lead /\ Lead \in Int
  BY <1>2 DEF SendServo, Lead, IInv, TypeOK
<1>3. /\ NotStarted' /\ RoomToSend'
      /\ SleepersMatch' /\ MovesWhenDriven' /\ DoorMatches'
  BY DEF IInv, SendServo, NotStarted, QueuesExist, RoomToSend, SleepersMatch,
         MovesWhenDriven, DoorMatches
<1>4. BusyMeans'
  BY DEF IInv, SendServo, BusyMeans, Busy, ServoReady
<1>5. FinishCounts'
  BY DEF IInv, SendServo, FinishCounts, RoomToSend
<1>6. Phases'
  BY <1>1, <1>2 DEF IInv, SendServo, Phases
<1>7. PickBit'
  BY <1>1, <1>2 DEF IInv, SendServo, PickBit, ServoOwes
<1>8. DelayOrder'
  BY <1>1 DEF IInv, SendServo, DelayOrder, ServoOwes, LowMayRun, BusyMeans
<1> QED BY <1>3, <1>4, <1>5, <1>6, <1>7, <1>8 DEF IInv

\* A touch changes nobody's place but the buzzer's.
LEMMA InvScreenTouch ==
    ASSUME CabinetAssumption, IInv, ScreenTouch, Busy, TypeOK'
    PROVE  IInv'
<1>1. Lead' = Lead /\ Lead \in Int
  BY DEF ScreenTouch, Lead, IInv, TypeOK
<1>2. /\ servo' = servo /\ motor' = motor
      /\ event' \subseteq event \cup {EVENT_TOUCH_SCREEN}
      /\ buzzer = "absent" => buzzer' = "absent"
      /\ EVENT_PICK_FINNISH \in event' <=> EVENT_PICK_FINNISH \in event
      /\ EVENT_POSITION_OK \in event' <=> EVENT_POSITION_OK \in event
  BY TouchSent DEF ScreenTouch
<1>3. NotStarted'
  BY <1>2 DEF IInv, ScreenTouch, NotStarted, QueuesExist
<1>4. RoomToSend'
  BY DEF IInv, ScreenTouch, RoomToSend
<1>5. SleepersMatch' /\ MovesWhenDriven' /\ DoorMatches' /\ FinishCounts' /\ Phases'
  BY <1>1, <1>2 DEF IInv, ScreenTouch, SleepersMatch, MovesWhenDriven, DoorMatches,
         FinishCounts, Phases
<1>6. BusyMeans'
  BY DEF IInv, ScreenTouch, BusyMeans, Busy, ServoReady
<1>7. PickBit'
  BY <1>1, <1>2 DEF IInv, ScreenTouch, PickBit, ServoOwes
<1>8. DelayOrder'
  BY <1>1, <1>2 DEF IInv, ScreenTouch, DelayOrder, ServoOwes, LowMayRun, BusyMeans
<1> QED BY <1>3, <1>4, <1>5, <1>6, <1>7, <1>8 DEF IInv

\* Finish: whoever waits goes on.
LEMMA InvFinish ==
    ASSUME CabinetAssumption, IInv, Finish, Busy, TypeOK'
    PROVE  IInv'
<1>1. Lead' = Lead /\ Lead \in Int
  BY DEF Finish, Lead, IInv, TypeOK
<1>2. /\ servo' = IF servo = "wait_pick" THEN "close" ELSE servo
      /\ motor' = IF motor = "wait_pick" THEN "pause" ELSE motor
      /\ EVENT_PICK_FINNISH \in event' <=> servo # "wait_pick"
      /\ EVENT_POSITION_OK \in event' <=> EVENT_POSITION_OK \in event
  BY FinishSent DEF Finish
<1>3. NotStarted' /\ RoomToSend'
  BY DEF IInv, Finish, NotStarted, QueuesExist, RoomToSend
<1>4. SleepersMatch' /\ MovesWhenDriven' /\ DoorMatches' /\ FinishCounts' /\ Phases'
  BY <1>1, <1>2 DEF IInv, Finish, SleepersMatch, MovesWhenDriven, DoorMatches,
         FinishCounts, Phases
<1>5. BusyMeans'
  BY DEF IInv, Finish, BusyMeans, Busy, ServoReady
<1>6. PickBit'
  BY <1>2 DEF IInv, Finish, PickBit, ServoOwes, TypeOK, LowMayRun, MotorReady,
         Phases, MotorStates
<1>7. DelayOrder'
  BY <1>1, <1>2 DEF IInv, Finish, DelayOrder, ServoOwes, TypeOK, LowMayRun,
         MotorReady, BusyMeans, Phases, PickBit, MotorStates
<1> QED BY <1>3, <1>4, <1>5, <1>6, <1>7 DEF IInv

\* The motor takes a position: it is one request ahead if the servo is not.
LEMMA InvMotorRecv ==
    ASSUME CabinetAssumption, IInv, MotorRecv, Busy, TypeOK'
    PROVE  IInv'
<1>1. Lead' = Lead + 1 /\ Lead \in Int
  BY DEF MotorRecv, Lead, IInv, TypeOK
<1>2. /\ NotStarted' /\ RoomToSend' /\ SleepersMatch'
      /\ MovesWhenDriven' /\ DoorMatches' /\ FinishCounts'
  BY DEF IInv, MotorRecv, NotStarted, QueuesExist, RoomToSend, SleepersMatch,
         MovesWhenDriven, DoorMatches, FinishCounts
<1>3. BusyMeans'
  BY DEF IInv, MotorRecv, BusyMeans, Busy, ServoReady
<1>4. Phases'
  BY <1>1 DEF IInv, MotorRecv, Phases
<1>5. PickBit'
  BY DEF IInv, MotorRecv, PickBit, ServoOwes
<1>6. DelayOrder'
  BY DEF IInv, MotorRecv, DelayOrder, ServoOwes
<1> QED BY <1>2, <1>3, <1>4, <1>5, <1>6 DEF IInv

\* The motor sees the bit, or waits for it.
LEMMA InvMotorRecvPick ==
    ASSUME CabinetAssumption, IInv, MotorRecvPick, Busy, TypeOK'
    PROVE  IInv'
<1>1. Lead' = Lead /\ Lead \in Int
  BY DEF MotorRecvPick, Lead, IInv, TypeOK
<1>2. /\ NotStarted' /\ RoomToSend' /\ SleepersMatch'
      /\ MovesWhenDriven' /\ DoorMatches' /\ FinishCounts'
  BY DEF IInv, MotorRecvPick, NotStarted, QueuesExist, RoomToSend, SleepersMatch,
         MovesWhenDriven, DoorMatches, FinishCounts
<1>3. BusyMeans'
  BY DEF IInv, MotorRecvPick, BusyMeans, Busy, ServoReady
<1>4. Phases'
  BY <1>1 DEF IInv, MotorRecvPick, Phases
<1>5. PickBit'
  BY DEF IInv, MotorRecvPick, PickBit, ServoOwes
<1>6. DelayOrder'
  BY DEF IInv, MotorRecvPick, DelayOrder, ServoOwes
<1> QED BY <1>2, <1>3, <1>4, <1>5, <1>6 DEF IInv

\* The motor begins its delay.
LEMMA InvMotorPause ==
    ASSUME CabinetAssumption, IInv, MotorPause, Busy, TypeOK'
    PROVE  IInv'
<1>1. Lead' = Lead /\ Lead \in Int
  BY DEF MotorPause, Lead, IInv, TypeOK
<1>2. servo = "recv" /\ Lead = 1 => servo_mq # <<>>
  BY DEF IInv, MotorPause, TypeOK, FinishCounts, PickBit, ServoOwes
<1>3. /\ NotStarted' /\ RoomToSend'
      /\ MovesWhenDriven' /\ DoorMatches' /\ FinishCounts'
  BY DEF IInv, MotorPause, NotStarted, QueuesExist, RoomToSend, MovesWhenDriven,
         DoorMatches, FinishCounts
<1>4. SleepersMatch'
  BY DelayLists DEF IInv, MotorPause, SleepersMatch
<1>5. BusyMeans'
  BY DEF IInv, MotorPause, BusyMeans, Busy, ServoReady
<1>6. Phases'
  BY <1>1, <1>2 DEF IInv, MotorPause, Phases
<1>7. PickBit'
  BY <1>1, <1>2 DEF IInv, MotorPause, PickBit, ServoOwes
<1>8. DelayOrder'
  BY <1>1, <1>2 DEF IInv, MotorPause, DelayOrder, ServoOwes, ServoReady, Busy
<1> QED BY <1>3, <1>4, <1>5, <1>6, <1>7, <1>8 DEF IInv

\* The servo closes all doors.
LEMMA InvServoInit ==
    ASSUME CabinetAssumption, IInv, ServoInit, Busy, TypeOK'
    PROVE  IInv'
<1>1. Lead' = Lead /\ Lead \in Int
  BY DEF ServoInit, Lead, IInv, TypeOK
<1>2. /\ NotStarted' /\ RoomToSend' /\ SleepersMatch'
      /\ MovesWhenDriven' /\ DoorMatches' /\ FinishCounts'
  BY DEF IInv, ServoInit, NotStarted, QueuesExist, RoomToSend, SleepersMatch,
         MovesWhenDriven, DoorMatches, FinishCounts
<1>3. BusyMeans'
  BY DEF IInv, ServoInit, BusyMeans, Busy, ServoReady
<1>4. Phases'
  BY <1>1 DEF IInv, ServoInit, Phases
<1>5. PickBit'
  BY <1>1 DEF IInv, ServoInit, PickBit, ServoOwes
<1>6. DelayOrder'
  BY <1>1 DEF IInv, ServoInit, DelayOrder, ServoOwes, TypeOK, FinishCounts, PickBit,
         ServoReady, Busy
<1> QED BY <1>2, <1>3, <1>4, <1>5, <1>6 DEF IInv

\* The servo takes a layer: it catches up with the motor or gets ahead.
LEMMA InvServoRecv ==
    ASSUME CabinetAssumption, IInv, ServoRecv, Busy, TypeOK'
    PROVE  IInv'
<1>2. Len(servo_mq') = Len(servo_mq) - 1 /\ Len(servo_mq) \in Nat \ {0}
  BY DEF ServoRecv, IInv, TypeOK
<1>1. Lead' = Lead - 1 /\ Lead \in Int
  BY <1>2 DEF ServoRecv, Lead, IInv, TypeOK
<1>3. /\ NotStarted' /\ RoomToSend' /\ SleepersMatch'
      /\ MovesWhenDriven' /\ DoorMatches' /\ FinishCounts'
  BY DEF IInv, ServoRecv, NotStarted, QueuesExist, RoomToSend, SleepersMatch,
         MovesWhenDriven, DoorMatches, FinishCounts
<1>4. BusyMeans'
  BY DEF IInv, ServoRecv, BusyMeans, Busy, ServoReady
<1>5. Phases'
  BY <1>1 DEF IInv, ServoRecv, Phases
<1>6. PickBit'
  BY DEF IInv, ServoRecv, PickBit, ServoOwes, Phases
<1>7. DelayOrder'
  BY DEF IInv, ServoRecv, DelayOrder, ServoOwes, Phases, ServoReady, Busy
<1> QED BY <1>3, <1>4, <1>5, <1>6, <1>7 DEF IInv

\* The servo sees POSITION_OK, or waits for it.
LEMMA InvServoRecvPos ==
    ASSUME CabinetAssumption, IInv, ServoRecvPos, Busy, TypeOK'
    PROVE  IInv'
<1>1. Lead' = Lead /\ Lead \in Int
  BY DEF ServoRecvPos, ServoRecvEvent, Lead, IInv, TypeOK
<1>2. /\ NotStarted' /\ RoomToSend' /\ SleepersMatch'
      /\ MovesWhenDriven' /\ DoorMatches' /\ FinishCounts'
  BY DEF IInv, ServoRecvPos, ServoRecvEvent, NotStarted, QueuesExist, RoomToSend,
         SleepersMatch, MovesWhenDriven, DoorMatches, FinishCounts
<1>3. BusyMeans'
  BY DEF IInv, ServoRecvPos, ServoRecvEvent, BusyMeans, Busy, ServoReady
<1>4. Phases'
  BY <1>1 DEF IInv, ServoRecvPos, ServoRecvEvent, Phases
<1>5. PickBit'
  BY DEF IInv, ServoRecvPos, ServoRecvEvent, PickBit, ServoOwes
<1>6. DelayOrder'
  BY DEF IInv, ServoRecvPos, ServoRecvEvent, DelayOrder, ServoOwes, ServoReady, Busy
<1> QED BY <1>2, <1>3, <1>4, <1>5, <1>6 DEF IInv

\* The door opens.
LEMMA InvServoOpen ==
    ASSUME CabinetAssumption, IInv, ServoOpen, Busy, TypeOK'
    PROVE  IInv'
<1>1. Lead' = Lead /\ Lead \in Int
  BY DEF ServoOpen, Lead, IInv, TypeOK
<1>2. /\ NotStarted' /\ RoomToSend' /\ SleepersMatch'
      /\ MovesWhenDriven' /\ DoorMatches' /\ FinishCounts'
  BY DEF IInv, ServoOpen, NotStarted, QueuesExist, RoomToSend, SleepersMatch,
         MovesWhenDriven, DoorMatches, FinishCounts
<1>3. BusyMeans'
  BY DEF IInv, ServoOpen, BusyMeans, Busy, ServoReady
<1>4. Phases'
  BY <1>1 DEF IInv, ServoOpen, Phases
<1>5. PickBit'
  BY DEF IInv, ServoOpen, PickBit, ServoOwes
<1>6. DelayOrder'
  BY DEF IInv, ServoOpen, DelayOrder, ServoOwes, ServoReady, Busy
<1> QED BY <1>2, <1>3, <1>4, <1>5, <1>6 DEF IInv

\* The servo consumes PICK_FINNISH, or waits for it.
LEMMA InvServoRecvPick ==
    ASSUME CabinetAssumption, IInv, ServoRecvPick, Busy, TypeOK'
    PROVE  IInv'
<1>1. Lead' = Lead /\ Lead \in Int
  BY DEF ServoRecvPick, ServoRecvEvent, Lead, IInv, TypeOK
<1>2. /\ NotStarted' /\ RoomToSend' /\ SleepersMatch'
      /\ MovesWhenDriven' /\ DoorMatches' /\ FinishCounts'
  BY DEF IInv, ServoRecvPick, ServoRecvEvent, NotStarted, QueuesExist, RoomToSend,
         SleepersMatch, MovesWhenDriven, DoorMatches, FinishCounts
<1>3. BusyMeans'
  BY DEF IInv, ServoRecvPick, ServoRecvEvent, BusyMeans, Busy, ServoReady
<1>4. Phases'
  BY <1>1 DEF IInv, ServoRecvPick, ServoRecvEvent, Phases
<1>5. PickBit'
  BY DEF IInv, ServoRecvPick, ServoRecvEvent, PickBit, ServoOwes, TypeOK,
         ServoMayRun, MotorReady, Phases, MotorStates
<1>6. DelayOrder'
  BY <1>1 DEF IInv, ServoRecvPick, ServoRecvEvent, DelayOrder, ServoOwes, TypeOK,
         ServoMayRun, MotorReady, Phases, PickBit, ServoReady, Busy, MotorStates
<1> QED BY <1>2, <1>3, <1>4, <1>5, <1>6 DEF IInv

\* The door closes.
LEMMA InvServoClose ==
    ASSUME CabinetAssumption, IInv, ServoClose, Busy, TypeOK'
    PROVE  IInv'
<1>1. Lead' = Lead /\ Lead \in Int
  BY DEF ServoClose, Lead, IInv, TypeOK
<1>2. /\ NotStarted' /\ RoomToSend' /\ SleepersMatch'
      /\ MovesWhenDriven' /\ DoorMatches' /\ FinishCounts'
  BY DEF IInv, ServoClose, NotStarted, QueuesExist, RoomToSend, SleepersMatch,
         MovesWhenDriven, DoorMatches, FinishCounts
<1>3. BusyMeans'
  BY DEF IInv, ServoClose, BusyMeans, Busy, ServoReady
<1>4. Phases'
  BY <1>1 DEF IInv, ServoClose, Phases, PickBit
<1>5. PickBit'
  BY <1>1 DEF IInv, ServoClose, PickBit, ServoOwes, Phases
<1>6. DelayOrder'
  BY <1>1 DEF IInv, ServoClose, DelayOrder, ServoReady, Busy
<1> QED BY <1>2, <1>3, <1>4, <1>5, <1>6 DEF IInv

\* The servo begins its delay.
LEMMA InvServoPause ==
    ASSUME CabinetAssumption, IInv, ServoPause, Busy, TypeOK'
    PROVE  IInv'
<1>1. Lead' = Lead /\ Lead \in Int
  BY DEF ServoPause, Lead, IInv, TypeOK
<1>2. /\ NotStarted' /\ RoomToSend'
      /\ MovesWhenDriven' /\ DoorMatches' /\ FinishCounts'
  BY DEF IInv, ServoPause, NotStarted, QueuesExist, RoomToSend, MovesWhenDriven,
         DoorMatches, FinishCounts
<1>3. SleepersMatch'
  BY DelayLists DEF IInv, ServoPause, SleepersMatch
<1>4. BusyMeans'
  BY DEF IInv, ServoPause, BusyMeans, Busy, ServoReady
<1>5. Phases'
  BY <1>1 DEF IInv, ServoPause, Phases
<1>6. PickBit'
  BY <1>1 DEF IInv, ServoPause, PickBit, ServoOwes
<1>7. DelayOrder'
  BY DelayLists, <1>1 DEF IInv, ServoPause, DelayOrder, ServoMayRun, MotorReady,
         SleepersMatch
<1> QED BY <1>2, <1>3, <1>4, <1>5, <1>6, <1>7 DEF IInv

\* The buzzer only clears its own bit.
LEMMA InvBuzzerRecv ==
    ASSUME CabinetAssumption, IInv, BuzzerRecv, Busy, TypeOK'
    PROVE  IInv'
<1>1. Lead' = Lead /\ Lead \in Int
  BY DEF BuzzerRecv, Lead, IInv, TypeOK
<1>2. /\ NotStarted' /\ RoomToSend' /\ SleepersMatch'
      /\ MovesWhenDriven' /\ DoorMatches' /\ FinishCounts'
  BY DEF IInv, BuzzerRecv, NotStarted, QueuesExist, RoomToSend, SleepersMatch,
         MovesWhenDriven, DoorMatches, FinishCounts
<1>3. BusyMeans'
  BY DEF IInv, BuzzerRecv, BusyMeans, Busy, ServoReady
<1>4. Phases'
  BY <1>1 DEF IInv, BuzzerRecv, Phases
<1>5. PickBit'
  BY <1>1 DEF IInv, BuzzerRecv, PickBit, ServoOwes
<1>6. DelayOrder'
  BY <1>1 DEF IInv, BuzzerRecv, DelayOrder, ServoOwes, LowMayRun, BusyMeans
<1> QED BY <1>2, <1>3, <1>4, <1>5, <1>6 DEF IInv

\* The pin goes low.
LEMMA InvBuzzerQuiet ==
    ASSUME CabinetAssumption, IInv, BuzzerQuiet, Busy, TypeOK'
    PROVE  IInv'
<1>1. Lead' = Lead /\ Lead \in Int
  BY DEF BuzzerQuiet, Lead, IInv, TypeOK
<1>2. /\ NotStarted' /\ RoomToSend' /\ SleepersMatch'
      /\ MovesWhenDriven' /\ DoorMatches' /\ FinishCounts'
  BY DEF IInv, BuzzerQuiet, NotStarted, QueuesExist, RoomToSend, SleepersMatch,
         MovesWhenDriven, DoorMatches, FinishCounts
<1>3. BusyMeans'
  BY DEF IInv, BuzzerQuiet, BusyMeans, Busy, ServoReady
<1>4. Phases'
  BY <1>1 DEF IInv, BuzzerQuiet, Phases
<1>5. PickBit'
  BY <1>1 DEF IInv, BuzzerQuiet, PickBit, ServoOwes
<1>6. DelayOrder'
  BY <1>1 DEF IInv, BuzzerQuiet, DelayOrder, ServoOwes, LowMayRun, BusyMeans
<1> QED BY <1>2, <1>3, <1>4, <1>5, <1>6 DEF IInv

\* The delay that began first ends.
LEMMA InvWakeUp ==
    ASSUME CabinetAssumption, IInv, WakeUp, Busy, TypeOK'
    PROVE  IInv'
<1>1. Lead' = Lead /\ Lead \in Int
  BY DEF WakeUp, Lead, IInv, TypeOK
<1>2. NotStarted' /\ RoomToSend'
  BY DEF IInv, WakeUp, NotStarted, QueuesExist, RoomToSend
<1>3. SleepersMatch'
  BY DelayLists DEF IInv, WakeUp, SleepersMatch
<1>4. BusyMeans'
  BY DEF IInv, WakeUp, BusyMeans, Busy, ServoReady
<1>5. MovesWhenDriven'
  BY DEF IInv, WakeUp, MovesWhenDriven, SleepersMatch
<1>6. DoorMatches'
  BY DEF IInv, WakeUp, DoorMatches, SleepersMatch
<1>7. FinishCounts'
  BY DEF IInv, WakeUp, FinishCounts, SleepersMatch
<1>8. Phases'
  BY <1>1 DEF IInv, WakeUp, Phases, SleepersMatch, PickBit, DelayOrder, ServoOwes
<1>9. PickBit'
  BY DEF IInv, WakeUp, PickBit, SleepersMatch, DelayOrder
<1>10. DelayOrder'
  BY DEF IInv, WakeUp, DelayOrder, SleepersMatch
<1> QED BY <1>2, <1>3, <1>4, <1>5, <1>6, <1>7, <1>8, <1>9, <1>10 DEF IInv

\* A sample of the PID loop: the position is reported, or the motor sleeps on.
LEMMA InvPid ==
    ASSUME CabinetAssumption, IInv, Pid, Busy, TypeOK'
    PROVE  IInv'
<1>1. PICK p \in Slots \cup {Between} : PidSample(p)
  BY DEF Pid
<1>2. /\ motor = "pid" /\ MotorMayRun
      /\ UNCHANGED <<mainVars, guiVars, queues, target, layer, door, pending, confirmed>>
  BY <1>1 DEF PidSample
<1>3. Lead' = Lead /\ Lead \in Int
  BY <1>2 DEF Lead, IInv, TypeOK
<1>4. /\ NotStarted' /\ RoomToSend' /\ main # "zeroing" /\ QueuesExist
  BY <1>2 DEF IInv, NotStarted, RoomToSend, QueuesExist, MovesWhenDriven
<1>5. CASE EventSend(EVENT_POSITION_OK) /\ t' = 0 /\ moving' = FALSE
           /\ motor' = "recv_pick" /\ UNCHANGED sleepers
           /\ (t + 1) % CounterMod = Settle
  <2>1. /\ servo' = IF servo = "wait_pos" THEN "open" ELSE servo
        /\ EVENT_PICK_FINNISH \in event' <=> EVENT_PICK_FINNISH \in event
        /\ EVENT_POSITION_OK \in event' <=> servo # "wait_pos"
    BY <1>2, <1>5, PositionSent
  <2>2. servo # "asleep"
    <3>1. (0 + 1) % CounterMod # Settle
      BY CabinetAssumption DEF CabinetAssumption
    <3>2. servo = "asleep" => t = 0
      BY <1>2 DEF IInv, DelayOrder
    <3> QED BY <1>5, <3>1, <3>2
  <2>3. SleepersMatch'
    BY <1>2, <1>5, <2>1 DEF IInv, SleepersMatch
  <2>4. BusyMeans'
    BY DEF BusyMeans, Busy
  <2>5. MovesWhenDriven' /\ DoorMatches'
    BY <1>2, <1>4, <1>5, <2>1 DEF IInv, MovesWhenDriven, DoorMatches
  <2>6. FinishCounts'
    BY <1>2, <2>1 DEF IInv, TypeOK, FinishCounts
  <2>7. Phases'
    BY <1>2, <1>3, <1>5, <2>1 DEF IInv, Phases
  <2>8. PickBit'
    BY <1>2, <1>3, <1>5, <2>1 DEF IInv, PickBit, Phases, TypeOK, ServoStates
  <2>9. DelayOrder'
    BY <1>2, <1>3, <1>5, <2>1, <2>2 DEF IInv, DelayOrder, Phases
  <2> QED BY <1>4, <2>3, <2>4, <2>5, <2>6, <2>7, <2>8, <2>9 DEF IInv
<1>6. CASE motor' = "asleep_pid" /\ sleepers' = Append(sleepers, "motor")
           /\ UNCHANGED <<event, servo, buzzer>>
  <2>1. SleepersMatch'
    BY <1>2, <1>6, DelayLists DEF IInv, SleepersMatch
  <2>2. BusyMeans'
    BY DEF BusyMeans, Busy
  <2>3. MovesWhenDriven' /\ DoorMatches'
    BY <1>2, <1>4, <1>6 DEF IInv, MovesWhenDriven, DoorMatches
  <2>4. FinishCounts'
    BY <1>2, <1>6 DEF IInv, FinishCounts
  <2>5. Phases'
    BY <1>2, <1>3, <1>6 DEF IInv, Phases
  <2>6. PickBit'
    BY <1>2, <1>6 DEF IInv, PickBit
  <2>7. DelayOrder'
    BY <1>2, <1>3, <1>6, DelayLists DEF IInv, DelayOrder, SleepersMatch
  <2> QED BY <1>4, <2>1, <2>2, <2>3, <2>4, <2>5, <2>6, <2>7 DEF IInv
<1> QED BY <1>1, <1>5, <1>6 DEF PidSample

(***************************************************************************)
(* The invariant, and what it is for.                                      *)
(***************************************************************************)
LEMMA IInvInit == CabinetAssumption /\ Init => IInv
<1> SUFFICES ASSUME CabinetAssumption, Init PROVE IInv
  OBVIOUS
<1>1. TypeOK
  BY TypeInit
<1>2. NotStarted /\ RoomToSend /\ BusyMeans /\ MovesWhenDriven /\ DoorMatches
  BY DEF Init, NotStarted, RoomToSend, BusyMeans, MovesWhenDriven, DoorMatches,
         QueuesExist
<1>3. SleepersMatch /\ FinishCounts /\ Phases /\ PickBit
  BY DEF Init, SleepersMatch, FinishCounts, Phases, PickBit
<1>4. DelayOrder
  BY DEF Init, DelayOrder
<1> QED BY <1>1, <1>2, <1>3, <1>4 DEF IInv

LEMMA IInvStep ==
    ASSUME CabinetAssumption, User # "frantic", IInv, [Next]_vars PROVE IInv'
<1>1. TypeOK'
  BY TypeStep DEF IInv
<1>2. CASE Next
  <2>1. CASE Start /\ Busy
    BY <1>1, <2>1, InvCreateEvent, InvDatabaseInit, InvStartThreads, InvZeroFound
       DEF Start
  <2>2. CASE Gui /\ Busy
    BY <1>1, <2>2, InvAddComponent, InvGetComponent, InvSendMotor, InvSendServo,
       InvScreenTouch, InvFinish DEF Gui
  <2>3. CASE Motor /\ Busy
    BY <1>1, <2>3, InvMotorRecv, InvPid, InvMotorRecvPick, InvMotorPause DEF Motor
  <2>4. CASE Servo /\ Busy
    BY <1>1, <2>4, InvServoInit, InvServoRecv, InvServoRecvPos, InvServoOpen,
       InvServoRecvPick, InvServoClose, InvServoPause DEF Servo
  <2>5. CASE (BuzzerRecv \/ BuzzerQuiet \/ WakeUp) /\ Busy
    BY <1>1, <2>5, InvBuzzerRecv, InvBuzzerQuiet, InvWakeUp
  <2> QED BY <1>2, <2>1, <2>2, <2>3, <2>4, <2>5 DEF Next, Step
<1>3. CASE UNCHANGED vars
  BY <1>3 DEF vars, IInv, TypeOK, NotStarted, RoomToSend, SleepersMatch, BusyMeans,
         MovesWhenDriven, DoorMatches, FinishCounts, Phases, PickBit, DelayOrder,
         ServoOwes, Lead, QueuesExist, ServoReady
<1> QED BY <1>2, <1>3

\* A door that is open is the only one, and the carousel stands still.
LEMMA IInvGivesStill == IInv => DoorOpenIsStill
BY DEF IInv, DoorOpenIsStill, DoorMatches, MovesWhenDriven, Phases, PickBit, NotStarted,
       QueuesExist, TypeOK, MotorStates

\* However many slots, however deep the queues and however long the settling: for a
\* user who never sends to a full queue, no door is open while the carousel turns.
THEOREM CabinetStill ==
    ASSUME User # "frantic" PROVE Spec => []DoorOpenIsStill
<1>1. Init => IInv
  BY IInvInit, CabinetAssumption
<1>2. IInv /\ [Next]_vars => IInv'
  BY IInvStep, CabinetAssumption
<1>3. IInv => DoorOpenIsStill
  BY IInvGivesStill
<1> QED BY <1>1, <1>2, <1>3, PTL DEF Spec

\* The motor raises POSITION_OK only when the servo has consumed the one before.
THEOREM CabinetNoPositionMerged ==
    ASSUME User # "frantic" PROVE Spec => NoPositionMerged
<1>1. Init => IInv
  BY IInvInit, CabinetAssumption
<1>2. IInv /\ [Next]_vars => IInv'
  BY IInvStep, CabinetAssumption
<1>3. IInv => (motor = "pid" /\ motor' = "recv_pick" /\ servo # "absent"
                 => EVENT_POSITION_OK \notin event)
  BY DEF IInv, Phases
<1> QED BY <1>1, <1>2, <1>3, PTL DEF Spec, NoPositionMerged
(***************************************************************************)
(* The requests: what is on its way in the two queues, the target and the  *)
(* layer are the requests without a door, in the order they were made.     *)
(***************************************************************************)
\* What a step leaves alone that no message, no request and no door is part of.
LEMMA OrderStays ==
    ASSUME RequestsInOrder, UNCHANGED <<pending, motor_mq, servo_mq, op, target, layer>>,
           QueuesExist' <=> QueuesExist, gui' = "send_servo" <=> gui = "send_servo",
           servo # "absent" \/ servo' = "absent",
           servo' \in ServoWaits \cup {"open"} <=> servo \in ServoWaits \cup {"open"},
           motor' \in MotorAfter => at' = target
    PROVE  RequestsInOrder'
BY DEF RequestsInOrder, Held

LEMMA OrderStart == ASSUME IInv, RequestsInOrder, Start PROVE RequestsInOrder'
<1>1. CASE CreateEvent \/ DatabaseInit
  BY <1>1, OrderStays DEF CreateEvent, DatabaseInit, QueuesExist, RequestsInOrder
<1>2. CASE StartThreads
  <2>1. /\ pending = <<>> /\ motor_mq = <<>> /\ servo_mq = <<>> /\ motor = "absent"
        /\ gui # "send_servo"
    BY <1>2 DEF StartThreads, QueuesExist, RequestsInOrder, IInv, NotStarted
  <2> QED BY <1>2, <2>1 DEF StartThreads, RequestsInOrder, Held
<1>3. CASE ZeroFound
  BY <1>3, OrderStays DEF ZeroFound, QueuesExist
<1> QED BY <1>1, <1>2, <1>3 DEF Start

\* The places where the threads stand say whether the motor has taken the oldest
\* request already.
LEMMA MotorAhead ==
    ASSUME IInv, RequestsInOrder, servo # "absent"
    PROVE  /\ Len(pending) \in Nat /\ Len(motor_mq) \in Nat /\ Len(servo_mq) \in Nat
           /\ Len(pending) - Len(motor_mq) = Held + Lead
           /\ motor \in MotorBefore => Len(pending) = Len(motor_mq)
           /\ motor \in MotorTurns => Len(pending) = Len(motor_mq) + 1
           /\ servo = "open" => Len(pending) = Len(motor_mq) + 1 /\ motor \in MotorAfter
<1>1. /\ pending \in Seq(Keys) /\ motor_mq \in Seq(Slots) /\ servo_mq \in Seq(Layers)
      /\ motor \in MotorStates /\ servo \in ServoStates
  BY DEF IInv, TypeOK
<1>2. Len(pending) \in Nat /\ Len(motor_mq) \in Nat /\ Len(servo_mq) \in Nat
  BY <1>1
<1>3. Len(pending) - Len(motor_mq) = Held + Lead
  <2>1. Len(pending) = Held + Len(servo_mq) + One(gui = "send_servo")
    BY DEF RequestsInOrder
  <2>2. Held \in Nat /\ One(gui = "send_servo") \in Nat
    BY DEF Held
  <2> HIDE DEF One
  <2> QED BY <1>2, <2>1, <2>2 DEF Lead
<1>4. Lead \in Int
  BY <1>2 DEF Lead
<1>5. /\ motor \in MotorBefore => Held + Lead = 0
      /\ motor \in MotorTurns => Held + Lead = 1
      /\ servo = "open" => Held + Lead = 1 /\ motor \in MotorAfter
  BY <1>1, <1>4 DEF IInv, Phases, Held, MotorStates
<1> QED BY <1>2, <1>3, <1>4, <1>5

LEMMA OrderSendMotor ==
    ASSUME User # "frantic", IInv, RequestsInOrder, SendMotor
    PROVE  RequestsInOrder'
<1>1. CASE ~ QueuesExist
  BY <1>1, OrderStays DEF SendMotor, QueuesExist, IInv, NotStarted
<1>2. CASE QueuesExist
  <2>1. /\ motor_mq' = Append(motor_mq, PosOf(op)) /\ gui = "send_motor" /\ gui' = "send_servo"
        /\ pending' = Append(pending, op) /\ QueuesExist'
        /\ UNCHANGED <<servo_mq, op, target, layer, servo, motor, at>>
    BY <1>2 DEF SendMotor, IInv, RoomToSend, QueuesExist
  <2>2. CASE servo = "absent"
    BY <2>1, <2>2 DEF RequestsInOrder
  <2>3. CASE servo # "absent"
    <3> DEFINE n == Len(pending)
               k == Len(motor_mq)
    <3>1. /\ pending \in Seq(Keys) /\ motor_mq \in Seq(Slots) /\ op \in Keys /\ PosOf(op) \in Slots
          /\ n \in Nat /\ k \in Nat /\ Len(servo_mq) \in Nat
      BY CabinetAssumption, SlotSplits DEF IInv, TypeOK
    <3>2. /\ Len(pending') = n + 1 /\ pending'[n + 1] = op
          /\ \A i \in 1 .. n : pending'[i] = pending[i]
          /\ Len(motor_mq') = k + 1 /\ motor_mq'[k + 1] = PosOf(op)
          /\ \A i \in 1 .. k : motor_mq'[i] = motor_mq[i]
      BY <2>1, <3>1
    <3>3. n = Held + Len(servo_mq) /\ Held \in {0, 1} /\ Held' = Held
      BY <2>1, <2>3 DEF RequestsInOrder, Held
    <3>4. k <= n
      <4>1. Phases /\ motor \in MotorStates /\ servo \in ServoStates
        BY DEF IInv, TypeOK
      <4>2. Lead \in Int /\ Held \in Int
        BY <3>1 DEF Lead, Held
      <4>3. Held + Lead >= 0
        BY <2>3, <4>1, <4>2 DEF Phases, MotorStates, Held
      <4> QED BY <2>3, <3>1, <4>2, <4>3, MotorAhead
    <3> HIDE DEF n, k
    <3>5. Held = 1 => layer = LayerOf(pending'[1])
      <4>1. Held = 1 => layer = LayerOf(pending[1])
        BY <2>3 DEF RequestsInOrder
      <4>2. Held = 1 => 1 \in 1 .. n
        BY <3>1, <3>3
      <4> QED BY <3>2, <4>1, <4>2
    <3>6. \A i \in 1 .. Len(servo_mq) : servo_mq[i] = LayerOf(pending'[Held + i])
      BY <2>3, <3>1, <3>2, <3>3 DEF RequestsInOrder
    <3>7. ASSUME NEW i \in 1 .. k + 1 PROVE motor_mq'[i] = PosOf(pending'[n - k + i])
      <4>1. CASE i = k + 1
        BY <3>1, <3>2, <4>1
      <4>2. CASE i # k + 1
        <5>1. i \in 1 .. k /\ n - k + i \in 1 .. n
          BY <3>1, <3>4, <4>2
        <5> QED BY <2>3, <3>2, <5>1 DEF RequestsInOrder, n, k
      <4> QED BY <4>1, <4>2
    <3>8. n + 1 > k + 1 => target = PosOf(pending'[1])
      <4>1. n > k => target = PosOf(pending[1]) /\ 1 \in 1 .. n
        BY <2>3, <3>1 DEF RequestsInOrder, n, k
      <4> QED BY <3>1, <3>2, <4>1
    <3>9. n + 1 - (k + 1) = n - k
      BY <3>1
    <3>10. Len(pending') = Held + Len(servo_mq) + 1
      BY <3>1, <3>2, <3>3
    <3>11. motor \in MotorAfter => at = target
      BY DEF RequestsInOrder
    <3>12. \A i \in 1 .. Len(motor_mq') :
              motor_mq'[i] = PosOf(pending'[Len(pending') - Len(motor_mq') + i])
      <4>1. \A i \in 1 .. k + 1 : Len(pending') - Len(motor_mq') + i = n - k + i
        BY <3>1, <3>2, <3>9
      <4> QED BY <3>2, <3>7, <4>1
    <3>13. /\ op = pending'[Len(pending')]
           /\ Len(pending') > Len(motor_mq') => target = PosOf(pending'[1])
      BY <3>2, <3>8
    <3> QED BY <2>1, <3>3, <3>5, <3>6, <3>10, <3>11, <3>12, <3>13 DEF RequestsInOrder
  <2> QED BY <2>2, <2>3
<1> QED BY <1>1, <1>2

LEMMA OrderSendServo ==
    ASSUME User # "frantic", IInv, RequestsInOrder, SendServo
    PROVE  RequestsInOrder'
<1>1. /\ servo_mq' = Append(servo_mq, LayerOf(op)) /\ gui = "send_servo" /\ gui' # "send_servo"
      /\ UNCHANGED <<motor_mq, pending, main, op, target, layer, servo, motor, at>>
  BY DEF SendServo, IInv, RoomToSend
<1>2. QueuesExist
  BY <1>1 DEF IInv, NotStarted
<1>3. CASE servo = "absent"
  BY <1>1, <1>2, <1>3 DEF RequestsInOrder, QueuesExist
<1>4. CASE servo # "absent"
  <2>1. /\ servo_mq \in Seq(Layers) /\ op \in Keys /\ LayerOf(op) \in Layers
        /\ Len(servo_mq) \in Nat
    BY CabinetAssumption, SlotSplits DEF IInv, TypeOK
  <2>2. /\ Len(servo_mq') = Len(servo_mq) + 1 /\ servo_mq'[Len(servo_mq) + 1] = LayerOf(op)
        /\ \A i \in 1 .. Len(servo_mq) : servo_mq'[i] = servo_mq[i]
    BY <1>1, <2>1
  <2>3. Held' = Held /\ Held \in {0, 1} /\ Len(pending) = Held + Len(servo_mq) + 1
    BY <1>1, <1>4 DEF RequestsInOrder, Held
  <2>4. ASSUME NEW i \in 1 .. Len(servo_mq) + 1
        PROVE  servo_mq'[i] = LayerOf(pending[Held + i])
    <3>1. CASE i = Len(servo_mq) + 1
      BY <1>1, <1>4, <2>1, <2>2, <2>3, <3>1 DEF RequestsInOrder
    <3>2. CASE i # Len(servo_mq) + 1
      BY <1>4, <2>1, <2>2, <3>2 DEF RequestsInOrder
    <3> QED BY <3>1, <3>2
  <2> QED BY <1>1, <1>2, <1>4, <2>1, <2>2, <2>3, <2>4 DEF RequestsInOrder, QueuesExist
<1> QED BY <1>3, <1>4

LEMMA OrderGui ==
    ASSUME User # "frantic", IInv, RequestsInOrder, Gui
    PROVE  RequestsInOrder'
<1>0. motor \in MotorAfter => at = target
  BY DEF RequestsInOrder
<1>1. CASE AddComponent
  BY <1>1 DEF AddComponent, RequestsInOrder, QueuesExist, Held
<1>2. CASE GetComponent
  <2>1. servo' = servo /\ motor' = motor
    BY <1>2, TouchSent DEF GetComponent
  <2> QED BY <1>2, <2>1 DEF GetComponent, RequestsInOrder, QueuesExist, Held
<1>3. CASE ScreenTouch
  <2>1. servo' = servo /\ motor' = motor
    BY <1>3, TouchSent DEF ScreenTouch
  <2> QED BY <1>0, <1>3, <2>1, OrderStays DEF ScreenTouch, QueuesExist
<1>4. CASE Finish
  <2>1. /\ servo' = IF servo = "wait_pick" THEN "close" ELSE servo
        /\ motor' = IF motor = "wait_pick" THEN "pause" ELSE motor
    BY <1>4, FinishSent DEF Finish
  <2> QED BY <1>0, <1>4, <2>1, OrderStays DEF Finish, QueuesExist
<1> QED BY <1>1, <1>2, <1>3, <1>4, OrderSendMotor, OrderSendServo DEF Gui

LEMMA OrderMotorRecv == ASSUME IInv, RequestsInOrder, MotorRecv PROVE RequestsInOrder'
<1>1. /\ motor = "recv" /\ motor_mq # <<>> /\ motor' = "pid"
      /\ target' = Head(motor_mq) /\ motor_mq' = Tail(motor_mq)
      /\ UNCHANGED <<pending, servo_mq, main, gui, op, layer, servo>>
  BY DEF MotorRecv
<1>2. CASE servo = "absent"
  BY <1>1, <1>2 DEF RequestsInOrder, QueuesExist
<1>3. CASE servo # "absent"
  <2> DEFINE k == Len(motor_mq)
  <2>1. Len(pending) = k /\ k \in Nat /\ k # 0 /\ motor_mq \in Seq(Slots)
    BY <1>1, <1>3, MotorAhead DEF IInv, TypeOK
  <2>2. /\ Len(motor_mq') = k - 1 /\ Head(motor_mq) = motor_mq[1]
        /\ \A i \in 1 .. k - 1 : motor_mq'[i] = motor_mq[i + 1]
    BY <1>1, <2>1
  <2>3. \A i \in 1 .. k : motor_mq[i] = PosOf(pending[i])
    <3>1. \A i \in 1 .. k : motor_mq[i] = PosOf(pending[k - k + i])
      BY <1>3, <2>1 DEF RequestsInOrder
    <3>2. \A i \in 1 .. k : k - k + i = i
      BY <2>1
    <3> QED BY <3>1, <3>2
  <2>4. target' = PosOf(pending[1])
    BY <1>1, <2>1, <2>2, <2>3
  <2>5. \A i \in 1 .. k - 1 : motor_mq'[i] = PosOf(pending[k - (k - 1) + i])
    <3>1. \A i \in 1 .. k - 1 : i + 1 \in 1 .. k /\ k - (k - 1) + i = i + 1
      BY <2>1
    <3> HIDE DEF k
    <3> QED BY <2>2, <2>3, <3>1
  <2> HIDE DEF k
  <2>6. Held' = Held
    BY <1>1 DEF Held
  <2> QED BY <1>1, <1>3, <2>1, <2>2, <2>4, <2>5, <2>6 DEF RequestsInOrder, QueuesExist
<1> QED BY <1>2, <1>3

LEMMA OrderMotor == ASSUME IInv, RequestsInOrder, Motor PROVE RequestsInOrder'
<1>1. CASE MotorRecv
  BY <1>1, OrderMotorRecv
<1>2. CASE Pid
  <2>1. PICK p : PidSample(p)
    BY <1>2 DEF Pid
  <2>2. motor = "pid" /\ UNCHANGED <<pending, motor_mq, servo_mq, op, target, layer, main, gui>>
    BY <2>1 DEF PidSample
  <2>3. CASE p = target /\ motor' = "recv_pick" /\ EventSend(EVENT_POSITION_OK)
    <3>1. servo' = IF servo = "wait_pos" THEN "open" ELSE servo
      BY <2>2, <2>3, PositionSent
    <3>2. at' = target
      BY <2>1, <2>3 DEF PidSample
    <3> QED BY <2>2, <3>1, <3>2, OrderStays DEF QueuesExist
  <2>4. CASE motor' = "asleep_pid" /\ servo' = servo
    BY <2>2, <2>4, OrderStays DEF QueuesExist
  <2> QED BY <2>1, <2>3, <2>4 DEF PidSample
<1>3. CASE MotorRecvPick \/ MotorPause
  <2>1. at = target
    BY <1>3 DEF MotorRecvPick, MotorPause, RequestsInOrder
  <2> QED BY <1>3, <2>1, OrderStays DEF MotorRecvPick, MotorPause, QueuesExist
<1> QED BY <1>1, <1>2, <1>3 DEF Motor

LEMMA OrderServoRecv == ASSUME IInv, RequestsInOrder, ServoRecv PROVE RequestsInOrder'
<1>1. /\ servo = "recv" /\ servo_mq # <<>> /\ servo' = "recv_pos"
      /\ layer' = Head(servo_mq) /\ servo_mq' = Tail(servo_mq)
      /\ UNCHANGED <<pending, motor_mq, main, gui, op, target, motor, at>>
  BY DEF ServoRecv
<1>2. servo_mq \in Seq(Layers) /\ Len(servo_mq) \in Nat /\ Len(servo_mq) # 0
  BY <1>1 DEF IInv, TypeOK
<1>3. /\ Len(servo_mq') = Len(servo_mq) - 1 /\ Head(servo_mq) = servo_mq[1]
      /\ \A i \in 1 .. Len(servo_mq) - 1 : servo_mq'[i] = servo_mq[i + 1]
  BY <1>1, <1>2
<1>4. Held = 0 /\ Held' = 1
  BY <1>1 DEF Held
<1>5. \A i \in 1 .. Len(servo_mq) : servo_mq[i] = LayerOf(pending[i])
  <2>1. \A i \in 1 .. Len(servo_mq) : servo_mq[i] = LayerOf(pending[0 + i])
    BY <1>1, <1>4 DEF RequestsInOrder
  <2> QED BY <2>1
<1>6. layer' = LayerOf(pending[1])
  BY <1>1, <1>2, <1>3, <1>5
<1>7. \A i \in 1 .. Len(servo_mq) - 1 : servo_mq'[i] = LayerOf(pending[1 + i])
  BY <1>2, <1>3, <1>5
<1> QED BY <1>1, <1>2, <1>3, <1>4, <1>6, <1>7 DEF RequestsInOrder, QueuesExist

LEMMA OrderServoOpen == ASSUME IInv, RequestsInOrder, ServoOpen PROVE RequestsInOrder'
<1>1. servo = "open" /\ servo' = "recv_pick" /\ Held = 1 /\ Held' = 0
  BY DEF ServoOpen, Held
<1>2. /\ Len(pending) = Len(motor_mq) + 1 /\ Len(motor_mq) \in Nat /\ Len(servo_mq) \in Nat
      /\ pending \in Seq(Keys) /\ pending # <<>>
  BY <1>1, MotorAhead DEF IInv, TypeOK
<1>3. /\ pending' = Tail(pending)
      /\ UNCHANGED <<motor_mq, servo_mq, main, gui, op, target, layer, motor, at>>
  BY <1>2 DEF ServoOpen
<1>4. /\ Len(pending') = Len(motor_mq)
      /\ \A i \in 1 .. Len(motor_mq) : pending'[i] = pending[i + 1]
  BY <1>2, <1>3
<1>5. Len(pending) = 1 + Len(servo_mq) + One(gui = "send_servo")
  BY <1>1 DEF RequestsInOrder
<1>6. \A i \in 1 .. Len(servo_mq) : servo_mq[i] = LayerOf(pending'[0 + i])
  <2>1. \A i \in 1 .. Len(servo_mq) : servo_mq[i] = LayerOf(pending[1 + i])
    BY <1>1 DEF RequestsInOrder
  <2> QED BY <1>2, <1>4, <1>5, <2>1
<1>7. \A i \in 1 .. Len(motor_mq) : motor_mq[i] = PosOf(pending'[Len(pending') - Len(motor_mq) + i])
  <2>1. \A i \in 1 .. Len(motor_mq) :
            motor_mq[i] = PosOf(pending[Len(pending) - Len(motor_mq) + i])
    BY <1>1 DEF RequestsInOrder
  <2>2. \A i \in 1 .. Len(motor_mq) : /\ Len(pending) - Len(motor_mq) + i = i + 1
                                      /\ Len(pending') - Len(motor_mq) + i = i
    BY <1>2, <1>4
  <2> QED BY <1>4, <2>1, <2>2
<1>8. gui = "send_servo" => op = pending'[Len(pending')]
  <2>1. ASSUME gui = "send_servo" PROVE op = pending'[Len(pending')]
    <3>1. op = pending[Len(pending)]
      BY <1>1, <2>1 DEF RequestsInOrder
    <3>2. Len(motor_mq) \in 1 .. Len(motor_mq)
      BY <1>2, <1>5, <2>1
    <3> QED BY <1>2, <1>4, <3>1, <3>2
  <2> QED BY <2>1
<1> QED BY <1>1, <1>2, <1>3, <1>4, <1>5, <1>6, <1>7, <1>8 DEF RequestsInOrder, QueuesExist

LEMMA OrderServo == ASSUME IInv, RequestsInOrder, Servo PROVE RequestsInOrder'
<1>0. motor \in MotorAfter => at = target
  BY DEF RequestsInOrder
<1>1. CASE ServoInit \/ ServoClose \/ ServoPause
  BY <1>0, <1>1, OrderStays DEF ServoInit, ServoClose, ServoPause, QueuesExist
<1>2. CASE ServoRecvPos \/ ServoRecvPick
  BY <1>0, <1>2, OrderStays DEF ServoRecvPos, ServoRecvPick, ServoRecvEvent, QueuesExist
<1> QED BY <1>1, <1>2, OrderServoRecv, OrderServoOpen DEF Servo

LEMMA OrderOther ==
    ASSUME IInv, RequestsInOrder, BuzzerRecv \/ BuzzerQuiet \/ WakeUp
    PROVE  RequestsInOrder'
<1>0. motor \in MotorAfter => at = target
  BY DEF RequestsInOrder
<1>1. CASE BuzzerRecv \/ BuzzerQuiet
  BY <1>0, <1>1, OrderStays DEF BuzzerRecv, BuzzerQuiet, QueuesExist
<1>2. CASE WakeUp
  <2>1. Head(sleepers) # "motor" => servo = "asleep"
    BY <1>2, DelayLists DEF WakeUp, IInv, SleepersMatch
  <2> QED BY <1>0, <1>2, <2>1, OrderStays DEF WakeUp, QueuesExist
<1> QED BY <1>1, <1>2

LEMMA OrderInit == Init => RequestsInOrder
BY DEF Init, RequestsInOrder, QueuesExist

LEMMA OrderStep ==
    ASSUME User # "frantic", IInv, RequestsInOrder, [Next]_vars PROVE RequestsInOrder'
<1>1. CASE Next
  BY <1>1, OrderStart, OrderGui, OrderMotor, OrderServo, OrderOther DEF Next, Step
<1>2. CASE UNCHANGED vars
  BY <1>2 DEF vars, RequestsInOrder, QueuesExist, Held
<1> QED BY <1>1, <1>2

\* For a user who never sends to a full queue the door that opens is that of the
\* oldest request without one, and the carousel stands at its position, although
\* layer and position come through different queues and different threads.
THEOREM CabinetOpensForOldest ==
    ASSUME User # "frantic" PROVE Spec => OpensForOldest
<1>1. Init => IInv /\ RequestsInOrder
  BY IInvInit, OrderInit, CabinetAssumption
<1>2. IInv /\ RequestsInOrder /\ [Next]_vars => IInv' /\ RequestsInOrder'
  BY IInvStep, OrderStep, CabinetAssumption
<1>3. IInv /\ RequestsInOrder =>
          (ServoOpen => /\ pending # <<>>
                        /\ layer = LayerOf(Head(pending))
                        /\ at = PosOf(Head(pending)))
  <2> SUFFICES ASSUME IInv, RequestsInOrder, ServoOpen
               PROVE  /\ pending # <<>>
                      /\ layer = LayerOf(Head(pending))
                      /\ at = PosOf(Head(pending))
    OBVIOUS
  <2>1. servo = "open" /\ Held = 1
    BY DEF ServoOpen, Held
  <2>2. Len(pending) = Len(motor_mq) + 1 /\ Len(motor_mq) \in Nat /\ motor \in MotorAfter
    BY <2>1, MotorAhead
  <2>3. pending \in Seq(Keys) /\ pending # <<>>
    BY <2>2 DEF IInv, TypeOK
  <2>4. Head(pending) = pending[1]
    BY <2>3
  <2> QED BY <2>1, <2>2, <2>3, <2>4 DEF RequestsInOrder
<1> QED BY <1>1, <1>2, <1>3, PTL DEF Spec, OpensForOldest

(***************************************************************************)
(* A patient user.                                                         *)
(***************************************************************************)
\* The requests that have a box on the screen and no closed door yet.
LEMMA PatientStays ==
    ASSUME OneAtATime, UNCHANGED servo_mq,
           gui' \in {"touch", "box"} <=> gui \in {"touch", "box"},
           EVENT_PICK_FINNISH \in event' => EVENT_PICK_FINNISH \in event,
           servo # "absent" \/ servo' = "absent",
           servo' = "close" <=> servo = "close", confirmed' = confirmed,
           servo' \in ServoWaits \cup (ServoOpens \ {"close"})
              <=> servo \in ServoWaits \cup (ServoOpens \ {"close"})
    PROVE  OneAtATime'
BY DEF OneAtATime

LEMMA PatientStart == ASSUME IInv, OneAtATime, Start PROVE OneAtATime'
<1>1. CASE CreateEvent \/ DatabaseInit \/ ZeroFound
  BY <1>1, PatientStays DEF CreateEvent, DatabaseInit, ZeroFound
<1>2. CASE StartThreads
  <2>1. servo_mq = <<>> /\ gui \notin {"touch", "box"}
    BY <1>2 DEF StartThreads, QueuesExist, IInv, NotStarted
  <2> QED BY <1>2, <2>1 DEF StartThreads, OneAtATime
<1> QED BY <1>1, <1>2 DEF Start

LEMMA PatientGui ==
    ASSUME User = "patient", IInv, OneAtATime, Gui
    PROVE  OneAtATime'
<1>1. CASE AddComponent \/ SendMotor
  BY <1>1, PatientStays DEF AddComponent, SendMotor
<1>2. CASE GetComponent \/ ScreenTouch
  <2>1. servo' = servo /\ (EVENT_PICK_FINNISH \in event' => EVENT_PICK_FINNISH \in event)
    BY <1>2, TouchSent DEF GetComponent, ScreenTouch
  <2> QED BY <1>2, <2>1, PatientStays DEF GetComponent, ScreenTouch
<1>3. CASE SendServo
  <2>1. /\ servo_mq' = Append(servo_mq, LayerOf(op)) /\ gui = "send_servo" /\ gui' \in {"touch", "box"}
        /\ UNCHANGED <<servo, event, confirmed>>
    BY <1>3 DEF SendServo, IInv, RoomToSend
  <2>2. Len(servo_mq') = Len(servo_mq) + 1 /\ Len(servo_mq) \in Nat
    BY <2>1 DEF IInv, TypeOK
  <2> QED BY <2>1, <2>2 DEF OneAtATime
<1>4. CASE Finish
  <2>1. servo = "wait_pick" /\ gui = "box" /\ gui' = "idle" /\ UNCHANGED servo_mq
    BY <1>4 DEF Finish
  <2>2. servo' = "close" /\ EVENT_PICK_FINNISH \notin event'
    BY <1>4, <2>1, FinishSent DEF Finish
  <2>3. confirmed'
    BY <1>4, <2>1 DEF Finish, IInv, DoorMatches
  <2>4. Len(servo_mq) \in Nat
    BY DEF IInv, TypeOK
  <2> QED BY <2>1, <2>2, <2>3, <2>4 DEF OneAtATime
<1> QED BY <1>1, <1>2, <1>3, <1>4 DEF Gui

LEMMA PatientMotor == ASSUME IInv, OneAtATime, Motor PROVE OneAtATime'
<1>1. CASE MotorRecv \/ MotorRecvPick \/ MotorPause
  BY <1>1, PatientStays DEF MotorRecv, MotorRecvPick, MotorPause
<1>2. CASE Pid
  <2>1. PICK p : PidSample(p)
    BY <1>2 DEF Pid
  <2>2. motor = "pid" /\ UNCHANGED <<servo_mq, gui, confirmed>>
    BY <2>1 DEF PidSample
  <2>3. CASE EventSend(EVENT_POSITION_OK)
    <3>1. /\ servo' = IF servo = "wait_pos" THEN "open" ELSE servo
          /\ EVENT_PICK_FINNISH \in event' <=> EVENT_PICK_FINNISH \in event
      BY <2>2, <2>3, PositionSent
    <3> QED BY <2>2, <3>1, PatientStays
  <2>4. CASE UNCHANGED <<event, servo>>
    BY <2>2, <2>4, PatientStays
  <2> QED BY <2>1, <2>3, <2>4 DEF PidSample
<1> QED BY <1>1, <1>2 DEF Motor

LEMMA PatientServo == ASSUME IInv, OneAtATime, Servo PROVE OneAtATime'
<1>1. CASE ServoInit \/ ServoRecvPos \/ ServoRecvPick
  BY <1>1, PatientStays DEF ServoInit, ServoRecvPos, ServoRecvPick, ServoRecvEvent, OneAtATime
<1>2. CASE ServoRecv
  <2>1. /\ servo = "recv" /\ servo_mq # <<>> /\ servo' = "recv_pos" /\ servo_mq' = Tail(servo_mq)
        /\ UNCHANGED <<gui, event, confirmed>>
    BY <1>2 DEF ServoRecv
  <2>2. Len(servo_mq') = Len(servo_mq) - 1 /\ Len(servo_mq) \in Nat
    BY <2>1 DEF IInv, TypeOK
  <2> QED BY <2>1, <2>2 DEF OneAtATime
<1>3. CASE ServoOpen \/ ServoClose \/ ServoPause
  BY <1>3 DEF ServoOpen, ServoClose, ServoPause, OneAtATime
<1> QED BY <1>1, <1>2, <1>3 DEF Servo

LEMMA PatientOther ==
    ASSUME IInv, OneAtATime, BuzzerRecv \/ BuzzerQuiet \/ WakeUp
    PROVE  OneAtATime'
<1>1. CASE BuzzerRecv \/ BuzzerQuiet
  BY <1>1, PatientStays DEF BuzzerRecv, BuzzerQuiet
<1>2. CASE WakeUp
  <2>1. Head(sleepers) # "motor" => servo = "asleep"
    BY <1>2, DelayLists DEF WakeUp, IInv, SleepersMatch
  <2> QED BY <1>2, <2>1, PatientStays DEF WakeUp
<1> QED BY <1>1, <1>2

LEMMA PatientInvariant == ASSUME User = "patient" PROVE Spec => [](IInv /\ OneAtATime)
<1>1. Init => IInv /\ OneAtATime
  <2>1. Init => OneAtATime
    BY DEF Init, OneAtATime
  <2> QED BY <2>1, IInvInit, CabinetAssumption
<1>2. IInv /\ OneAtATime /\ [Next]_vars => IInv' /\ OneAtATime'
  <2>1. ASSUME IInv, OneAtATime, Next PROVE OneAtATime'
    BY <2>1, PatientStart, PatientGui, PatientMotor, PatientServo, PatientOther DEF Next, Step
  <2>2. OneAtATime /\ UNCHANGED vars => OneAtATime'
    BY DEF vars, OneAtATime
  <2> QED BY <2>1, <2>2, IInvStep, CabinetAssumption
<1> QED BY <1>1, <1>2, PTL DEF Spec

\* A patient user has a Finish button as long as a door waits for it: the box that
\* came up with the request is never clicked away before the door opens.
THEOREM CabinetDoorHasButton ==
    ASSUME User = "patient" PROVE Spec => []OpenDoorHasButton
<1>1. IInv /\ OneAtATime => OpenDoorHasButton
  BY DEF IInv, TypeOK, OneAtATime, OpenDoorHasButton
<1> QED BY <1>1, PatientInvariant, PTL

\* For a patient user the servo closes a door only after the click that was made
\* since it opened: no click from before is left over.
THEOREM CabinetDoorWaits ==
    ASSUME User = "patient" PROVE Spec => []DoorWaitsForUser
<1>1. OneAtATime => DoorWaitsForUser
  BY DEF OneAtATime, DoorWaitsForUser
<1> QED BY <1>1, PatientInvariant, PTL
=============================================================================
