------------------------------ MODULE MsgQueue ------------------------------
(***************************************************************************)
(* One message queue of the kernel (rt-thread/src/ipc.c) and the threads   *)
(* that call rt_mq_send_wait, rt_mq_send (a send with timeout 0),          *)
(* rt_mq_urgent, rt_mq_recv and rt_mq_control on it.                       *)
(*                                                                         *)
(* The pool of max_msgs slots is threaded into two lists by the slots' own *)
(* next pointers: the queued messages (head .. tail) and the unused slots  *)
(* (free).  A call works on the lists with interrupts disabled, but copies *)
(* the message in or out with interrupts enabled, holding a slot that is   *)
(* on neither list; an action is one stretch of code with interrupts       *)
(* disabled, together with the copy next to it.  Between two actions of a  *)
(* thread any other thread, an interrupt handler or the timer may run:     *)
(* more interleavings than one processor with strict priorities allows.    *)
(*                                                                         *)
(* linked and avail are history: the two lists as the pointers ought to    *)
(* spell them.  No guard reads them; ListsSpelled compares them with the   *)
(* pointers.  Creation and deletion of the queue are not modelled.         *)
(***************************************************************************)
EXTENDS Integers, SequencesExt

CONSTANTS
    Threads,        \* the callers
    Prio,           \* current_priority of each; a smaller number goes first
    Flag,           \* RT_IPC_FLAG_FIFO or RT_IPC_FLAG_PRIO
    Bodies,         \* what a message can say
    NoMsg,
    MaxMsgs,        \* max_msgs
    EntryMax        \* RT_MQ_ENTRY_MAX, the largest value of entry

\* max_msgs and entry are both rt_uint16_t.
ASSUME MsgQueueAssumption ==
    /\ Threads # {} /\ IsFiniteSet(Threads)
    /\ Prio \in [Threads -> Nat]
    /\ Flag \in {"FIFO", "PRIO"}
    /\ NoMsg \notin [from : Threads, body : Bodies]
    /\ MaxMsgs \in Nat \ {0}
    /\ EntryMax \in Nat /\ MaxMsgs <= EntryMax

Message  == [from : Threads, body : Bodies]
Slots    == 1 .. MaxMsgs
Nil      == 0                               \* RT_NULL
Timeouts == {"zero", "ticks", "forever"}    \* = 0, > 0, < 0

VARIABLES
    head, tail, free,   \* msg_queue_head, msg_queue_tail, msg_queue_free
    next,               \* the next pointer of each slot
    data,               \* the message in each slot
    entry,
    receivers,          \* parent.suspend_thread: waiting for a message
    senders,            \* suspend_sender_thread: waiting for a slot
    th,                 \* each thread: where it is, its arguments, its error
    buf,                \* the buffer of each thread's last receive
    linked, avail       \* history: the queued slots and the unused ones

pool    == <<head, tail, free, next, data, entry, linked, avail>>
waiting == <<receivers, senders>>
vars    == <<pool, waiting, th, buf>>

Idle == [pc |-> "idle", msg |-> NoMsg, slot |-> Nil,
         timeout |-> "zero", error |-> "EOK"]
PCs  == {"idle", "send", "fill", "fillUrgent", "recv", "drain"}

\* rt_mq_init: the last slot of the pool is the first of the free list.
Init ==
    /\ head = Nil /\ tail = Nil /\ free = MaxMsgs
    /\ next = [s \in Slots |-> s - 1]
    /\ data = [s \in Slots |-> NoMsg]
    /\ entry = 0
    /\ receivers = <<>> /\ senders = <<>>
    /\ th = [t \in Threads |-> Idle]
    /\ buf = [t \in Threads |-> NoMsg]
    /\ linked = <<>>
    /\ avail = [i \in Slots |-> MaxMsgs + 1 - i]

-----------------------------------------------------------------------------
(* The wait lists.                                                         *)

\* _ipc_list_suspend: at the end, or before the first waiter of lower priority.
PlaceLast(list, t) == {Len(list) + 1}                       \* mutant of Place
Place(list, t) ==
    {i \in 1 .. Len(list) + 1 :
        /\ i <= Len(list) => Flag = "PRIO" /\ Prio[t] < Prio[list[i]]
        /\ Flag = "PRIO" => \A j \in 1 .. i - 1 : Prio[t] >= Prio[list[j]]}

\* _ipc_list_resume, when the list is not empty: its first thread is ready.
Resume(list) == IF list = <<>> THEN list ELSE Tail(list)

IsResumed(t, pc, list) == th[t].pc = pc /\ t \notin ToSet(list)

\* A call goes to sleep, with its timer set if its timeout is a number of ticks.
Waits(t, pc, m, w) ==
    th' = [th EXCEPT ![t] = [Idle EXCEPT !.pc = pc, !.msg = m, !.timeout = w]]
Returns(t) == th' = [th EXCEPT ![t] = Idle]

\* What is left of a timeout when the thread runs again.
LeftUnclamped(w) == IF w = "ticks" THEN {"ticks", "zero", "negative"} ELSE {w}   \* mutant of Left
Left(w) == IF w = "ticks" THEN {"ticks", "zero"} ELSE {w}

-----------------------------------------------------------------------------
(* Sending.                                                                *)

\* Take the first unused slot, go to sleep until there is one, or give up.
Claim(t, m, pc) ==
    /\ free # Nil
    /\ free' = next[free]
    /\ avail' = Tail(avail)
    /\ th' = [th EXCEPT ![t] = [Idle EXCEPT !.pc = pc, !.msg = m, !.slot = free]]
    /\ UNCHANGED <<head, tail, next, data, entry, linked, waiting>>

SendLoop(t, m, w) ==
    \/ Claim(t, m, "fill")
    \/ /\ free = Nil /\ w = "zero"
       /\ Returns(t)
       /\ UNCHANGED <<pool, waiting>>
    \/ /\ free = Nil /\ w # "zero"
       /\ \E i \in Place(senders, t) : senders' = InsertAt(senders, i, t)
       /\ Waits(t, "send", m, w)
       /\ UNCHANGED <<pool, receivers>>

Begins(t) == th[t].pc = "idle" /\ buf' = [buf EXCEPT ![t] = NoMsg]

Send(t, m, w) == Begins(t) /\ SendLoop(t, m, w)

SendResumed(t) ==
    /\ IsResumed(t, "send", senders)
    /\ \/ /\ th[t].error # "EOK"
          /\ Returns(t)
          /\ UNCHANGED <<pool, waiting>>
       \/ /\ th[t].error = "EOK"
          /\ \E w \in Left(th[t].timeout) : SendLoop(t, th[t].msg, w)
    /\ UNCHANGED buf

AnnounceSilent ==                                   \* mutant of Announce
    IF entry < EntryMax
    THEN entry' = entry + 1 /\ UNCHANGED receivers
    ELSE UNCHANGED <<entry, receivers>>

\* The message is in the queue: count it and resume the first receiver.
Announce ==
    IF entry < EntryMax
    THEN entry' = entry + 1 /\ receivers' = Resume(receivers)
    ELSE UNCHANGED <<entry, receivers>>

SendLink(t) ==
    LET s == th[t].slot IN
    /\ th[t].pc = "fill"
    /\ data' = [data EXCEPT ![s] = th[t].msg]
    /\ next' = IF tail = Nil THEN [next EXCEPT ![s] = Nil]
                             ELSE [next EXCEPT ![s] = Nil, ![tail] = s]
    /\ tail' = s
    /\ head' = IF head = Nil THEN s ELSE head
    /\ Announce
    /\ linked' = Append(linked, s)
    /\ Returns(t)
    /\ UNCHANGED <<free, avail, senders, buf>>

Urgent(t, m) ==
    /\ Begins(t)
    /\ \/ Claim(t, m, "fillUrgent")
       \/ free = Nil /\ UNCHANGED <<pool, waiting, th>>

UrgentLinkNoTail(t) ==                              \* mutant of UrgentLink
    LET s == th[t].slot IN
    /\ th[t].pc = "fillUrgent"
    /\ data' = [data EXCEPT ![s] = th[t].msg]
    /\ next' = [next EXCEPT ![s] = head]
    /\ head' = s
    /\ Announce
    /\ linked' = <<s>> \o linked
    /\ Returns(t)
    /\ UNCHANGED <<tail, free, avail, senders, buf>>

UrgentLink(t) ==
    LET s == th[t].slot IN
    /\ th[t].pc = "fillUrgent"
    /\ data' = [data EXCEPT ![s] = th[t].msg]
    /\ next' = [next EXCEPT ![s] = head]
    /\ head' = s
    /\ tail' = IF tail = Nil THEN s ELSE tail
    /\ Announce
    /\ linked' = <<s>> \o linked
    /\ Returns(t)
    /\ UNCHANGED <<free, avail, senders, buf>>

-----------------------------------------------------------------------------
(* Receiving.                                                              *)

UnlinkFreesAtOnce(t) ==                             \* mutant of Unlink
    /\ head # Nil
    /\ head' = next[head]
    /\ tail' = IF tail = head THEN Nil ELSE tail
    /\ next' = [next EXCEPT ![head] = free]
    /\ free' = head
    /\ entry' = IF entry > 0 THEN entry - 1 ELSE entry
    /\ linked' = Tail(linked)
    /\ avail' = <<head>> \o avail
    /\ th' = [th EXCEPT ![t] = [Idle EXCEPT !.pc = "drain", !.slot = head]]
    /\ UNCHANGED <<data, waiting>>

\* Unlink the first message; it stays in its slot until it is copied.
Unlink(t) ==
    /\ head' = next[head]
    /\ tail' = IF tail = head THEN Nil ELSE tail
    /\ entry' = IF entry > 0 THEN entry - 1 ELSE entry
    /\ linked' = Tail(linked)
    /\ th' = [th EXCEPT ![t] = [Idle EXCEPT !.pc = "drain", !.slot = head]]
    /\ UNCHANGED <<free, next, data, avail, waiting>>

RecvLoop(t, w) ==
    \/ entry # 0 /\ Unlink(t)
    \/ /\ entry = 0 /\ w = "zero"
       /\ Returns(t)
       /\ UNCHANGED <<pool, waiting>>
    \/ /\ entry = 0 /\ w # "zero"
       /\ \E i \in Place(receivers, t) : receivers' = InsertAt(receivers, i, t)
       /\ Waits(t, "recv", NoMsg, w)
       /\ UNCHANGED <<pool, senders>>

Recv(t, w) == Begins(t) /\ RecvLoop(t, w)

RecvResumed(t) ==
    /\ IsResumed(t, "recv", receivers)
    /\ \/ /\ th[t].error # "EOK"
          /\ Returns(t)
          /\ UNCHANGED <<pool, waiting>>
       \/ /\ th[t].error = "EOK"
          /\ \E w \in Left(th[t].timeout) : RecvLoop(t, w)
    /\ UNCHANGED buf

RecvFreeSilent(t) ==                                \* mutant of RecvFree
    LET s == th[t].slot IN
    /\ th[t].pc = "drain"
    /\ buf' = [buf EXCEPT ![t] = data[s]]
    /\ next' = [next EXCEPT ![s] = free]
    /\ free' = s
    /\ avail' = <<s>> \o avail
    /\ Returns(t)
    /\ UNCHANGED <<head, tail, data, entry, linked, senders, receivers>>

\* Copy the message out, give its slot back and resume the first sender.
RecvFree(t) ==
    LET s == th[t].slot IN
    /\ th[t].pc = "drain"
    /\ buf' = [buf EXCEPT ![t] = data[s]]
    /\ next' = [next EXCEPT ![s] = free]
    /\ free' = s
    /\ avail' = <<s>> \o avail
    /\ senders' = Resume(senders)
    /\ Returns(t)
    /\ UNCHANGED <<head, tail, data, entry, linked, receivers>>

-----------------------------------------------------------------------------
(* Resetting, and the timer.                                               *)

\* The loop of rt_mq_control: the lists after n messages went from the head of
\* the queue to the front of the free list.
Emptied[n \in Nat] ==
    IF n = 0 THEN [head |-> head, free |-> free, next |-> next]
    ELSE LET q == Emptied[n - 1]
         IN IF q.head = Nil THEN q
            ELSE [head |-> q.next[q.head], free |-> q.head,
                  next |-> [q.next EXCEPT ![q.head] = q.free]]

NextEmptiedInOrder ==                               \* mutant of NextEmptied
    IF tail = Nil THEN next ELSE [next EXCEPT ![tail] = free]

\* Where that loop ends, written without it.
NextEmptied ==
    [s \in Slots |->
        IF \E i \in 1 .. Len(linked) : linked[i] = s
        THEN LET i == CHOOSE i \in 1 .. Len(linked) : linked[i] = s
             IN IF i = 1 THEN free ELSE linked[i - 1]
        ELSE next[s]]

\* RT_IPC_CMD_RESET: every waiting call fails, every message is dropped.
WaitersFailed == ToSet(receivers) \cup ToSet(senders)

Reset(t) ==
    /\ Begins(t)
    /\ th' = [u \in Threads |-> IF u \in WaitersFailed
                                THEN [th[u] EXCEPT !.error = "ERROR"] ELSE th[u]]
    /\ receivers' = <<>> /\ senders' = <<>>
    /\ head' = Nil /\ tail' = Nil /\ entry' = 0
    /\ next' = NextEmptied
    /\ free' = IF head = Nil THEN free ELSE tail
    /\ linked' = <<>> /\ avail' = Reverse(linked) \o avail
    /\ UNCHANGED data

\* _thread_timeout, in the timer interrupt.
Timeout(t) ==
    /\ th[t].timeout = "ticks"
    /\ \/ \E i \in 1 .. Len(receivers) :
             /\ receivers[i] = t
             /\ receivers' = RemoveAt(receivers, i)
             /\ UNCHANGED senders
       \/ \E i \in 1 .. Len(senders) :
             /\ senders[i] = t
             /\ senders' = RemoveAt(senders, i)
             /\ UNCHANGED receivers
    /\ th' = [th EXCEPT ![t].error = "ETIMEOUT"]
    /\ UNCHANGED <<pool, buf>>

-----------------------------------------------------------------------------
Runs(t) == SendResumed(t) \/ SendLink(t) \/ UrgentLink(t) \/ RecvResumed(t) \/ RecvFree(t)

Next == \E t \in Threads :
    \/ \E m \in Message, w \in Timeouts : m.from = t /\ Send(t, m, w)
    \/ \E m \in Message : m.from = t /\ Urgent(t, m)
    \/ \E w \in Timeouts : Recv(t, w)
    \/ Reset(t)
    \/ Timeout(t)
    \/ SendResumed(t) \/ SendLink(t) \/ UrgentLink(t)
    \/ RecvResumed(t) \/ RecvFree(t)

Spec == Init /\ [][Next]_vars

\* A thread that is ready runs: the callers of a queue leave the processor to
\* each other, and a call has no step that can fail to finish.
FairSpec == Spec /\ \A t \in Threads : WF_vars(Runs(t))

-----------------------------------------------------------------------------
(* What must hold.                                                         *)

\* The type of the state.
TypeOK ==
    /\ {head, tail, free} \subseteq Slots \cup {Nil}
    /\ next \in [Slots -> Slots \cup {Nil}]
    /\ data \in [Slots -> Message \cup {NoMsg}]
    /\ entry \in 0 .. MaxMsgs
    /\ {receivers, senders} \subseteq Seq(Threads)
    /\ {linked, avail} \subseteq Seq(Slots)
    /\ th \in [Threads -> [pc : PCs, msg : Message \cup {NoMsg}, slot : Slots \cup {Nil},
                           timeout : Timeouts, error : {"EOK", "ETIMEOUT", "ERROR"}]]
    /\ buf \in [Threads -> Message \cup {NoMsg}]

\* p is the first slot of list and the next pointers lead through the rest of it.
Spells(p, list) ==
    /\ p = IF list = <<>> THEN Nil ELSE list[1]
    /\ \A i \in 1 .. Len(list) :
          next[list[i]] = IF i = Len(list) THEN Nil ELSE list[i + 1]

\* The pointers of the pool always spell the messages sent and not received,
\* in order, and the slots not in use: no stretch of rt_mq_send_wait,
\* rt_mq_urgent, rt_mq_recv or the reset that runs between two others cuts a
\* list, joins the two, or leaves the tail behind.
ListsSpelled ==
    /\ Spells(head, linked)
    /\ Spells(free, avail)
    /\ tail = IF linked = <<>> THEN Nil ELSE linked[Len(linked)]

Held      == {t \in Threads : th[t].slot # Nil}
HeldSlots == {th[t].slot : t \in Held}

\* Every slot is in one place: queued, unused, or held by one thread that is
\* copying it; none is lost over any sequence of calls, and entry counts the
\* queued ones, so that its own limit (-RT_EFULL with the message already
\* linked) is never met.
SlotsConserved ==
    /\ IsInjective(linked) /\ IsInjective(avail)
    /\ ToSet(linked) \cap ToSet(avail) = {}
    /\ HeldSlots = Slots \ (ToSet(linked) \cup ToSet(avail))
    /\ \A t, u \in Held : th[t].slot = th[u].slot => t = u
    /\ entry = Len(linked)

Resumed(pc, list) == {t \in Threads : IsResumed(t, pc, list) /\ th[t].error = "EOK"}

\* No wake-up is lost: beside a sleeping receiver there are never more messages
\* than receivers on their way to fetch one, and beside a sleeping sender never
\* more unused slots than senders on their way to claim one, although a thread
\* that never slept may take what a resumed one was woken for.
NoLostWakeUp ==
    /\ receivers # <<>> => entry <= Cardinality(Resumed("recv", receivers))
    /\ senders # <<>> => Len(avail) <= Cardinality(Resumed("send", senders))

\* A thread is on a wait list once, on the one its call waits on, with no error
\* yet and with a time to wait, although it may have been woken in vain and
\* sleep for the rest of its time (which, below zero, would be for ever); with
\* RT_IPC_FLAG_PRIO nobody waits behind a thread of lower priority.
WaitsFor(list, pc) ==
    /\ IsInjective(list)
    /\ \A t \in ToSet(list) :
          th[t].pc = pc /\ th[t].error = "EOK" /\ th[t].timeout \in {"ticks", "forever"}
    /\ Flag = "PRIO" => \A i, j \in 1 .. Len(list) : i < j => Prio[list[i]] <= Prio[list[j]]
WaitersInOrder == WaitsFor(receivers, "recv") /\ WaitsFor(senders, "send")

\* The reset's loop over the queue ends where NextEmptied says.
ResetIsItsLoop ==
    Emptied[MaxMsgs] = [head |-> Nil, free |-> IF head = Nil THEN free ELSE tail,
                        next |-> NextEmptied]

\* The queue keeps the promise of Channel: bounded, first in first out except
\* for urgent messages, each message received once and unchanged although it is
\* copied after it left the queue and its slot serves again afterwards.
Chan == INSTANCE Channel WITH
    chan <- [i \in 1 .. Len(linked) |-> data[linked[i]]],
    got  <- [t \in Threads |-> IF th[t].pc = "drain" THEN data[th[t].slot] ELSE buf[t]]
IsChannel == Chan!Spec

\* A receiver does not sleep on beside a message, nor a sender beside an unused
\* slot: the sleepers are woken or the messages and slots are gone.
NobodySleepsOn ==
    /\ (receivers # <<>> /\ entry > 0) ~> (receivers = <<>> \/ entry = 0)
    /\ (senders # <<>> /\ free # Nil) ~> (senders = <<>> \/ free = Nil)
=============================================================================
