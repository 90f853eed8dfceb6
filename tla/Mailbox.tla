------------------------------- MODULE Mailbox -------------------------------
(***************************************************************************)
(* A mailbox of the kernel (rt_mb_* of rt-thread/src/ipc.c): a ring of     *)
(* size values, entry of them in use from out_offset on, and two wait      *)
(* lists.  A value is written and read with interrupts disabled, but a     *)
(* call that has slept looks again at the ring, and may sleep again.  An   *)
(* urgent value moves out_offset back.                                     *)
(***************************************************************************)
EXTENDS Waiting

CONSTANTS
    Mails, NoMail,
    MbSize,         \* size
    MbEntryMax      \* RT_MB_ENTRY_MAX

ASSUME MailboxAssumption ==
    /\ MbSize \in Nat \ {0} /\ MbEntryMax \in Nat /\ MbSize <= MbEntryMax
    /\ NoMail \notin Mails

VARIABLES
    pool, in, out, entry,   \* msg_pool, in_offset, out_offset, entry
    mbReceivers, mbSenders, \* suspend_thread, suspend_sender_thread
    sending,                \* the value a thread is waiting to send
    mail                    \* what each thread has received

ring   == <<pool, in, out, entry>>
mbVars == <<ring, mbReceivers, mbSenders, sending, mail>>

\* rt_mb_init.
MbInit ==
    /\ pool = [i \in 0 .. MbSize - 1 |-> NoMail]
    /\ in = 0 /\ out = 0 /\ entry = 0
    /\ mbReceivers = <<>> /\ mbSenders = <<>>
    /\ sending = [t \in Threads |-> NoMail]
    /\ mail = [t \in Threads |-> NoMail]

After(i) == IF i + 1 >= MbSize THEN 0 ELSE i + 1
Before(i) == IF i > 0 THEN i - 1 ELSE MbSize - 1

StoreSilent(v) ==                                           \* mutant of Store
    /\ pool' = [pool EXCEPT ![in] = v]
    /\ in' = After(in)
    /\ entry' = IF entry < MbEntryMax THEN entry + 1 ELSE entry
    /\ UNCHANGED <<out, mbReceivers, mbSenders>>

\* The value goes into the ring, and the first receiver is resumed.
Store(v) ==
    /\ pool' = [pool EXCEPT ![in] = v]
    /\ in' = After(in)
    /\ IF entry < MbEntryMax
       THEN entry' = entry + 1 /\ mbReceivers' = Resumed(mbReceivers)
       ELSE UNCHANGED <<entry, mbReceivers>>
    /\ UNCHANGED <<out, mbSenders>>

MbSendLoop(t, v, w) ==
    \/ /\ entry # MbSize
       /\ Store(v)
       /\ Returns(t)
       /\ sending' = [sending EXCEPT ![t] = NoMail]
    \/ /\ entry = MbSize /\ w = "zero"
       /\ Returns(t)
       /\ sending' = [sending EXCEPT ![t] = NoMail]
       /\ UNCHANGED <<ring, mbReceivers, mbSenders>>
    \/ /\ entry = MbSize /\ w # "zero"
       /\ mbSenders' = Suspended(mbSenders, t)
       /\ SleepsOn(t, "mbSend")
       /\ sending' = [sending EXCEPT ![t] = v]
       /\ UNCHANGED <<ring, mbReceivers>>

\* rt_mb_send_wait; rt_mb_send is a send with timeout 0.
MbSend(t, v, w) == th[t] = Ready /\ MbSendLoop(t, v, w) /\ UNCHANGED mail

\* Another look, with what is left of the timeout.
MbSendResumed(t) ==
    /\ Awake(t, "mbSend", mbSenders)
    /\ \/ /\ th[t].error # "EOK"
          /\ Returns(t)
          /\ sending' = [sending EXCEPT ![t] = NoMail]
          /\ UNCHANGED <<ring, mbReceivers, mbSenders>>
       \/ /\ th[t].error = "EOK"
          /\ \E w \in Timeouts : MbSendLoop(t, sending[t], w)
    /\ UNCHANGED mail

\* rt_mb_urgent: the value goes before the first, or -RT_EFULL.
MbUrgent(t, v) ==
    /\ th[t] = Ready
    /\ \/ /\ entry # MbSize
          /\ out' = Before(out)
          /\ pool' = [pool EXCEPT ![Before(out)] = v]
          /\ entry' = entry + 1
          /\ mbReceivers' = Resumed(mbReceivers)
          /\ UNCHANGED in
       \/ entry = MbSize /\ UNCHANGED <<ring, mbReceivers>>
    /\ UNCHANGED <<mbSenders, sending, mail, th>>

\* The oldest value is read, and the first sender is resumed.
Fetch(t) ==
    /\ mail' = [mail EXCEPT ![t] = pool[out]]
    /\ out' = After(out)
    /\ entry' = IF entry > 0 THEN entry - 1 ELSE entry
    /\ mbSenders' = Resumed(mbSenders)
    /\ UNCHANGED <<pool, in, mbReceivers>>

MbRecvLoop(t, w) ==
    \/ /\ entry # 0
       /\ Fetch(t)
       /\ Returns(t)
    \/ /\ entry = 0 /\ w = "zero"
       /\ Returns(t)
       /\ UNCHANGED <<ring, mbReceivers, mbSenders, mail>>
    \/ /\ entry = 0 /\ w # "zero"
       /\ mbReceivers' = Suspended(mbReceivers, t)
       /\ SleepsOn(t, "mbRecv")
       /\ UNCHANGED <<ring, mbSenders, mail>>

\* rt_mb_recv.
MbRecv(t, w) == th[t] = Ready /\ MbRecvLoop(t, w) /\ UNCHANGED sending

MbRecvResumedTrusts(t) ==                                   \* mutant of MbRecvResumed
    /\ Awake(t, "mbRecv", mbReceivers)
    /\ Returns(t)
    /\ \/ th[t].error # "EOK" /\ UNCHANGED <<ring, mbReceivers, mbSenders, mail>>
       \/ th[t].error = "EOK" /\ Fetch(t)
    /\ UNCHANGED sending

MbRecvResumed(t) ==
    /\ Awake(t, "mbRecv", mbReceivers)
    /\ \/ /\ th[t].error # "EOK"
          /\ Returns(t)
          /\ UNCHANGED <<ring, mbReceivers, mbSenders, mail>>
       \/ /\ th[t].error = "EOK"
          /\ \E w \in Timeouts : MbRecvLoop(t, w)
    /\ UNCHANGED sending

\* rt_mb_control, RT_IPC_CMD_RESET.
MbReset(t) ==
    /\ th[t] = Ready
    /\ AllFail(ToSet(mbReceivers) \cup ToSet(mbSenders))
    /\ mbReceivers' = <<>> /\ mbSenders' = <<>>
    /\ in' = 0 /\ out' = 0 /\ entry' = 0
    /\ UNCHANGED <<pool, sending, mail>>

MbTimeout(t) ==
    /\ \/ /\ TimedOut(t, mbReceivers)
          /\ mbReceivers' = Without(mbReceivers, t)
          /\ UNCHANGED mbSenders
       \/ /\ TimedOut(t, mbSenders)
          /\ mbSenders' = Without(mbSenders, t)
          /\ UNCHANGED mbReceivers
    /\ UNCHANGED <<ring, sending, mail>>

MbNext == \E t \in Threads :
    \/ \E v \in Mails :
          \/ \E w \in Timeouts : MbSend(t, v, w)
          \/ MbUrgent(t, v)
    \/ \E w \in Timeouts : MbRecv(t, w)
    \/ MbSendResumed(t) \/ MbRecvResumed(t)
    \/ MbReset(t)
    \/ MbTimeout(t)

\* The waiters stand in order; beside a sleeping receiver there are never more
\* values than receivers on their way to fetch one, and beside a sleeping sender
\* never more room than senders on their way to use it, although a call that
\* never slept may come between a wake-up and the second look.
MbNoLostWakeUp ==
    /\ InOrder(mbReceivers, "mbRecv") /\ InOrder(mbSenders, "mbSend")
    /\ mbReceivers # <<>> => entry <= Cardinality(AwakeOK("mbRecv", mbReceivers))
    /\ mbSenders # <<>> => MbSize - entry <= Cardinality(AwakeOK("mbSend", mbSenders))

\* The mailbox keeps the promise of Channel: the ring always holds the values
\* sent and not received, from the next one on, whether they were put in behind
\* or before it and whatever wraps, and both offsets fit them.
MbChan == INSTANCE Channel WITH
    Message <- Mails, NoMsg <- NoMail, MaxMsgs <- MbSize,
    chan <- [i \in 1 .. entry |-> pool[(out + i - 1) % MbSize]],
    got  <- mail
MbIsChannel == MbChan!Spec /\ [](in = (out + entry) % MbSize)
=============================================================================
