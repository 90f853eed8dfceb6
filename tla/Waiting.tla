------------------------------- MODULE Waiting -------------------------------
(***************************************************************************)
(* What a thread does to wait on an object of rt-thread/src/ipc.c, and how *)
(* it is woken: the part that Semaphore, Event and Mailbox share.  A wait  *)
(* list is a sequence of threads; th[t] says on which list t's call waits, *)
(* or waited when it was woken and has not run yet.                        *)
(***************************************************************************)
EXTENDS Integers, SequencesExt

CONSTANTS
    Threads,
    Prio,       \* current_priority of each; a smaller number goes first
    Flag        \* RT_IPC_FLAG_FIFO or RT_IPC_FLAG_PRIO

ASSUME WaitingAssumption ==
    /\ IsFiniteSet(Threads)
    /\ Prio \in [Threads -> Nat]
    /\ Flag \in {"FIFO", "PRIO"}

Lists    == {"none", "sem", "event", "mbSend", "mbRecv"}

\* = 0 or not; a wait for ever (< 0) is one whose timer does not run out.
Timeouts == {"zero", "ticks"}

VARIABLE th     \* where each thread waits, and thread->error

Ready == [on |-> "none", error |-> "EOK"]
Calls == [on : Lists, error : {"EOK", "ETIMEOUT", "ERROR"}]

\* _ipc_list_suspend: at the end, or before the first waiter of lower priority.
Place(list, t) ==
    CHOOSE i \in 1 .. Len(list) + 1 :
        /\ i <= Len(list) => Flag = "PRIO" /\ Prio[t] < Prio[list[i]]
        /\ Flag = "PRIO" => \A j \in 1 .. i - 1 : Prio[t] >= Prio[list[j]]
Suspended(list, t) == InsertAt(list, Place(list, t), t)

\* _ipc_list_resume, when the list is not empty.
Resumed(list) == IF list = <<>> THEN list ELSE Tail(list)

SleepsOn(t, list) == th' = [th EXCEPT ![t] = [on |-> list, error |-> "EOK"]]
Returns(t)        == th' = [th EXCEPT ![t] = Ready]

\* A call that is awake again, after rt_schedule.
Awake(t, on, list) == th[t].on = on /\ t \notin ToSet(list)
AwakeOK(on, list)  == {t \in Threads : Awake(t, on, list) /\ th[t].error = "EOK"}

\* _ipc_list_resume_all: every call that waits fails.
AllFail(failing) ==
    th' = [t \in Threads |-> IF t \in failing THEN [th[t] EXCEPT !.error = "ERROR"] ELSE th[t]]

\* _thread_timeout, in the timer interrupt, of a thread that waits on list.
TimedOut(t, list) ==
    /\ t \in ToSet(list)
    /\ th' = [th EXCEPT ![t].error = "ETIMEOUT"]
Without(list, t) == RemoveAt(list, CHOOSE i \in DOMAIN list : list[i] = t)

\* The waiters of a list are there once, wait for it, have no error yet, and
\* nobody stands behind a thread of lower priority.
InOrder(list, on) ==
    /\ IsInjective(list)
    /\ \A t \in ToSet(list) : th[t].on = on /\ th[t].error = "EOK"
    /\ Flag = "PRIO" => \A i, j \in 1 .. Len(list) : i < j => Prio[list[i]] <= Prio[list[j]]
=============================================================================
