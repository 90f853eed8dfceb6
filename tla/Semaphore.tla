------------------------------ MODULE Semaphore ------------------------------
(***************************************************************************)
(* A semaphore of the kernel (rt_sem_* of rt-thread/src/ipc.c).  A release *)
(* gives to the first waiter or to the value, never to both; the waiter    *)
(* runs later.  Interrupt handlers release too, so a release has no caller *)
(* that must be ready.  balance is history: the initial value and the      *)
(* releases that returned RT_EOK, less the takes that did.                 *)
(***************************************************************************)
EXTENDS Waiting

CONSTANTS SemInitial, SemMax        \* the value at the start, RT_SEM_VALUE_MAX

ASSUME SemaphoreAssumption == SemMax \in Nat \ {0} /\ SemInitial \in 0 .. SemMax

VARIABLES value, semWaiters, balance

semVars == <<value, semWaiters, balance>>

\* rt_sem_init.
SemInit == value = SemInitial /\ semWaiters = <<>> /\ balance = SemInitial

SemTake(t, w) ==
    /\ th[t] = Ready
    /\ \/ /\ value > 0
          /\ value' = value - 1 /\ balance' = balance - 1
          /\ UNCHANGED <<semWaiters, th>>
       \/ value = 0 /\ w = "zero" /\ UNCHANGED <<semVars, th>>
       \/ /\ value = 0 /\ w # "zero"
          /\ semWaiters' = Suspended(semWaiters, t)
          /\ SleepsOn(t, "sem")
          /\ UNCHANGED <<value, balance>>

\* After rt_schedule: no second look at the value.
SemTakeResumed(t) ==
    /\ Awake(t, "sem", semWaiters)
    /\ balance' = IF th[t].error = "EOK" THEN balance - 1 ELSE balance
    /\ Returns(t)
    /\ UNCHANGED <<value, semWaiters>>

SemReleaseBoth ==                                   \* mutant of SemRelease
    /\ semWaiters' = Resumed(semWaiters)
    /\ value < SemMax /\ value' = value + 1
    /\ balance' = balance + 1
    /\ UNCHANGED th

\* By a thread or an interrupt handler; at the largest value -RT_EFULL.
SemRelease ==
    /\ \/ /\ semWaiters # <<>>
          /\ semWaiters' = Tail(semWaiters) /\ balance' = balance + 1
          /\ UNCHANGED value
       \/ /\ semWaiters = <<>> /\ value < SemMax
          /\ value' = value + 1 /\ balance' = balance + 1
          /\ UNCHANGED semWaiters
       \/ semWaiters = <<>> /\ value = SemMax /\ UNCHANGED semVars
    /\ UNCHANGED th

\* rt_sem_control, RT_IPC_CMD_RESET.  A thread that a release has woken still
\* returns RT_EOK.
SemReset(t, v) ==
    /\ th[t] = Ready
    /\ AllFail(ToSet(semWaiters))
    /\ semWaiters' = <<>>
    /\ value' = v
    /\ balance' = v + Cardinality(AwakeOK("sem", semWaiters))

SemTimeout(t) ==
    /\ TimedOut(t, semWaiters)
    /\ semWaiters' = Without(semWaiters, t)
    /\ UNCHANGED <<value, balance>>

SemNext ==
    \/ SemRelease
    \/ \E t \in Threads :
          \/ \E w \in Timeouts : SemTake(t, w)
          \/ SemTakeResumed(t)
          \/ \E v \in 0 .. SemMax : SemReset(t, v)
          \/ SemTimeout(t)

\* Takes and releases balance: what was released and not taken is the value or
\* with a thread that was woken for it, whatever waits time out or are reset
\* between the wake-up of a thread and its return; nobody waits while the value
\* would let it pass, and the waiters stand in order.
SemBalanced ==
    /\ balance = value + Cardinality(AwakeOK("sem", semWaiters))
    /\ semWaiters # <<>> => value = 0
    /\ InOrder(semWaiters, "sem")
=============================================================================
