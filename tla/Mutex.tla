-------------------------------- MODULE Mutex --------------------------------
(***************************************************************************)
(* The mutexes of the kernel (rt-thread/src/ipc.c) and the threads that    *)
(* call rt_mutex_take, rt_mutex_trytake (a take with time 0) and           *)
(* rt_mutex_release on them, any number of them at once and in any order.  *)
(*                                                                         *)
(* A mutex is recursive, is handed to its first waiter when its owner      *)
(* releases it, and lends the owner the priority of whoever waits.  What   *)
(* the owner gets back is original_priority, noted when it became owner:   *)
(* with several mutexes at once these notes depend on each other.          *)
(*                                                                         *)
(* An action is one stretch with interrupts disabled.  held, alone and     *)
(* crossed are history: the takes that returned RT_EOK and were not        *)
(* released, the mutexes whose owner has held no other one beside them,    *)
(* and the threads that have once released out of order.                   *)
(***************************************************************************)
EXTENDS Waiting

CONSTANTS
    Mutexes,
    MutexPrio,      \* the priority each thread was created with
    HoldMax,        \* RT_MUTEX_HOLD_MAX
    Nobody          \* RT_NULL

ASSUME MutexAssumption ==
    /\ MutexPrio \in [Threads -> Nat]
    /\ HoldMax \in Nat \ {0}
    /\ Nobody \notin Threads /\ Nobody \notin Mutexes

Lowest == 255       \* 0xFF

VARIABLES
    owner, mutexValue, hold, original,  \* of each mutex
    mutexWaiters,                       \* suspend_thread
    prio,                               \* current_priority of each thread
    taking,                             \* what each thread waits for, and its error
    held, alone, crossed                \* history

mutexVars ==
    <<owner, mutexValue, hold, original, mutexWaiters, prio, taking, held, alone, crossed>>

Idle == [mutex |-> Nobody, error |-> "EOK"]

\* rt_mutex_init.
MutexInit ==
    /\ owner = [m \in Mutexes |-> Nobody]
    /\ mutexValue = [m \in Mutexes |-> 1]
    /\ hold = [m \in Mutexes |-> 0]
    /\ original = [m \in Mutexes |-> Lowest]
    /\ mutexWaiters = [m \in Mutexes |-> <<>>]
    /\ prio = MutexPrio
    /\ taking = [t \in Threads |-> Idle]
    /\ held = [t \in Threads |-> <<>>]
    /\ alone = {} /\ crossed = {}

-----------------------------------------------------------------------------
(* Taking.                                                                 *)

\* _ipc_list_suspend with RT_IPC_FLAG_PRIO: before the first waiter that is, by
\* now, of lower priority.
MutexPlaceLast(list, t) == Len(list) + 1                    \* mutant of MutexPlace
MutexPlace(list, t) ==
    CHOOSE i \in 1 .. Len(list) + 1 :
        /\ i <= Len(list) => prio[t] < prio[list[i]]
        /\ \A j \in 1 .. i - 1 : prio[t] >= prio[list[j]]

\* History: t becomes owner of m.
Begins(t, m) ==
    alone' = IF held[t] = <<>> THEN alone \cup {m} ELSE alone \ ({m} \cup ToSet(held[t]))
MutexReturns(t, m) == held' = [held EXCEPT ![t] = Append(@, m)]

\* The owner takes it once more, unless the count is full (-RT_EFULL).
TakeAgain(t, m) ==
    /\ owner[m] = t
    /\ IF hold[m] < HoldMax
       THEN hold' = [hold EXCEPT ![m] = @ + 1] /\ MutexReturns(t, m)
       ELSE UNCHANGED <<hold, held>>
    /\ UNCHANGED <<owner, mutexValue, original, mutexWaiters, prio, taking, alone, crossed>>

TakeFree(t, m) ==
    /\ owner[m] # t /\ mutexValue[m] > 0
    /\ mutexValue' = [mutexValue EXCEPT ![m] = @ - 1]
    /\ owner' = [owner EXCEPT ![m] = t]
    /\ original' = [original EXCEPT ![m] = prio[t]]
    /\ IF hold[m] < HoldMax
       THEN hold' = [hold EXCEPT ![m] = @ + 1] /\ MutexReturns(t, m)
       ELSE UNCHANGED <<hold, held>>
    /\ Begins(t, m)
    /\ UNCHANGED <<mutexWaiters, prio, taking, crossed>>

\* Lend the owner this thread's priority, and sleep.
TakeWaits(t, m) ==
    /\ owner[m] # t /\ mutexValue[m] = 0
    /\ prio' = IF prio[t] < prio[owner[m]] THEN [prio EXCEPT ![owner[m]] = prio[t]] ELSE prio
    /\ mutexWaiters' = [mutexWaiters EXCEPT ![m] = InsertAt(@, MutexPlace(@, t), t)]
    /\ taking' = [taking EXCEPT ![t] = [mutex |-> m, error |-> "EOK"]]
    /\ UNCHANGED <<owner, mutexValue, hold, original, held, alone, crossed>>

Take(t, m, w) ==
    /\ taking[t] = Idle
    /\ \/ TakeAgain(t, m)
       \/ TakeFree(t, m)
       \/ w # "zero" /\ TakeWaits(t, m)
       \/ owner[m] # t /\ mutexValue[m] = 0 /\ w = "zero" /\ UNCHANGED mutexVars

\* After rt_schedule: the mutex is this thread's, or the wait has failed.
TakeResumed(t) ==
    LET m == taking[t].mutex IN
    /\ m # Nobody
    /\ t \notin ToSet(mutexWaiters[m])
    /\ taking' = [taking EXCEPT ![t] = Idle]
    /\ IF taking[t].error = "EOK" THEN MutexReturns(t, m) ELSE UNCHANGED held
    /\ UNCHANGED <<owner, mutexValue, hold, original, mutexWaiters, prio, alone, crossed>>

\* _thread_timeout, while the thread is still on the list.  The owner keeps the
\* priority that the thread has lent it.
Timeout(t) ==
    LET m == taking[t].mutex IN
    /\ m # Nobody
    /\ t \in ToSet(mutexWaiters[m])
    /\ mutexWaiters' = [mutexWaiters EXCEPT ![m] = Without(@, t)]
    /\ taking' = [taking EXCEPT ![t].error = "ETIMEOUT"]
    /\ UNCHANGED <<owner, mutexValue, hold, original, prio, held, alone, crossed>>

-----------------------------------------------------------------------------
(* Releasing.                                                              *)

\* History: the last take of m is undone.
LastTake(t, m) == CHOOSE i \in DOMAIN held[t] :
                     held[t][i] = m /\ \A j \in i + 1 .. Len(held[t]) : held[t][j] # m
Undone(t, m) ==
    /\ held' = [held EXCEPT ![t] = RemoveAt(@, LastTake(t, m))]
    /\ crossed' = IF LastTake(t, m) = Len(held[t]) THEN crossed ELSE crossed \cup {t}

\* The owner goes back to the priority it had when it became owner.
Restored(t, m) == [prio EXCEPT ![t] = original[m]]

HandOverKeepsOriginal(t, m) ==                              \* mutant of HandOver
    LET u == Head(mutexWaiters[m]) IN
    /\ mutexWaiters[m] # <<>>
    /\ owner' = [owner EXCEPT ![m] = u]
    /\ hold' = [hold EXCEPT ![m] = 1]
    /\ mutexWaiters' = [mutexWaiters EXCEPT ![m] = Tail(@)]
    /\ Begins(u, m)
    /\ UNCHANGED <<mutexValue, original>>

\* The first waiter becomes the owner before it runs.
HandOver(t, m) ==
    LET u == Head(mutexWaiters[m]) IN
    /\ mutexWaiters[m] # <<>>
    /\ owner' = [owner EXCEPT ![m] = u]
    /\ original' = [original EXCEPT ![m] = Restored(t, m)[u]]
    /\ hold' = [hold EXCEPT ![m] = 1]
    /\ mutexWaiters' = [mutexWaiters EXCEPT ![m] = Tail(@)]
    /\ Begins(u, m)
    /\ UNCHANGED mutexValue

PutBackBeside(m) ==                                         \* mutant of PutBack
    /\ owner' = [owner EXCEPT ![m] = Nobody]
    /\ mutexValue' = [mutexValue EXCEPT ![m] = @ + 1]
    /\ original' = [original EXCEPT ![m] = Lowest]
    /\ hold' = [hold EXCEPT ![m] = 0]
    /\ alone' = alone \ {m}
    /\ UNCHANGED mutexWaiters

\* Nobody waits.
PutBack(m) ==
    /\ mutexWaiters[m] = <<>>
    /\ owner' = [owner EXCEPT ![m] = Nobody]
    /\ mutexValue' = [mutexValue EXCEPT ![m] = @ + 1]
    /\ original' = [original EXCEPT ![m] = Lowest]
    /\ hold' = [hold EXCEPT ![m] = 0]
    /\ alone' = alone \ {m}
    /\ UNCHANGED mutexWaiters

Release(t, m) ==
    /\ taking[t] = Idle
    /\ owner[m] = t
    /\ Undone(t, m)
    /\ \/ /\ hold[m] > 1
          /\ hold' = [hold EXCEPT ![m] = @ - 1]
          /\ UNCHANGED <<owner, mutexValue, original, mutexWaiters, prio, alone>>
       \/ /\ hold[m] = 1
          /\ prio' = Restored(t, m)
          /\ HandOver(t, m) \/ PutBack(m)
    /\ UNCHANGED taking

\* Only the owner may release: -RT_ERROR.
ReleaseRefused(t, m) == taking[t] = Idle /\ owner[m] # t /\ UNCHANGED mutexVars

-----------------------------------------------------------------------------
MutexNext == \E t \in Threads :
    \/ \E m \in Mutexes :
          \/ \E w \in Timeouts : Take(t, m, w)
          \/ Release(t, m)
          \/ ReleaseRefused(t, m)
    \/ TakeResumed(t)
    \/ Timeout(t)

-----------------------------------------------------------------------------
(* What must hold.                                                         *)

\* The type of the state.
MutexTypeOK ==
    /\ owner \in [Mutexes -> Threads \cup {Nobody}]
    /\ mutexValue \in [Mutexes -> {0, 1}]
    /\ hold \in [Mutexes -> 0 .. HoldMax]
    /\ original \in [Mutexes -> Nat]
    /\ mutexWaiters \in [Mutexes -> Seq(Threads)]
    /\ prio \in [Threads -> Nat]
    /\ taking \in [Threads -> [mutex : Mutexes \cup {Nobody}, error : {"EOK", "ETIMEOUT"}]]
    /\ held \in [Threads -> Seq(Mutexes)]
    /\ alone \subseteq Mutexes
    /\ crossed \subseteq Threads

Takes(t, m)    == Cardinality({i \in DOMAIN held[t] : held[t][i] = m})
OnItsWay(t, m) == taking[t].mutex = m /\ t \notin ToSet(mutexWaiters[m]) /\ taking[t].error = "EOK"

\* A take that returned RT_EOK is the owner's, and the hold count is the number
\* of these takes and of the one a resumed thread is about to return from; so a
\* thread whose wait has failed or still lasts never counts, two threads never
\* hold a mutex at once, and a mutex nobody owns can be taken and has no waiter.
HoldsAreTheOwners ==
    \A m \in Mutexes :
        /\ \A t \in Threads : Takes(t, m) > 0 \/ OnItsWay(t, m) => owner[m] = t
        /\ owner[m] # Nobody =>
              hold[m] = Takes(owner[m], m) + (IF OnItsWay(owner[m], m) THEN 1 ELSE 0)
        /\ mutexValue[m] = 1 <=> owner[m] = Nobody
        /\ owner[m] = Nobody => hold[m] = 0 /\ mutexWaiters[m] = <<>>

\* What a thread was lent it gives back: one that owns no mutex runs at its own
\* priority, and one that does never below it, whichever waiters came, timed
\* out or were handed a mutex, while it was itself waiting or not.  Only a
\* thread that has released two mutexes out of order is excepted.
LoansEnd ==
    \A t \in Threads \ crossed :
        /\ prio[t] <= MutexPrio[t]
        /\ (\A m \in Mutexes : owner[m] # t) => prio[t] = MutexPrio[t]

\* The owner of a mutex is at least as urgent as each thread that waits for it.
\* This is for owners that have had no other mutex beside this one, because the
\* release of the other takes the loan back, and for waiters that own none,
\* because a waiter that is itself lent a priority does not pass it on.
WaiterNotOutranked ==
    \A m \in alone : \A t \in ToSet(mutexWaiters[m]) :
        held[t] = <<>> => prio[owner[m]] <= prio[t]
=============================================================================
