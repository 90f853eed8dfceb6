---------------------------- MODULE MCIpcObjects ----------------------------
(***************************************************************************)
(* A semaphore, an event, a mailbox and two mutexes, for TLC.              *)
(***************************************************************************)
EXTENDS IpcObjects

\* One thread above two of the same priority.
PrioOf == [t \in Threads |-> IF t = "high" THEN 1 ELSE 2]

\* Three priorities for the mutexes, so that a loan can be raised once more.
MutexPrioOf == [t \in Threads |-> CASE t = "high" -> 1 [] t = "mid" -> 2 [] t = "low" -> 3]

\* One bit, either or both of two, with and without RT_EVENT_FLAG_CLEAR.
EventWishes ==
    {[set |-> {1}, all |-> FALSE, clear |-> TRUE],
     [set |-> {1}, all |-> FALSE, clear |-> FALSE],
     [set |-> {1, 2}, all |-> FALSE, clear |-> TRUE],
     [set |-> {1, 2}, all |-> TRUE, clear |-> TRUE],
     [set |-> {1, 2}, all |-> TRUE, clear |-> FALSE]}
=============================================================================
