----------------------------- MODULE MCScheduler -----------------------------
(***************************************************************************)
(* The scheduler with two threads of one priority and the idle thread, for *)
(* TLC.  The priorities change between two levels.                         *)
(***************************************************************************)
EXTENDS Scheduler

PrioOf == [t \in Threads |-> IF t = "idle" THEN 3 ELSE 2]

\* One thread has a slice of two ticks.
SliceOf == [t \in Threads |-> IF t = "main" THEN 2 ELSE 1]
=============================================================================
