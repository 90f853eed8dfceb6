----------------------------- MODULE MCMsgQueue -----------------------------
(***************************************************************************)
(* The message queue, for TLC.                                             *)
(***************************************************************************)
EXTENDS MsgQueue

\* The GUI's thread above the others, two threads of one priority below it.
PrioOf == [t \in Threads |-> IF t = "gui" THEN 1 ELSE 2]
=============================================================================
