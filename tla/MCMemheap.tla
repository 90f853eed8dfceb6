------------------------------ MODULE MCMemheap ------------------------------
(***************************************************************************)
(* The heap, for TLC.                                                      *)
(***************************************************************************)
EXTENDS Memheap

\* The pointers are alike.
Alike == Permutations(Handles)
=============================================================================
