------------------------------ MODULE MCCabinet ------------------------------
(***************************************************************************)
(* The cabinet, for TLC.                                                   *)
(***************************************************************************)
EXTENDS CabinetInv

\* One initial state: an empty cabinet at rest.  For the runs that look for a
\* behaviour rather than check them all.
AtRest == kv = {} /\ at = 0 /\ t = 0 /\ door = {}
RestSpec == AtRest /\ Spec
=============================================================================
