----------------------------- MODULE MCInventory -----------------------------
(***************************************************************************)
(* The component database, for TLC.                                        *)
(***************************************************************************)
EXTENDS Inventory

\* A negative number, an ordinary one, and one that atoi cannot represent in
\* three bits; a row accepts any text, and the sums reach every amount.
TypedNumbers == {-1, 1, 5}
=============================================================================
