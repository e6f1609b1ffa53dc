---------------------------- MODULE MCPagedList ----------------------------
(***************************************************************************)
(* PagedList with two clients and a handful of rows.                       *)
(***************************************************************************)
EXTENDS PagedList, TLC

CONSTANTS c1, c2, x1, x2, x3

Symmetry == Permutations(Rows) \cup Permutations(Clients)
=============================================================================
