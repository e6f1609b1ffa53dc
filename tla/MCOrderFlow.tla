----------------------------- MODULE MCOrderFlow -----------------------------
(***************************************************************************)
(* OrderFlow on a small cluster: a primary that only consumes and workers  *)
(* that serve and consume.  The amounts are one of each sort: negative,    *)
(* positive but stored as zero, ordinary, and too large for the column.    *)
(***************************************************************************)
EXTENDS OrderFlow, TLC

CONSTANTS primary, w1, w2, o1, o2

MCAmounts == {-10, 4, 1000, 99999}

ValidAmount == {1000}

\* Workers are interchangeable, and so are orders.
WorkerSymmetry == Permutations({w1, w2})

OrderSymmetry == Permutations({o1, o2})
=============================================================================
