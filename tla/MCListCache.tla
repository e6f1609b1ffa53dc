----------------------------- MODULE MCListCache -----------------------------
(***************************************************************************)
(* ListCache with two list calls and two invoice generations at a time.    *)
(***************************************************************************)
EXTENDS ListCache, TLC

CONSTANTS r1, r2, h1, h2
=============================================================================
