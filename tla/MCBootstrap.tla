---------------------------- MODULE MCBootstrap ----------------------------
(***************************************************************************)
(* Bootstrap with a primary and two workers.                               *)
(***************************************************************************)
EXTENDS Bootstrap

CONSTANTS primary, w1, w2
=============================================================================
