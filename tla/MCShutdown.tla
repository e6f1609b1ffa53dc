----------------------------- MODULE MCShutdown -----------------------------
(***************************************************************************)
(* Shutdown with two requests and two messages.                            *)
(***************************************************************************)
EXTENDS Shutdown, TLC

CONSTANTS r1, r2, m1, m2
=============================================================================
