---------------------------- MODULE MCWorkerPool ----------------------------
(***************************************************************************)
(* WorkerPool with a few clients, one task of which has no executor.       *)
(***************************************************************************)
EXTENDS WorkerPool, TLC

CONSTANTS c1, c2

OneRejected == {[client |-> c1, call |-> 2]}
=============================================================================
