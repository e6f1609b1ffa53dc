---------------------------- MODULE MCUserLoader ----------------------------
(***************************************************************************)
(* UserLoader with two users and two requests, one of which may be for a   *)
(* user without a row.                                                     *)
(***************************************************************************)
EXTENDS UserLoader

CONSTANTS u1, u2, r1, r2, admin, standard
=============================================================================
