---------------------------- MODULE MCMigration ----------------------------
(***************************************************************************)
(* Migration with two containers that start at once and two operators who  *)
(* revert what they do.                                                    *)
(***************************************************************************)
EXTENDS Migration

CONSTANTS c1, c2, o1, o2
=============================================================================
