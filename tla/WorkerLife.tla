----------------------------- MODULE WorkerLife -----------------------------
(***************************************************************************)
(* What may become of a worker, seen from outside: it starts, serves,      *)
(* closes once it is signalled and ends; nobody leaves for good without    *)
(* having been told to close, unless the primary is gone, and nobody is    *)
(* replaced who has left or while the primary is gone.  Bootstrap          *)
(* implements this specification for the workers of a cluster and          *)
(* Shutdown for the one it opens up.                                       *)
(***************************************************************************)

CONSTANTS
  Workers      \* the places for workers

VARIABLES
  life,        \* life[w]: how far the worker in place w is
  alone        \* is the primary gone?

lifeVars == <<life, alone>>

Running == {"starting", "serving", "closing"}

\* Not forked yet; exit code 0; exit code 1; ended by a signal.
Lives == Running \cup {"absent", "left", "failed", "killed"}

Init ==
  /\ life \in [Workers -> {"absent", "serving"}]
  /\ alone = FALSE

\* The next life of a worker that goes on, by itself or because of a signal: a
\* worker that does not serve yet does not handle it.
Onward == [absent   |-> {},
           starting |-> {"serving", "failed", "killed"},
           serving  |-> {"closing", "failed"},
           closing  |-> {"left", "failed"},
           left     |-> {},
           failed   |-> {},
           killed   |-> {}]

\* The primary forks a worker for a place without one.
Forked(l) == ~alone /\ l \in {"absent", "failed", "killed"}

\* A worker whose primary is gone ends, with 0.
Orphaned(l) == alone /\ l \in Running

\* One signal, or one outage, reaches any number of workers at once.
Next ==
  /\ alone => alone'
  /\ life' \in [Workers -> Lives]
  /\ \A w \in Workers :
       \/ life'[w] = life[w]
       \/ life'[w] \in Onward[life[w]]
       \/ Forked(life[w]) /\ life'[w] = "starting"
       \/ Orphaned(life[w]) /\ life'[w] = "left"

Spec == Init /\ [][Next]_lifeVars
=============================================================================
