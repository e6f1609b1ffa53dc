---------------------------- MODULE TaskPromises ----------------------------
(***************************************************************************)
(* What the callers of executeHeavyTask see of the worker threads: each    *)
(* awaits one promise at a time, which is resolved with the result of a    *)
(* task that somebody has handed over, or rejected with its error or that  *)
(* of a dead thread.  The result or the error is that of the caller's own  *)
(* task as long as no two promises have been awaited at once.  WorkerPool  *)
(* implements this specification with its queue and its threads.           *)
(***************************************************************************)
EXTENDS Naturals

CONSTANTS
  Clients,     \* concurrent callers
  Calls,       \* promises each caller awaits, one after the other
  Rejected,    \* tasks whose executor throws
  Nothing      \* no answer yet

VARIABLES
  calls,       \* calls[c]: promises client c has asked for
  client,      \* client[c]: "ready", "waiting" or "failed"
  answer,      \* answer[c]: what the last resolved promise of c came to
  overlapped,  \* have two promises ever been awaited at once?
  errors,      \* number of threads that have died
  stopped      \* has the process exited?

promiseVars == <<calls, client, answer, overlapped, errors, stopped>>

Init ==
  /\ calls = [c \in Clients |-> 0]
  /\ client = [c \in Clients |-> "ready"]
  /\ answer = [c \in Clients |-> Nothing]
  /\ overlapped = FALSE
  /\ errors = 0
  /\ stopped = FALSE

HandOver(c) ==
  /\ client[c] = "ready"
  /\ calls[c] < Calls
  /\ calls' = [calls EXCEPT ![c] = @ + 1]
  /\ client' = [client EXCEPT ![c] = "waiting"]
  /\ overlapped' = (overlapped \/ \E d \in Clients : client[d] = "waiting")
  /\ UNCHANGED <<answer, errors, stopped>>

HandedOver == UNION {[client : {d}, call : 1..calls[d]] : d \in Clients}

\* The tasks whose outcome the promise of c may take.
Outcomes(c) ==
  IF overlapped THEN HandedOver ELSE {[client |-> c, call |-> calls[c]]}

Resolve(c) ==
  /\ client[c] = "waiting"
  /\ client' = [client EXCEPT ![c] = "ready"]
  /\ \E t \in Outcomes(c) \ Rejected : answer' = [answer EXCEPT ![c] = t]
  /\ UNCHANGED <<calls, overlapped, errors, stopped>>

\* An executor has thrown.
Reject(c) ==
  /\ client[c] = "waiting"
  /\ client' = [client EXCEPT ![c] = "failed"]
  /\ Outcomes(c) \cap Rejected # {}
  /\ UNCHANGED <<calls, answer, overlapped, errors, stopped>>

\* A thread has died: one promise at most is rejected.
ThreadDies ==
  /\ errors' = errors + 1
  /\ \/ UNCHANGED client
     \/ \E c \in Clients : /\ client[c] = "waiting"
                           /\ client' = [client EXCEPT ![c] = "failed"]
  /\ UNCHANGED <<calls, answer, overlapped, stopped>>

\* The process exits: what is awaited stays so for ever.
Stop ==
  /\ stopped' = TRUE
  /\ UNCHANGED <<calls, client, answer, overlapped, errors>>

Next ==
  /\ ~stopped
  /\ \/ \E c \in Clients : HandOver(c) \/ Resolve(c) \/ Reject(c)
     \/ ThreadDies
     \/ Stop

Spec == Init /\ [][Next]_promiseVars
=============================================================================
