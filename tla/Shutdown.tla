------------------------------ MODULE Shutdown ------------------------------
(***************************************************************************)
(* A worker process from listen to exit: the requests it answers, the      *)
(* publications nobody awaits, the messages it consumes, and               *)
(* GracefulShutdownHelper.shutDown, which every SIGINT, SIGTERM or SIGUSR2 *)
(* calls once more.                                                        *)
(*                                                                         *)
(* RabbitMQInfrastructure.disconnect only forgets its channel: publish     *)
(* throws from then on, while the consumers go on receiving.  shutDown     *)
(* arms its timer when everything is done and clears it in the same step,  *)
(* so that the timer has no action here.                                   *)
(***************************************************************************)
EXTENDS Naturals

CONSTANTS
  Requests,   \* POST /orders requests clients may send
  Messages,   \* messages the broker may deliver
  MaxSignals, \* bound on the signals sent to the process
  MaxRetries, \* appConfig.SHUTDOWN_RETRIES
  MaxFails    \* bound on the queries that fail

ASSUME ShutdownAssumption ==
  /\ MaxSignals \in Nat
  /\ MaxRetries \in Nat
  /\ MaxFails \in Nat

Calls == 1..MaxSignals

VARIABLES
  server,     \* the HTTP server; httpServer.listening is server = "listening"
  request,    \* request[r]: what has become of r; its last query runs at "saving"
  event,      \* event[r]: the publication of r, "none" before it is started
  message,    \* message[m]: likewise, acknowledged as soon as it is delivered
  clients,    \* are the RabbitMQ channel and the Redis client there?
  db,         \* the connection pool; destroy turns it from "open" to "ending"
  signals,    \* number of signals received, and of shutDown calls
  step,       \* step[c]: where call c of shutDown is
  attempt,    \* attempt[c]: the attempt of executeWithRetry for the database
  fails,      \* number of queries that have failed
  exit        \* exit code, "none" while the process runs

work == <<request, event, message>>
services == <<clients, db>>
shutdown == <<signals, step, attempt>>
vars == <<server, work, services, shutdown, fails, exit>>

TypeOK ==
  /\ server \in {"starting", "listening", "closing", "closed"}
  /\ request \in [Requests -> {"new", "open", "saving", "answered", "refused", "failed"}]
  /\ event \in [Requests -> {"none", "asserting", "sent", "lost"}]
  /\ message \in [Messages -> {"queued", "acked", "saving", "done", "lost"}]
  /\ clients \in BOOLEAN
  /\ db \in {"open", "ending", "broken", "closed"}
  /\ signals \in 0..MaxSignals
  /\ step \in [Calls -> {"none", "closing", "waiting", "delay", "done", "failed"}]
  /\ attempt \in [Calls -> 0..MaxRetries]
  /\ fails \in 0..MaxFails
  /\ exit \in {"none", "0", "1"}

\* The signal handlers are registered and listen is called, in one turn; the
\* primary has not yet given the worker its socket.
Init ==
  /\ server = "starting"
  /\ request = [r \in Requests |-> "new"]
  /\ event = [r \in Requests |-> "none"]
  /\ message = [m \in Messages |-> "queued"]
  /\ clients = TRUE
  /\ db = "open"
  /\ signals = 0
  /\ step = [c \in Calls |-> "none"]
  /\ attempt = [c \in Calls |-> 0]
  /\ fails = 0
  /\ exit = "none"

\* The requests whose connection is still open, and the work that holds a
\* connection of the pool.
Open == {r \in Requests : request[r] \in {"open", "saving"}}
PoolFree ==
  /\ \A r \in Requests : request[r] # "saving"
  /\ \A m \in Messages : message[m] # "saving"

\* Mutant: unhandledRejection exits with code 0.
RejectsQuietly == exit' = "0"

\* The rejection has no handler: unhandledRejection exits with code 1.
Rejects == exit' = "1"

-----------------------------------------------------------------------------
(* Serving *)

\* No signal keeps the server from listening once listen is called.
Listen ==
  /\ exit = "none"
  /\ server = "starting"
  /\ server' = "listening"
  /\ UNCHANGED <<work, services, shutdown, fails, exit>>

\* A closing server still serves the connections it has.
Accept(r) ==
  /\ exit = "none"
  /\ server \in {"listening", "closing"}
  /\ request[r] = "new"
  /\ request' = [request EXCEPT ![r] = "open"]
  /\ UNCHANGED <<server, event, message, services, shutdown, fails, exit>>

\* createOrder has a connection for the last of its queries.
Save(r) ==
  /\ exit = "none"
  /\ request[r] = "open"
  /\ db = "open"
  /\ request' = [request EXCEPT ![r] = "saving"]
  /\ UNCHANGED <<server, event, message, services, shutdown, fails, exit>>

\* A pool that has ended gives no connection: the error middleware answers.
Refuse(r) ==
  /\ exit = "none"
  /\ request[r] = "open"
  /\ db # "open"
  /\ request' = [request EXCEPT ![r] = "refused"]
  /\ UNCHANGED <<server, event, message, services, shutdown, fails, exit>>

\* A query of createOrder fails: the error middleware answers.
FailQuery(r) ==
  /\ exit = "none"
  /\ fails < MaxFails
  /\ request[r] \in {"open", "saving"}
  /\ request' = [request EXCEPT ![r] = "failed"]
  /\ fails' = fails + 1
  /\ UNCHANGED <<server, event, message, services, shutdown, exit>>

\* The order is saved; its event waits for assertQueue, if there is a channel.
Answer(r) ==
  /\ exit = "none"
  /\ request[r] = "saving"
  /\ request' = [request EXCEPT ![r] = "answered"]
  /\ \/ /\ clients
        /\ event' = [event EXCEPT ![r] = "asserting"]
        /\ UNCHANGED exit
     \/ /\ ~clients
        /\ event' = [event EXCEPT ![r] = "lost"]
        /\ Rejects
  /\ UNCHANGED <<server, message, services, shutdown, fails>>

\* assertQueue has answered: sendToQueue, if the channel is still there.
Publish(r) ==
  /\ exit = "none"
  /\ event[r] = "asserting"
  /\ \/ /\ clients
        /\ event' = [event EXCEPT ![r] = "sent"]
        /\ UNCHANGED exit
     \/ /\ ~clients
        /\ event' = [event EXCEPT ![r] = "lost"]
        /\ Rejects
  /\ UNCHANGED <<server, request, message, services, shutdown, fails>>

\* The consumer passes the message to its handler and acknowledges it.
Deliver(m) ==
  /\ exit = "none"
  /\ message[m] = "queued"
  /\ message' = [message EXCEPT ![m] = "acked"]
  /\ UNCHANGED <<server, request, event, services, shutdown, fails, exit>>

\* handleInvoiceGeneration, up to the last of its queries.
Handle(m) ==
  /\ exit = "none"
  /\ message[m] = "acked"
  /\ \/ /\ clients /\ db = "open"
        /\ message' = [message EXCEPT ![m] = "saving"]
        /\ UNCHANGED exit
     \/ /\ ~clients \/ db # "open"
        /\ message' = [message EXCEPT ![m] = "lost"]
        /\ Rejects
  /\ UNCHANGED <<server, request, event, services, shutdown, fails>>

\* The invoice is saved.
Handled(m) ==
  /\ exit = "none"
  /\ message[m] = "saving"
  /\ message' = [message EXCEPT ![m] = "done"]
  /\ UNCHANGED <<server, request, event, services, shutdown, fails, exit>>

\* Mutant: the consumer catches the rejection of its handler.
FailHandlerCaught(m) ==
  /\ exit = "none"
  /\ fails < MaxFails
  /\ message[m] \in {"acked", "saving"}
  /\ message' = [message EXCEPT ![m] = "lost"]
  /\ fails' = fails + 1
  /\ UNCHANGED <<server, request, event, services, shutdown, exit>>

\* A query of the handler fails, and nothing handles its rejection.
FailHandler(m) ==
  /\ exit = "none"
  /\ fails < MaxFails
  /\ message[m] \in {"acked", "saving"}
  /\ message' = [message EXCEPT ![m] = "lost"]
  /\ fails' = fails + 1
  /\ Rejects
  /\ UNCHANGED <<server, request, event, services, shutdown>>

-----------------------------------------------------------------------------
(* GracefulShutdownHelper and RetryHelper *)

\* An attempt has failed: another one after a delay, or none.
AfterFailure(k) == IF k < MaxRetries THEN "delay" ELSE "failed"

\* Mutant: destroy does not refuse to end a pool twice.
DisconnectDbTwice(c, k) ==
  /\ attempt' = [attempt EXCEPT ![c] = k]
  /\ db' = "ending"
  /\ step' = [step EXCEPT ![c] = "waiting"]

\* Attempt k of call c at DbConnectionInfrastructure.disconnect: the first
\* destroy ends the pool, a later one is refused until the first is done.
DisconnectDb(c, k) ==
  /\ attempt' = [attempt EXCEPT ![c] = k]
  /\ \/ /\ db = "open"
        /\ db' = "ending"
        /\ step' = [step EXCEPT ![c] = "waiting"]
     \/ /\ db = "closed"
        /\ step' = [step EXCEPT ![c] = "done"]
        /\ UNCHANGED db
     \/ /\ db \in {"ending", "broken"}
        /\ step' = [step EXCEPT ![c] = AfterFailure(k)]
        /\ UNCHANGED db

\* disconnectServices, up to its first await.  The channel and the Redis
\* client go at once and without fail.  If there is no attempt to make,
\* executeWithRetry makes none.
DisconnectServices(c) ==
  IF MaxRetries = 0
  THEN /\ step' = [step EXCEPT ![c] = "failed"]
       /\ UNCHANGED <<services, attempt>>
  ELSE /\ clients' = FALSE
       /\ DisconnectDb(c, 1)

\* Mutant: shutDown does not await the close of the server.
ShutDownAtOnce(c) ==
  /\ exit = "none"
  /\ c = signals + 1
  /\ signals' = c
  /\ server' = IF server = "listening" THEN "closing" ELSE server
  /\ DisconnectServices(c)
  /\ UNCHANGED <<work, fails, exit>>

\* A signal.  A call that finds the server not listening, or no longer, does
\* not wait for it.
ShutDown(c) ==
  /\ exit = "none"
  /\ c = signals + 1
  /\ signals' = c
  /\ \/ /\ server = "listening"
        /\ server' = "closing"
        /\ step' = [step EXCEPT ![c] = "closing"]
        /\ UNCHANGED <<services, attempt>>
     \/ /\ server # "listening"
        /\ UNCHANGED server
        /\ DisconnectServices(c)
  /\ UNCHANGED <<work, fails, exit>>

\* The last open request has been answered and close calls back.
Closed(c) ==
  /\ exit = "none"
  /\ step[c] = "closing"
  /\ Open = {}
  /\ server' = "closed"
  /\ DisconnectServices(c)
  /\ UNCHANGED <<work, signals, fails, exit>>

\* destroy is done once every connection is back, or it fails and leaves an
\* ended pool behind.
DbEnds(c) ==
  /\ exit = "none"
  /\ step[c] = "waiting"
  /\ \/ /\ PoolFree
        /\ db' = "closed"
        /\ step' = [step EXCEPT ![c] = "done"]
     \/ /\ db' = "broken"
        /\ step' = [step EXCEPT ![c] = AfterFailure(attempt[c])]
  /\ UNCHANGED <<server, work, clients, signals, attempt, fails, exit>>

Retry(c) ==
  /\ exit = "none"
  /\ step[c] = "delay"
  /\ DisconnectDb(c, attempt[c] + 1)
  /\ UNCHANGED <<server, work, clients, signals, fails, exit>>

\* Mutant: process.exit(0) is part of the try block, not of finally.
ExitIfDone(c) ==
  /\ exit = "none"
  /\ step[c] = "done"
  /\ exit' = "0"
  /\ UNCHANGED <<server, work, services, shutdown, fails>>

\* finally: exit(0), whether the services are disconnected or given up.
Exit(c) ==
  /\ exit = "none"
  /\ step[c] \in {"done", "failed"}
  /\ exit' = "0"
  /\ UNCHANGED <<server, work, services, shutdown, fails>>

-----------------------------------------------------------------------------
Serve ==
  \/ Listen
  \/ \E r \in Requests :
       \/ Accept(r) \/ Save(r) \/ Refuse(r) \/ FailQuery(r)
       \/ Answer(r) \/ Publish(r)
  \/ \E m \in Messages :
       Deliver(m) \/ Handle(m) \/ Handled(m) \/ FailHandler(m)

Proceed(c) == Closed(c) \/ Retry(c) \/ Exit(c)

Next ==
  \/ Serve
  \/ \E c \in Calls : ShutDown(c) \/ Proceed(c) \/ DbEnds(c)

Spec == Init /\ [][Next]_vars

\* The process takes its own steps; the database owes nothing.
TimerSpec == Spec /\ \A c \in Calls : WF_vars(Proceed(c))

\* The database answers, too: queries end, and so does the pool.
FairSpec ==
  /\ TimerSpec
  /\ \A c \in Calls : WF_vars(DbEnds(c))
  /\ \A r \in Requests : WF_vars(Save(r) \/ Refuse(r)) /\ WF_vars(Answer(r))
  /\ \A m \in Messages : WF_vars(Handled(m))

-----------------------------------------------------------------------------
(* Properties *)

\* Where a call of shutDown is agrees with the server and the database: one
\* call at most waits for the server and one for the pool.
CallsFollow ==
  /\ \A c \in Calls : step[c] # "none" <=> c <= signals
  /\ \A c \in Calls : step[c] = "closing" => server = "closing"
  /\ \A c \in Calls : step[c] = "waiting" =>
                       db = "ending" /\ attempt[c] \in 1..MaxRetries
  /\ \A c \in Calls : step[c] = "delay" =>
                       db # "open" /\ attempt[c] \in 1..(MaxRetries - 1)
  /\ \A c, d \in Calls :
       step[c] = step[d] /\ step[c] \in {"closing", "waiting"} => c = d

\* The clients are there exactly as long as the pool is open; the pool is
\* closed under nobody's query, and no request is refused before it is ended.
ServicesFollow ==
  /\ clients <=> db = "open"
  /\ signals = 0 => db = "open" /\ server \in {"starting", "listening"}
  /\ db = "open" => \A r \in Requests : request[r] # "refused"
  /\ db = "closed" => PoolFree

\* One signal that finds the server listening disconnects nothing before the
\* last request is answered; only a query that fails ends the process earlier.
ClosedFirst ==
  signals = 1 /\ server \in {"closing", "closed"} =>
    \/ clients /\ step[1] = "closing" /\ (exit = "none" \/ (exit = "1" /\ fails > 0))
    \/ server = "closed" /\ Open = {} /\ \A r \in Requests : request[r] # "refused"

\* The state of a process that is shut down hangs together at every step of
\* every call of shutDown: the inductive invariant.
ShutdownInvariant == TypeOK /\ CallsFollow /\ ServicesFollow /\ ClosedFirst

\* One signal that finds the server listening shuts down gracefully: as long as
\* a request is open the services it uses are there and the process runs, unless
\* a query fails under a handler, and no request is refused.
OneSignalIsGraceful ==
  signals = 1 /\ server \in {"closing", "closed"} =>
    /\ Open # {} => clients /\ db = "open" /\ (exit = "none" \/ (exit = "1" /\ fails > 0))
    /\ \A r \in Requests : request[r] # "refused"

\* A publication or a message that fails ends the process with 1, before it can
\* take another step, and nothing else does: a failed request never, a failed
\* attempt at disconnecting never.  (What is under way when the process exits
\* with 0 is lost, too, and nobody is told.)
LossIsFatal ==
  exit = "1" <=> \/ \E r \in Requests : event[r] = "lost"
                 \/ \E m \in Messages : message[m] = "lost"

\* The life of the worker, for a primary that lives.
Life == IF exit = "0" THEN "left"
        ELSE IF exit = "1" THEN "failed"
        ELSE IF signals > 0 THEN "closing" ELSE "serving"

\* A worker serves, closes and ends as WorkerLife allows, whatever runs and
\* fails in it: what Bootstrap takes for the one step of closing is what
\* shutDown does here, and no unhandled rejection looks like a shutdown to the
\* primary, which would not replace the worker.
WorkerLives == INSTANCE WorkerLife
                 WITH Workers <- {"worker"}, life <- [w \in {"worker"} |-> Life],
                      alone <- FALSE

ImplementsWorkerLife == WorkerLives!Spec

\* Once signalled, the process exits: whatever requests, publications and
\* handlers are under way, however many signals follow and whichever attempts
\* at disconnecting fail.
ShutdownEnds == signals > 0 ~> exit # "none"

\* The log says 'Shutdown timeout reached, forcing process exit': a shutdown
\* that waits for a request or for the database is cut short.
ShutdownIsForced == signals > 0 ~> exit # "none"
=============================================================================
