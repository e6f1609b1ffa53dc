------------------------------ MODULE Bootstrap ------------------------------
(***************************************************************************)
(* One lifetime of the program: the cluster primary and the workers it     *)
(* forks, from ServerBootstrapper.start to the exit of the last process.   *)
(* Every process, the primary included, connects to RabbitMQ, Redis and    *)
(* PostgreSQL in turn and subscribes to the queues; then the primary forks *)
(* the workers, and a worker listens for HTTP requests.  A step is the     *)
(* code between two awaits.  Services go away and come back, processes     *)
(* crash, and signals reach any set of processes at any time.              *)
(***************************************************************************)
EXTENDS Integers, Sequences

CONSTANTS
  Primary,    \* the process that is started from outside
  Workers,    \* places for the CLUSTER_WORKERS processes it forks
  MaxFaults,  \* bound on outages of services and crashes of processes
  MaxSignals  \* bound on the signals SIGINT, SIGTERM, SIGUSR2

ASSUME BootAssumption ==
  /\ Primary \notin Workers
  /\ MaxFaults \in Nat
  /\ MaxSignals \in Nat

VARIABLES
  proc,      \* proc[p]: the process p, or what has become of it
  services,  \* the services that can be reached
  stopped,   \* history: workers signalled since they listen
  faults,    \* number of outages and crashes so far
  signals    \* number of signals so far

vars == <<proc, services, stopped, faults, signals>>

Processes == {Primary} \cup Workers

Services == {"rabbitMQ", "redis", "database"}

Queues == {"status", "invoice", "failed"}

\* The queue of the subscriber that each of serviceKeys initializes: a
\* subscriber comes first, then the service that initializes it once more.
ServiceKeys == <<"status", "status", "invoice", "invoice", "failed", "failed">>

\* "connecting to a service" is called by the service's name.
Steps == Services \cup {"subscribing", "serving", "closing"}

\* Not forked yet; exit code 0; exit code 1; ended by a signal.
Ends == {"absent", "left", "failed", "killed"}

Process == [step : Steps \cup Ends,
            key : 1 .. Len(ServiceKeys) + 1,    \* place in serviceKeys
            initialized : SUBSET Queues,        \* subscribers' isInitialized
            consumers : [Queues -> Nat],        \* consumers at the broker
            channel : {"none", "open", "closed"}]

At(s) == [step |-> s, key |-> 1, initialized |-> {},
          consumers |-> [q \in Queues |-> 0], channel |-> "none"]

Step(p) == proc[p].step

Alive(p) == Step(p) \in Steps

TypeOK ==
  /\ proc \in [Processes -> Process]
  /\ services \in SUBSET Services
  /\ stopped \in SUBSET Workers
  /\ faults \in Nat
  /\ signals \in Nat

Init ==
  /\ proc = [p \in Processes |-> At(IF p = Primary THEN "rabbitMQ"
                                                   ELSE "absent")]
  /\ services = Services
  /\ stopped = {}
  /\ faults = 0
  /\ signals = 0

outside == <<services, stopped, faults, signals>>

-----------------------------------------------------------------------------
(* ServerBootstrapper.start *)

NextStep == [s \in Services |-> CASE s = "rabbitMQ" -> "redis"
                                  [] s = "redis"    -> "database"
                                  [] s = "database" -> "subscribing"]

\* A client is connected, the next one is created.
Connect(p) ==
  /\ Step(p) \in services
  /\ proc' = [proc EXCEPT
       ![p].step = NextStep[Step(p)],
       ![p].channel = IF Step(p) = "rabbitMQ" THEN "open" ELSE @]
  /\ UNCHANGED outside

\* The service refuses, and start exits.
FailToConnect(p) ==
  /\ Step(p) \in Services \ services
  /\ proc' = [proc EXCEPT ![p] = At("failed")]
  /\ UNCHANGED outside

Subscribed(r, q) ==
  [r EXCEPT !.key = @ + 1,
            !.initialized = @ \cup {q},
            !.consumers = [r.consumers EXCEPT ![q] = @ + 1]]

\* Mutant: a subscriber does not look at isInitialized.
SubscribeAgain(p) ==
  /\ Step(p) = "subscribing"
  /\ proc[p].key <= Len(ServiceKeys)
  /\ LET q == ServiceKeys[proc[p].key]
     IN  IF proc[p].channel = "open"
         THEN proc' = [proc EXCEPT ![p] = Subscribed(@, q)]
         ELSE proc' = [proc EXCEPT ![p] = At("failed")]
  /\ UNCHANGED outside

\* The next of serviceKeys initializes its subscriber, if nobody has: on a
\* closed channel that is an error, and start exits.
Subscribe(p) ==
  /\ Step(p) = "subscribing"
  /\ proc[p].key <= Len(ServiceKeys)
  /\ LET q == ServiceKeys[proc[p].key]
     IN  \/ /\ q \in proc[p].initialized
            /\ proc' = [proc EXCEPT ![p].key = @ + 1]
         \/ /\ q \notin proc[p].initialized
            /\ proc[p].channel = "open"
            /\ proc' = [proc EXCEPT ![p] = Subscribed(@, q)]
         \/ /\ q \notin proc[p].initialized
            /\ proc[p].channel = "closed"
            /\ proc' = [proc EXCEPT ![p] = At("failed")]
  /\ UNCHANGED outside

Initialized(p) == Step(p) = "subscribing" /\ proc[p].key > Len(ServiceKeys)

\* Mutant: the subscribers are not awaited.
ForkWorkersEarly ==
  /\ Step(Primary) = "subscribing"
  /\ proc' = [p \in Processes |->
                IF p = Primary THEN [proc[p] EXCEPT !.step = "serving"]
                               ELSE At("rabbitMQ")]
  /\ UNCHANGED outside

\* ClusterInfrastructure.initialize in the primary, which serves nobody.
ForkWorkers ==
  /\ Initialized(Primary)
  /\ proc' = [p \in Processes |->
                IF p = Primary THEN [proc[p] EXCEPT !.step = "serving"]
                               ELSE At("rabbitMQ")]
  /\ UNCHANGED outside

\* A worker builds its server, installs the signal handlers and listens.
StartServer(w) ==
  /\ Initialized(w)
  /\ proc' = [proc EXCEPT ![w].step = "serving"]
  /\ UNCHANGED outside

\* Mutant: only exit codes are looked at.
RestartFailed(w) ==
  /\ Step(Primary) = "serving"
  /\ Step(w) = "failed"
  /\ proc' = [proc EXCEPT ![w] = At("rabbitMQ")]
  /\ stopped' = stopped \ {w}
  /\ UNCHANGED <<services, faults, signals>>

\* The primary's handler of "exit" replaces a worker that has not exited
\* with 0.
Restart(w) ==
  /\ Step(Primary) = "serving"
  /\ Step(w) \in {"failed", "killed"}
  /\ proc' = [proc EXCEPT ![w] = At("rabbitMQ")]
  /\ stopped' = stopped \ {w}
  /\ UNCHANGED <<services, faults, signals>>

\* The channel to the primary has closed: node ends the worker, with 0.
Orphan(w) ==
  /\ Alive(w)
  /\ ~Alive(Primary)
  /\ proc' = [proc EXCEPT ![w] = At("left")]
  /\ UNCHANGED outside

\* The end of shutDown, with 0 unless an unhandled rejection comes first.
ShutDownEnds(w) ==
  /\ Step(w) = "closing"
  /\ \E e \in {"left", "failed"} : proc' = [proc EXCEPT ![w] = At(e)]
  /\ UNCHANGED outside

-----------------------------------------------------------------------------
(* Signals and faults *)

\* Mutant: a worker handles signals from the start.
SignalledEarly(p) ==
  IF p = Primary THEN At("killed")
  ELSE IF Step(p) \in {"serving", "closing"}
       THEN [proc[p] EXCEPT !.step = "closing"]
       ELSE At("left")

\* Handlers are installed by StartServer, and in workers only.
Signalled(p) ==
  IF p # Primary /\ Step(p) \in {"serving", "closing"}
  THEN [proc[p] EXCEPT !.step = "closing"]
  ELSE At("killed")

\* To one process, to several, or (Ctrl-C) to all of them.
Signal(P) ==
  /\ signals < MaxSignals
  /\ P # {}
  /\ \A p \in P : Alive(p)
  /\ proc' = [p \in Processes |-> IF p \in P THEN Signalled(p) ELSE proc[p]]
  /\ stopped' = stopped \cup {w \in P \cap Workers : Step(w) = "serving"}
  /\ signals' = signals + 1
  /\ UNCHANGED <<services, faults>>

\* An uncaught exception or an unhandled rejection.
Crash(p) ==
  /\ faults < MaxFaults
  /\ Alive(p)
  /\ proc' = [proc EXCEPT ![p] = At("failed")]
  /\ faults' = faults + 1
  /\ UNCHANGED <<services, stopped, signals>>

\* The processes with a connection to a service.
Holders(s) ==
  {p \in Processes :
     CASE s = "rabbitMQ" -> proc[p].channel = "open"
       [] s = "redis"    -> Step(p) \in {"database", "subscribing", "serving",
                                         "closing"}
       [] s = "database" -> Step(p) \in {"subscribing", "serving", "closing"}}

\* Those an outage may end: the pool outlives its connections, the Redis
\* client has no handler for its errors, and neither has the connection to
\* RabbitMQ, unless it is closed in an orderly way or shutDown has been there.
MayFall(s) == IF s = "database" THEN {} ELSE Holders(s)

MustFall(s) ==
  IF s = "redis" THEN {p \in Holders(s) : Step(p) # "closing"} ELSE {}

Deafened(r, s) ==
  IF s = "rabbitMQ" /\ r.channel = "open"
  THEN [r EXCEPT !.channel = "closed",
                 !.consumers = [q \in Queues |-> 0]]
  ELSE r

Outage(s) ==
  /\ faults < MaxFaults
  /\ s \in services
  /\ \E F \in SUBSET MayFall(s) :
       /\ MustFall(s) \subseteq F
       /\ proc' = [p \in Processes |-> IF p \in F THEN At("failed")
                                                  ELSE Deafened(proc[p], s)]
  /\ services' = services \ {s}
  /\ faults' = faults + 1
  /\ UNCHANGED <<stopped, signals>>

Recover(s) ==
  /\ s \in Services \ services
  /\ services' = services \cup {s}
  /\ UNCHANGED <<proc, stopped, faults, signals>>

-----------------------------------------------------------------------------
Start(p) == Connect(p) \/ FailToConnect(p) \/ Subscribe(p)

Next ==
  \/ \E p \in Processes : Start(p) \/ Crash(p)
  \/ ForkWorkers
  \/ \E w \in Workers : \/ StartServer(w) \/ Restart(w)
                        \/ Orphan(w) \/ ShutDownEnds(w)
  \/ \E P \in SUBSET Processes : Signal(P)
  \/ \E s \in Services : Outage(s) \/ Recover(s)

Spec == Init /\ [][Next]_vars

\* Processes go on and services come back; neither faults nor signals need to.
FairSpec ==
  /\ Spec
  /\ \A p \in Processes : WF_vars(Start(p))
  /\ WF_vars(ForkWorkers)
  /\ \A w \in Workers : /\ WF_vars(StartServer(w)) /\ WF_vars(Restart(w))
                        /\ WF_vars(Orphan(w)) /\ WF_vars(ShutDownEnds(w))
  /\ \A s \in Services : WF_vars(Recover(s))

-----------------------------------------------------------------------------
(* Properties *)

\* What a process has done by the step it has reached: the steps of start
\* happen in order, the consumers are those of the initialized subscribers as
\* long as the channel is open, and nothing is left of a process that has ended.
Consistent(r) ==
  /\ r.step \in {"rabbitMQ"} \cup Ends =>
       r.key = 1 /\ r.channel = "none" /\ r.initialized = {}
  /\ r.step \in {"redis", "database"} =>
       r.key = 1 /\ r.channel # "none" /\ r.initialized = {}
  /\ r.step \in {"subscribing", "serving", "closing"} =>
       /\ r.channel # "none"
       /\ r.initialized = {ServiceKeys[k] : k \in 1 .. r.key - 1}
  /\ r.step \in {"serving", "closing"} => r.key = Len(ServiceKeys) + 1
  /\ \A q \in Queues :
       r.consumers[q] =
         IF r.channel = "open" /\ q \in r.initialized THEN 1 ELSE 0

\* Workers exist only once the primary has forked them, which it does after it
\* has started; the primary never shuts down gracefully.
PrimaryFirst ==
  /\ Step(Primary) \notin {"absent", "left", "closing"}
  /\ Alive(Primary) => \A w \in Workers :
                         Step(w) = "absent" <=> Step(Primary) # "serving"

\* A worker that closes, or has left while its primary lives, was signalled
\* after it had begun to listen.
OnlyStoppedLeave ==
  \A w \in Workers :
    \/ Step(w) = "closing"
    \/ Step(w) = "left" /\ Alive(Primary)
    => w \in stopped

\* Nobody runs on without Redis, but a worker that closes.
RedisThere ==
  \A p \in Processes :
    Step(p) \in {"database", "subscribing", "serving"} => "redis" \in services

\* The inductive invariant of bindings.ts and cluster.infrastructure.ts: every
\* process does what start does in its order, after its primary, and a place
\* in the cluster is given up only for a worker that was signalled.
BootInvariant ==
  /\ TypeOK
  /\ \A p \in Processes : Consistent(proc[p])
  /\ PrimaryFirst
  /\ OnlyStoppedLeave
  /\ RedisThere

\* A process that serves (the primary too) and has its channel consumes each
\* queue once: each subscriber is initialized by two of serviceKeys, and a
\* second consumer would count a message as handled by a handler of its own.
EachQueueOnce ==
  \A p \in Processes :
    Step(p) \in {"serving", "closing"} /\ proc[p].channel = "open"
      => \A q \in Queues : proc[p].consumers[q] = 1

\* A cluster does not shrink by itself: while the primary serves, every place
\* is taken by a worker, is about to be (the "exit" handler), or was that of a
\* worker an operator has signalled while it listened.
CapacityKept ==
  Step(Primary) = "serving" =>
    \A w \in Workers :
      Alive(w) \/ Step(w) \in {"failed", "killed"} \/ w \in stopped

\* The life of a worker: whatever it does until it listens is starting.
Life(w) == IF Step(w) \in Services \cup {"subscribing"} THEN "starting" ELSE Step(w)

\* What becomes of the workers is what WorkerLife allows: whichever crashes,
\* outages and signals meet, a worker leaves for good only from a shutdown or
\* without its primary, and a place is filled again only by a live primary.
WorkerLives == INSTANCE WorkerLife
                 WITH life <- [w \in Workers |-> Life(w)], alone <- ~Alive(Primary)

ImplementsWorkerLife == WorkerLives!Spec

\* Once faults and signals are over, a primary that has survived has all the
\* workers it should have, serving; one that has not leaves no worker behind.
ClusterSettles ==
  <>[](\/ /\ Step(Primary) = "serving"
          /\ \A w \in Workers : Step(w) \in {"serving", "left"}
       \/ \A p \in Processes : ~Alive(p))
=============================================================================
