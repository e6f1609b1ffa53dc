--------------------------- MODULE BootstrapProofs ---------------------------
(***************************************************************************)
(* Theorems about Bootstrap, for any number of workers, faults and signals. *)
(* BootInvariant is inductive as it stands.  What an action does to one     *)
(* process is stated first, as lemmas about records; what it does to the    *)
(* lives of the workers is stated last.                                     *)
(***************************************************************************)
EXTENDS Bootstrap, TLAPS

\* There are six serviceKeys, and between them they initialize the subscriber
\* of every queue.
LEMMA SixKeys ==
  /\ Len(ServiceKeys) = 6
  /\ \A k \in 1 .. 6 : ServiceKeys[k] \in Queues
  /\ {ServiceKeys[k] : k \in 1 .. 6} = Queues
<1>1. Len(ServiceKeys) = 6
  BY DEF ServiceKeys
<1>2. \A k \in 1 .. 6 : ServiceKeys[k] \in Queues
  BY DEF ServiceKeys, Queues
<1>3. ServiceKeys[1] = "status" /\ ServiceKeys[3] = "invoice"
      /\ ServiceKeys[5] = "failed"
  BY DEF ServiceKeys
<1>4. QED
  BY <1>1, <1>2, <1>3 DEF Queues

\* A process just forked, not forked, or ended.
LEMMA BlankProcess ==
  ASSUME NEW s \in Ends \cup {"rabbitMQ"}
  PROVE  /\ At(s) \in Process
         /\ Consistent(At(s))
         /\ At(s).step = s
<1>1. At(s) \in Process
  BY SixKeys DEF At, Process, Steps, Services, Ends
<1>2. At(s).step = s
  BY DEF At
<1>3. Consistent(At(s))
  BY SixKeys DEF Consistent, At, Steps, Services, Ends
<1>4. QED
  BY <1>1, <1>2, <1>3

\* A connection more.
LEMMA ConnectedProcess ==
  ASSUME NEW r \in Process, Consistent(r), r.step \in Services,
         NEW x, x = [r EXCEPT !.step = NextStep[r.step],
                              !.channel = IF r.step = "rabbitMQ" THEN "open"
                                                                 ELSE @]
  PROVE  /\ x \in Process
         /\ Consistent(x)
         /\ x.step \in {"redis", "database", "subscribing"}
<1>1. /\ x \in Process
      /\ x.step = NextStep[r.step]
      /\ x.key = r.key
      /\ x.initialized = r.initialized
      /\ x.consumers = r.consumers
      /\ x.channel = IF r.step = "rabbitMQ" THEN "open" ELSE r.channel
  BY DEF Process, Steps, Services, NextStep
<1>2. x.step \in {"redis", "database", "subscribing"}
  BY <1>1 DEF NextStep, Services
<1>3. r.key = 1 /\ r.initialized = {} /\ x.channel # "none"
  BY <1>1 DEF Consistent, Services
<1>4. {ServiceKeys[k] : k \in 1 .. 1 - 1} = {}
  OBVIOUS
<1>5. \A q \in Queues : x.consumers[q] = 0
  BY <1>1, <1>3 DEF Consistent
<1>6. QED
  BY <1>1, <1>2, <1>3, <1>4, <1>5 DEF Consistent, Ends

\* A place in serviceKeys whose subscriber is initialized already.
LEMMA SkippedKey ==
  ASSUME NEW r \in Process, Consistent(r), r.step = "subscribing",
         r.key <= Len(ServiceKeys), ServiceKeys[r.key] \in r.initialized,
         NEW x, x = [r EXCEPT !.key = @ + 1]
  PROVE  x \in Process /\ Consistent(x) /\ x.step = "subscribing"
<1>1. /\ x \in Process
      /\ x.step = r.step
      /\ x.key = r.key + 1
      /\ x.initialized = r.initialized
      /\ x.consumers = r.consumers
      /\ x.channel = r.channel
  BY SixKeys DEF Process
<1>2. r.initialized = {ServiceKeys[k] : k \in 1 .. r.key - 1}
  BY DEF Consistent
<1>3. x.initialized = {ServiceKeys[k] : k \in 1 .. x.key - 1}
  <2>1. r.key \in 1 .. 6
    BY SixKeys DEF Process
  <2>2. 1 .. x.key - 1 = 1 .. r.key - 1 \cup {r.key}
    BY <1>1, <2>1
  <2>3. QED
    BY <1>1, <1>2, <2>2
<1>4. QED
  BY <1>1, <1>3 DEF Consistent, Ends

\* A place in serviceKeys whose subscriber subscribes.
LEMMA SubscribedKey ==
  ASSUME NEW r \in Process, Consistent(r), r.step = "subscribing",
         r.key <= Len(ServiceKeys), r.channel = "open",
         NEW q, q = ServiceKeys[r.key], q \notin r.initialized,
         NEW x, x = Subscribed(r, q)
  PROVE  x \in Process /\ Consistent(x) /\ x.step = "subscribing"
<1>1. r.key \in 1 .. 6 /\ q \in Queues
  BY SixKeys DEF Process
<1>2. /\ x \in Process
      /\ x.step = r.step
      /\ x.key = r.key + 1
      /\ x.initialized = r.initialized \cup {q}
      /\ x.consumers = [r.consumers EXCEPT ![q] = @ + 1]
      /\ x.channel = r.channel
  <2> DEFINE c == [r.consumers EXCEPT ![q] = @ + 1]
  <2>1. c \in [Queues -> Nat]
    BY <1>1 DEF Process
  <2>2. x = [r EXCEPT !.key = @ + 1, !.initialized = @ \cup {q},
                      !.consumers = c]
    BY DEF Subscribed
  <2> HIDE DEF c
  <2>3. r.key + 1 \in 1 .. 7 /\ r.initialized \cup {q} \in SUBSET Queues
    BY <1>1 DEF Process
  <2>4. /\ x \in Process
        /\ x.step = r.step
        /\ x.key = r.key + 1
        /\ x.initialized = r.initialized \cup {q}
        /\ x.consumers = c
        /\ x.channel = r.channel
    <3>1. Process = [step : Steps \cup Ends, key : 1 .. 7,
                     initialized : SUBSET Queues, consumers : [Queues -> Nat],
                     channel : {"none", "open", "closed"}]
      BY SixKeys DEF Process
    <3>2. QED
      BY <2>1, <2>2, <2>3, <3>1
  <2>5. QED
    BY <2>4 DEF c
<1>3. x.initialized = {ServiceKeys[k] : k \in 1 .. x.key - 1}
  <2>1. r.initialized = {ServiceKeys[k] : k \in 1 .. r.key - 1}
    BY DEF Consistent
  <2>2. 1 .. x.key - 1 = 1 .. r.key - 1 \cup {r.key}
    BY <1>1, <1>2
  <2>3. QED
    BY <1>2, <2>1, <2>2
<1>4. \A u \in Queues : x.consumers[u] = IF u \in x.initialized THEN 1 ELSE 0
  <2>1. \A u \in Queues : r.consumers[u] = IF u \in r.initialized THEN 1 ELSE 0
    BY DEF Consistent
  <2>2. r.consumers \in [Queues -> Nat]
    BY DEF Process
  <2>3. QED
    BY <1>1, <1>2, <2>1, <2>2
<1>5. QED
  BY <1>2, <1>3, <1>4 DEF Consistent, Ends

\* A process that begins to serve, and one that begins to close.
LEMMA SteppedProcess ==
  ASSUME NEW r \in Process, Consistent(r), NEW s, NEW x,
         \/ r.step = "subscribing" /\ r.key > Len(ServiceKeys) /\ s = "serving"
         \/ r.step \in {"serving", "closing"} /\ s = "closing",
         x = [r EXCEPT !.step = s]
  PROVE  x \in Process /\ Consistent(x) /\ x.step = s
<1>1. /\ x \in Process
      /\ x.step = s
      /\ x.key = r.key
      /\ x.initialized = r.initialized
      /\ x.consumers = r.consumers
      /\ x.channel = r.channel
  BY DEF Process, Steps
<1>2. r.key = Len(ServiceKeys) + 1
  BY SixKeys DEF Process, Consistent
<1>3. QED
  BY <1>1, <1>2 DEF Consistent, Ends

\* A process that survives an outage.
LEMMA DeafenedProcess ==
  ASSUME NEW r \in Process, Consistent(r), NEW s
  PROVE  /\ Deafened(r, s) \in Process
         /\ Consistent(Deafened(r, s))
         /\ Deafened(r, s).step = r.step
<1> DEFINE x == [r EXCEPT !.channel = "closed",
                          !.consumers = [q \in Queues |-> 0]]
<1>1. CASE s = "rabbitMQ" /\ r.channel = "open"
  <2>1. Deafened(r, s) = x
    BY <1>1 DEF Deafened
  <2>2. /\ x \in Process
        /\ x.step = r.step
        /\ x.key = r.key
        /\ x.initialized = r.initialized
        /\ x.consumers = [q \in Queues |-> 0]
        /\ x.channel = "closed"
    BY DEF Process
  <2>3. Consistent(x)
    BY <1>1, <2>2 DEF Consistent
  <2>4. QED
    BY <2>1, <2>2, <2>3
<1>2. CASE ~(s = "rabbitMQ" /\ r.channel = "open")
  BY <1>2 DEF Deafened
<1>3. QED
  BY <1>1, <1>2

-----------------------------------------------------------------------------
\* A step of one process leaves the others as they are.
LEMMA OneProcess ==
  ASSUME BootInvariant, NEW p \in Processes, NEW x \in Process, Consistent(x),
         proc' = [proc EXCEPT ![p] = x]
  PROVE  /\ proc' \in [Processes -> Process]
         /\ \A u \in Processes : Consistent(proc'[u])
         /\ \A u \in Processes :
              proc'[u].step = IF u = p THEN x.step ELSE proc[u].step
  BY DEF BootInvariant, TypeOK

\* It keeps the invariant if the process neither begins nor ceases to be
\* absent, if it leaves or closes only after a signal, and if the primary does
\* not begin to serve.
LEMMA OneProcessKeepsInvariant ==
  ASSUME BootInvariant, NEW p \in Processes, NEW x \in Process, Consistent(x),
         proc' = [proc EXCEPT ![p] = x],
         Alive(p),
         x.step # "absent",
         p = Primary => x.step \notin {"left", "serving", "closing"},
         p = Primary /\ Step(p) = "serving" => x.step \in Ends,
         \/ x.step \notin {"left", "closing"}
         \/ x.step = "left" /\ ~Alive(Primary)
         \/ p \in stopped,
         x.step \in {"database", "subscribing", "serving"} =>
           "redis" \in services,
         UNCHANGED <<services, stopped>>,
         faults' \in Nat, signals' \in Nat
  PROVE  BootInvariant'
<1>1. /\ proc' \in [Processes -> Process]
      /\ \A u \in Processes : Consistent(proc'[u])
      /\ \A u \in Processes :
           proc'[u].step = IF u = p THEN x.step ELSE proc[u].step
  BY OneProcess
<1>2. TypeOK'
  BY <1>1 DEF BootInvariant, TypeOK
<1>3. /\ Primary \in Processes
      /\ \A w \in Workers : w \in Processes /\ w # Primary
  BY BootAssumption DEF Processes
<1>4. PrimaryFirst'
  BY <1>1, <1>3 DEF BootInvariant, PrimaryFirst, Alive, Step, Steps, Services,
                    Ends
<1>5. OnlyStoppedLeave'
  BY <1>1, <1>3 DEF BootInvariant, OnlyStoppedLeave, Alive, Step, Steps,
                    Services, Ends
<1>6. RedisThere'
  BY <1>1 DEF BootInvariant, RedisThere, Step
<1>7. QED
  BY <1>1, <1>2, <1>4, <1>5, <1>6 DEF BootInvariant

\* What the actions keep, in the terms of BootInvariant.
LEMMA InitInvariant == Init => BootInvariant
<1> SUFFICES ASSUME Init PROVE BootInvariant
  OBVIOUS
<1>1. /\ Primary \in Processes
      /\ \A w \in Workers : w \in Processes /\ w # Primary
  BY BootAssumption DEF Processes
<1>2. proc = [p \in Processes |-> At(IF p = Primary THEN "rabbitMQ"
                                                     ELSE "absent")]
  BY DEF Init
<1>3. \A p \in Processes :
        /\ proc[p] \in Process
        /\ Consistent(proc[p])
        /\ Step(p) = IF p = Primary THEN "rabbitMQ" ELSE "absent"
  BY <1>2, BlankProcess DEF Step, Ends
<1>4. TypeOK
  BY <1>2, <1>3 DEF Init, TypeOK, Services
<1>5. PrimaryFirst /\ OnlyStoppedLeave /\ RedisThere
  BY <1>1, <1>3 DEF PrimaryFirst, OnlyStoppedLeave, RedisThere
<1>6. QED
  BY <1>3, <1>4, <1>5 DEF BootInvariant

LEMMA StartKeepsInvariant ==
  ASSUME BootInvariant, NEW p \in Processes, Start(p)
  PROVE  BootInvariant'
<1>1. /\ proc \in [Processes -> Process]
      /\ proc[p] \in Process
      /\ Consistent(proc[p])
      /\ faults' \in Nat
      /\ signals' \in Nat
      /\ UNCHANGED <<services, stopped>>
  BY DEF BootInvariant, TypeOK, Start, Connect, FailToConnect, Subscribe,
         outside
<1>2. At("failed") \in Process /\ Consistent(At("failed"))
      /\ At("failed").step = "failed"
  BY BlankProcess DEF Ends
<1>3. Alive(p) /\ Step(p) # "serving"
  BY <1>1 DEF Start, Connect, FailToConnect, Subscribe, Alive, Steps, Services,
              BootInvariant, TypeOK
<1>4. CASE Connect(p)
  <2> DEFINE x == [proc[p] EXCEPT
                     !.step = NextStep[Step(p)],
                     !.channel = IF Step(p) = "rabbitMQ" THEN "open" ELSE @]
  <2>1. Step(p) \in Services
    BY <1>4 DEF Connect, BootInvariant, TypeOK
  <2>2. x \in Process /\ Consistent(x)
        /\ x.step \in {"redis", "database", "subscribing"}
    BY <1>1, <2>1, ConnectedProcess DEF Step
  <2>3. proc' = [proc EXCEPT ![p] = x]
    BY <1>4 DEF Connect, Step
  <2>4. "redis" \in services \/ x.step = "redis"
    <3>1. x.step = NextStep[Step(p)]
      BY <1>1 DEF Process
    <3>2. CASE Step(p) = "rabbitMQ"
      BY <3>1, <3>2 DEF NextStep, Services
    <3>3. CASE Step(p) = "redis"
      BY <1>4, <3>3 DEF Connect
    <3>4. CASE Step(p) = "database"
      BY <3>4 DEF BootInvariant, RedisThere
    <3>5. QED
      BY <2>1, <3>2, <3>3, <3>4 DEF Services
  <2> HIDE DEF x
  <2>5. QED
    BY <1>1, <1>3, <2>2, <2>3, <2>4, OneProcessKeepsInvariant
<1>5. CASE FailToConnect(p)
  BY <1>1, <1>2, <1>3, <1>5, OneProcessKeepsInvariant DEF FailToConnect, Ends
<1>6. CASE Subscribe(p)
  <2> DEFINE q == ServiceKeys[proc[p].key]
  <2>1. proc[p].step = "subscribing" /\ proc[p].key <= Len(ServiceKeys)
    BY <1>6 DEF Subscribe, Step
  <2>2. "redis" \in services
    BY <2>1 DEF BootInvariant, RedisThere, Step
  <2>3. CASE q \in proc[p].initialized /\ proc' = [proc EXCEPT ![p].key = @ + 1]
    <3> DEFINE x == [proc[p] EXCEPT !.key = @ + 1]
    <3>1. x \in Process /\ Consistent(x) /\ x.step = "subscribing"
      BY <1>1, <2>1, <2>3, SkippedKey
    <3>2. proc' = [proc EXCEPT ![p] = x]
      BY <2>3
    <3> HIDE DEF x
    <3>3. QED
      BY <1>1, <1>3, <2>2, <3>1, <3>2, OneProcessKeepsInvariant
  <2>4. CASE /\ q \notin proc[p].initialized
             /\ proc[p].channel = "open"
             /\ proc' = [proc EXCEPT ![p] = Subscribed(@, q)]
    <3> DEFINE x == Subscribed(proc[p], q)
    <3>1. x \in Process /\ Consistent(x) /\ x.step = "subscribing"
      BY <1>1, <2>1, <2>4, SubscribedKey
    <3>2. proc' = [proc EXCEPT ![p] = x]
      BY <2>4
    <3> HIDE DEF x
    <3>3. QED
      BY <1>1, <1>3, <2>2, <3>1, <3>2, OneProcessKeepsInvariant
  <2>5. CASE proc' = [proc EXCEPT ![p] = At("failed")]
    BY <1>1, <1>2, <1>3, <2>5, OneProcessKeepsInvariant DEF Ends
  <2>6. QED
    BY <1>6, <2>3, <2>4, <2>5 DEF Subscribe
<1>7. QED
  BY <1>4, <1>5, <1>6 DEF Start

LEMMA ForkKeepsInvariant ==
  ASSUME BootInvariant, ForkWorkers
  PROVE  BootInvariant'
<1> DEFINE x == [proc[Primary] EXCEPT !.step = "serving"]
<1>1. /\ Primary \in Processes
      /\ \A w \in Workers : w \in Processes /\ w # Primary
      /\ \A p \in Processes : p = Primary \/ p \in Workers
  BY BootAssumption DEF Processes
<1>2. x \in Process /\ Consistent(x) /\ x.step = "serving"
  BY <1>1, SteppedProcess DEF ForkWorkers, Initialized, Step, BootInvariant, TypeOK
<1>3. At("rabbitMQ") \in Process /\ Consistent(At("rabbitMQ"))
      /\ At("rabbitMQ").step = "rabbitMQ"
  BY BlankProcess
<1>4. proc' = [p \in Processes |-> IF p = Primary THEN x ELSE At("rabbitMQ")]
  BY <1>1 DEF ForkWorkers
<1> HIDE DEF x
<1>5. \A p \in Processes :
        /\ proc'[p] \in Process
        /\ Consistent(proc'[p])
        /\ proc'[p].step = IF p = Primary THEN "serving" ELSE "rabbitMQ"
  BY <1>2, <1>3, <1>4
<1>6. TypeOK'
  BY <1>4, <1>5 DEF ForkWorkers, outside, BootInvariant, TypeOK
<1>7. PrimaryFirst' /\ OnlyStoppedLeave'
  BY <1>1, <1>5 DEF PrimaryFirst, OnlyStoppedLeave, Step
<1>8. RedisThere'
  <2>1. "redis" \in services /\ UNCHANGED services
    BY <1>1 DEF ForkWorkers, Initialized, outside, BootInvariant, RedisThere
  <2>2. QED
    BY <2>1 DEF RedisThere
<1>9. QED
  BY <1>5, <1>6, <1>7, <1>8 DEF BootInvariant

LEMMA WorkerKeepsInvariant ==
  ASSUME BootInvariant, NEW w \in Workers,
         StartServer(w) \/ Restart(w) \/ Orphan(w) \/ ShutDownEnds(w)
  PROVE  BootInvariant'
<1>1. /\ Primary \in Processes /\ w \in Processes /\ w # Primary
      /\ \A v \in Workers : v \in Processes /\ v # Primary
  BY BootAssumption DEF Processes
<1>2. /\ proc[w] \in Process
      /\ Consistent(proc[w])
      /\ UNCHANGED services
      /\ faults' \in Nat
      /\ signals' \in Nat
  BY <1>1 DEF BootInvariant, TypeOK, StartServer, Restart, Orphan,
              ShutDownEnds, outside
<1>3. \A s \in Ends \cup {"rabbitMQ"} :
        At(s) \in Process /\ Consistent(At(s)) /\ At(s).step = s
  BY BlankProcess
<1>4. CASE StartServer(w)
  <2> DEFINE x == [proc[w] EXCEPT !.step = "serving"]
  <2>1. x \in Process /\ Consistent(x) /\ x.step = "serving"
    BY <1>2, <1>4, SteppedProcess DEF StartServer, Initialized, Step
  <2>2. proc' = [proc EXCEPT ![w] = x]
    BY <1>4 DEF StartServer
  <2>3. Alive(w) /\ UNCHANGED stopped
    BY <1>4 DEF StartServer, Initialized, Alive, Steps, outside
  <2>4. "redis" \in services
    BY <1>1, <1>4 DEF StartServer, Initialized, BootInvariant, RedisThere
  <2> HIDE DEF x
  <2>5. QED
    BY <1>1, <1>2, <2>1, <2>2, <2>3, <2>4, OneProcessKeepsInvariant
<1>5. CASE Restart(w)
  <2> DEFINE x == At("rabbitMQ")
  <2>1. x \in Process /\ Consistent(x) /\ x.step = "rabbitMQ"
    BY <1>3
  <2>2. proc' = [proc EXCEPT ![w] = x]
    BY <1>5 DEF Restart
  <2> HIDE DEF x
  <2>3. /\ proc' \in [Processes -> Process]
        /\ \A u \in Processes : Consistent(proc'[u])
        /\ \A u \in Processes :
             proc'[u].step = IF u = w THEN "rabbitMQ" ELSE proc[u].step
    BY <1>1, <2>1, <2>2, OneProcess
  <2>4. TypeOK'
    BY <1>2, <1>5, <2>3 DEF Restart, BootInvariant, TypeOK
  <2>5. PrimaryFirst'
    BY <1>1, <1>5, <2>3 DEF Restart, BootInvariant, PrimaryFirst, Alive, Step
  <2>6. OnlyStoppedLeave'
    BY <1>1, <1>5, <2>3
       DEF Restart, BootInvariant, OnlyStoppedLeave, Alive, Step
  <2>7. RedisThere'
    BY <1>2, <2>3 DEF BootInvariant, RedisThere, Step
  <2>8. QED
    BY <2>3, <2>4, <2>5, <2>6, <2>7 DEF BootInvariant
<1>6. CASE Orphan(w)
  <2>1. proc' = [proc EXCEPT ![w] = At("left")]
        /\ Alive(w) /\ ~Alive(Primary) /\ UNCHANGED stopped
    BY <1>6 DEF Orphan, outside
  <2>2. QED
    BY <1>1, <1>2, <1>3, <2>1, OneProcessKeepsInvariant DEF Ends
<1>7. CASE ShutDownEnds(w)
  <2>1. PICK e \in {"left", "failed"} : proc' = [proc EXCEPT ![w] = At(e)]
    BY <1>7 DEF ShutDownEnds
  <2>2. Alive(w) /\ UNCHANGED stopped
    BY <1>7 DEF ShutDownEnds, Alive, Steps, outside
  <2>3. w \in stopped
    BY <1>7 DEF ShutDownEnds, BootInvariant, OnlyStoppedLeave
  <2>4. QED
    BY <1>1, <1>2, <1>3, <2>1, <2>2, <2>3, OneProcessKeepsInvariant DEF Ends
<1>8. QED
  BY <1>4, <1>5, <1>6, <1>7

LEMMA CrashKeepsInvariant ==
  ASSUME BootInvariant, NEW p \in Processes, Crash(p)
  PROVE  BootInvariant'
<1>1. At("failed") \in Process /\ Consistent(At("failed"))
      /\ At("failed").step = "failed"
  BY BlankProcess DEF Ends
<1>2. /\ proc' = [proc EXCEPT ![p] = At("failed")]
      /\ Alive(p)
      /\ UNCHANGED <<services, stopped>>
      /\ faults' \in Nat
      /\ signals' \in Nat
  BY DEF Crash, BootInvariant, TypeOK
<1>3. QED
  BY <1>1, <1>2, OneProcessKeepsInvariant DEF Ends

\* What a signal makes of one process.
LEMMA SignalledProcess ==
  ASSUME BootInvariant, NEW p \in Processes, Alive(p)
  PROVE  /\ Signalled(p) \in Process
         /\ Consistent(Signalled(p))
         /\ Signalled(p).step =
              IF p # Primary /\ Step(p) \in {"serving", "closing"}
              THEN "closing" ELSE "killed"
<1>1. proc[p] \in Process /\ Consistent(proc[p])
  BY DEF BootInvariant, TypeOK
<1>2. At("killed") \in Process /\ Consistent(At("killed"))
      /\ At("killed").step = "killed"
  BY BlankProcess DEF Ends
<1>3. CASE p # Primary /\ Step(p) \in {"serving", "closing"}
  <2> DEFINE x == [proc[p] EXCEPT !.step = "closing"]
  <2>1. x \in Process /\ Consistent(x) /\ x.step = "closing"
    BY <1>1, <1>3, SteppedProcess DEF Step
  <2>2. Signalled(p) = x
    BY <1>3 DEF Signalled
  <2> HIDE DEF x
  <2>3. QED
    BY <1>3, <2>1, <2>2
<1>4. CASE ~(p # Primary /\ Step(p) \in {"serving", "closing"})
  <2>1. Signalled(p) = At("killed")
    BY <1>4 DEF Signalled
  <2>2. QED
    BY <1>2, <1>4, <2>1
<1>5. QED
  BY <1>3, <1>4

LEMMA SignalKeepsInvariant ==
  ASSUME BootInvariant, NEW P \in SUBSET Processes, Signal(P)
  PROVE  BootInvariant'
<1>1. /\ Primary \in Processes
      /\ \A w \in Workers : w \in Processes /\ w # Primary
  BY BootAssumption DEF Processes
<1>2. proc' = [p \in Processes |-> IF p \in P THEN Signalled(p) ELSE proc[p]]
      /\ \A p \in P : Alive(p)
  BY DEF Signal
<1>3. \A p \in Processes :
        /\ proc'[p] \in Process
        /\ Consistent(proc'[p])
        /\ proc'[p].step =
             IF p \notin P THEN proc[p].step
             ELSE IF p # Primary /\ proc[p].step \in {"serving", "closing"}
                  THEN "closing" ELSE "killed"
  BY <1>2, SignalledProcess DEF BootInvariant, TypeOK, Step
<1>4. TypeOK'
  BY <1>2, <1>3 DEF Signal, BootInvariant, TypeOK
<1>5. PrimaryFirst'
  BY <1>1, <1>2, <1>3 DEF BootInvariant, PrimaryFirst, Alive, Step, Steps,
                          Services, Ends
<1>6. OnlyStoppedLeave'
  BY <1>1, <1>2, <1>3 DEF Signal, BootInvariant, OnlyStoppedLeave, Alive, Step,
                          Steps, Services, Ends
<1>7. RedisThere'
  BY <1>3 DEF Signal, BootInvariant, RedisThere, Step
<1>8. QED
  BY <1>3, <1>4, <1>5, <1>6, <1>7 DEF BootInvariant

LEMMA OutageKeepsInvariant ==
  ASSUME BootInvariant, NEW s \in Services, Outage(s)
  PROVE  BootInvariant'
<1>1. /\ Primary \in Processes
      /\ \A w \in Workers : w \in Processes /\ w # Primary
  BY BootAssumption DEF Processes
<1>2. PICK F \in SUBSET MayFall(s) :
        /\ MustFall(s) \subseteq F
        /\ proc' = [p \in Processes |-> IF p \in F THEN At("failed")
                                                   ELSE Deafened(proc[p], s)]
  BY DEF Outage
<1>3. At("failed") \in Process /\ Consistent(At("failed"))
      /\ At("failed").step = "failed"
  BY BlankProcess DEF Ends
<1>4. \A p \in Processes :
        /\ proc[p] \in Process
        /\ Consistent(proc[p])
        /\ Deafened(proc[p], s) \in Process
        /\ Consistent(Deafened(proc[p], s))
        /\ Deafened(proc[p], s).step = proc[p].step
  BY DeafenedProcess DEF BootInvariant, TypeOK
<1>5. \A p \in Processes :
        /\ proc'[p] \in Process
        /\ Consistent(proc'[p])
        /\ proc'[p].step = IF p \in F THEN "failed" ELSE proc[p].step
  BY <1>2, <1>3, <1>4
<1>6. \A p \in F : p \in Processes /\ proc[p].step # "absent"
  <2>1. \A p \in Processes : proc[p].step = "absent" => proc[p].channel = "none"
    BY <1>4 DEF Consistent, Ends
  <2>2. \A p \in Holders(s) : p \in Processes /\ proc[p].step # "absent"
    <3>1. CASE s = "rabbitMQ"
      BY <2>1, <3>1 DEF Holders
    <3>2. CASE s = "redis"
      BY <3>2 DEF Holders, Step
    <3>3. CASE s = "database"
      BY <3>3 DEF Holders, Step
    <3>4. QED
      BY <3>1, <3>2, <3>3 DEF Services
  <2>3. QED
    BY <2>2 DEF MayFall
<1>7. TypeOK'
  BY <1>2, <1>5 DEF Outage, BootInvariant, TypeOK
<1>8. PrimaryFirst'
  BY <1>1, <1>5, <1>6 DEF BootInvariant, PrimaryFirst, Alive, Step, Steps,
                          Services, Ends
<1>9. OnlyStoppedLeave'
  BY <1>1, <1>5 DEF Outage, BootInvariant, OnlyStoppedLeave, Alive, Step,
                    Steps, Services, Ends
<1>10. RedisThere'
  <2> DEFINE Running == {"database", "subscribing", "serving"}
  <2>1. CASE s = "redis"
    <3>1. \A p \in Processes : Step(p) \in Running => p \in MustFall(s)
      <4>1. Holders(s) = {p \in Processes :
                            Step(p) \in {"database", "subscribing", "serving",
                                         "closing"}}
        BY <2>1 DEF Holders
      <4>2. MustFall(s) = {p \in Holders(s) : Step(p) # "closing"}
        BY <2>1 DEF MustFall
      <4>3. QED
        BY <4>1, <4>2
    <3>2. \A p \in Processes : proc'[p].step \notin Running
      BY <1>2, <1>5, <3>1 DEF Step
    <3>3. QED
      BY <3>2 DEF RedisThere, Step
  <2>2. CASE s # "redis"
    <3>1. "redis" \in services => "redis" \in services'
      BY <2>2 DEF Outage
    <3>2. QED
      BY <1>5, <3>1 DEF BootInvariant, RedisThere, Step
  <2>3. QED
    BY <2>1, <2>2
<1>11. QED
  BY <1>5, <1>7, <1>8, <1>9, <1>10 DEF BootInvariant

-----------------------------------------------------------------------------
\* Every process does what start does in its order and after its primary, and
\* leaves for good only after a signal.
THEOREM BootInvariantHolds == Spec => []BootInvariant
<1>1. BootInvariant /\ [Next]_vars => BootInvariant'
  <2> SUFFICES ASSUME BootInvariant, [Next]_vars PROVE BootInvariant'
    OBVIOUS
  <2>1. CASE UNCHANGED vars
    BY <2>1 DEF vars, BootInvariant, TypeOK, PrimaryFirst, OnlyStoppedLeave,
                RedisThere, Alive, Step
  <2>2. ASSUME NEW p \in Processes, Start(p) PROVE BootInvariant'
    BY <2>2, StartKeepsInvariant
  <2>3. ASSUME NEW p \in Processes, Crash(p) PROVE BootInvariant'
    BY <2>3, CrashKeepsInvariant
  <2>4. CASE ForkWorkers
    BY <2>4, ForkKeepsInvariant
  <2>5. ASSUME NEW w \in Workers,
               StartServer(w) \/ Restart(w) \/ Orphan(w) \/ ShutDownEnds(w)
        PROVE  BootInvariant'
    BY <2>5, WorkerKeepsInvariant
  <2>6. ASSUME NEW P \in SUBSET Processes, Signal(P) PROVE BootInvariant'
    BY <2>6, SignalKeepsInvariant
  <2>7. ASSUME NEW s \in Services, Outage(s) PROVE BootInvariant'
    BY <2>7, OutageKeepsInvariant
  <2>8. ASSUME NEW s \in Services, Recover(s) PROVE BootInvariant'
    BY <2>8 DEF Recover, BootInvariant, TypeOK, PrimaryFirst,
                OnlyStoppedLeave, RedisThere, Alive, Step
  <2>9. QED
    BY <2>1, <2>2, <2>3, <2>4, <2>5, <2>6, <2>7, <2>8 DEF Next
<1>2. QED
  BY InitInvariant, <1>1, PTL DEF Spec

\* A process that serves and has its channel consumes each queue exactly once,
\* although every subscriber is initialized twice.
THEOREM QueuesAreConsumedOnce == Spec => []EachQueueOnce
<1>1. BootInvariant => EachQueueOnce
  <2> SUFFICES ASSUME BootInvariant, NEW p \in Processes,
                      Step(p) \in {"serving", "closing"},
                      proc[p].channel = "open",
                      NEW q \in Queues
               PROVE  proc[p].consumers[q] = 1
    BY DEF EachQueueOnce
  <2>1. Consistent(proc[p]) /\ proc[p].step \in {"serving", "closing"}
    BY DEF BootInvariant, Step
  <2>2. proc[p].key = 7 /\ 7 - 1 = 6
    BY <2>1, SixKeys DEF Consistent
  <2>3. proc[p].initialized = Queues
    BY <2>1, <2>2, SixKeys DEF Consistent
  <2>4. QED
    BY <2>1, <2>3 DEF Consistent
<1>2. QED
  BY BootInvariantHolds, <1>1, PTL

\* While its primary serves a cluster loses no place but that of a worker that
\* was signalled while it listened.
THEOREM CapacityIsKept == Spec => []CapacityKept
<1>1. BootInvariant => CapacityKept
  <2> SUFFICES ASSUME BootInvariant, Step(Primary) = "serving", NEW w \in Workers
               PROVE  Alive(w) \/ Step(w) \in {"failed", "killed"}
                      \/ w \in stopped
    BY DEF CapacityKept
  <2>1. Step(w) \in Steps \cup Ends
    BY DEF BootInvariant, TypeOK, Process, Processes, Step
  <2>2. Alive(Primary)
    BY DEF Alive, Steps
  <2>3. Step(w) # "absent"
    BY <2>2 DEF BootInvariant, PrimaryFirst
  <2>4. Step(w) = "left" => w \in stopped
    BY <2>2 DEF BootInvariant, OnlyStoppedLeave
  <2>5. QED
    BY <2>1, <2>3, <2>4 DEF Alive, Ends
<1>2. QED
  BY BootInvariantHolds, <1>1, PTL

-----------------------------------------------------------------------------
\* A step of WorkerLife, in the terms of Bootstrap.
Lived ==
  /\ Alive(Primary)' => Alive(Primary)
  /\ \A w \in Workers :
       \/ Life(w)' = Life(w)
       \/ Life(w)' \in WorkerLives!Onward[Life(w)]
       \/ WorkerLives!Forked(Life(w)) /\ Life(w)' = "starting"
       \/ WorkerLives!Orphaned(Life(w)) /\ Life(w)' = "left"

\* A worker that is alive starts, serves or closes.
LEMMA LifeOfAWorker ==
  ASSUME BootInvariant, NEW w \in Workers
  PROVE  /\ Life(w) \in WorkerLives!Lives
         /\ Life(w) \in WorkerLives!Running <=> Alive(w)
         /\ Life(w) = "starting" <=> Step(w) \in Services \cup {"subscribing"}
         /\ Life(w) # "starting" => Life(w) = Step(w)
<1>1. Step(w) \in Steps \cup Ends
  BY DEF BootInvariant, TypeOK, Process, Processes, Step
<1>2. QED
  BY <1>1 DEF Life, Alive, WorkerLives!Lives, WorkerLives!Running, Steps, Ends,
              Services

\* A worker that fails, is connected or subscribes goes on from starting.
LEMMA OnwardIs ==
  /\ WorkerLives!Onward["starting"] = {"serving", "failed", "killed"}
  /\ WorkerLives!Onward["serving"] = {"closing", "failed"}
  /\ WorkerLives!Onward["closing"] = {"left", "failed"}
  BY DEF WorkerLives!Onward

\* A running worker may fail at any time.
LEMMA MayFail ==
  ASSUME BootInvariant, NEW w \in Workers, Alive(w)
  PROVE  "failed" \in WorkerLives!Onward[Life(w)]
  BY LifeOfAWorker, OnwardIs DEF WorkerLives!Running

\* A step of one process is one in its life, if it is a worker, and in nobody
\* else's.
LEMMA OneProcessLives ==
  ASSUME BootInvariant, NEW p \in Processes, NEW x \in Process,
         proc' = [proc EXCEPT ![p] = x],
         p = Primary => Alive(p),
         NEW l, l = IF x.step \in Services \cup {"subscribing"} THEN "starting"
                                                              ELSE x.step,
         p \in Workers => \/ l = Life(p)
                          \/ l \in WorkerLives!Onward[Life(p)]
                          \/ WorkerLives!Forked(Life(p)) /\ l = "starting"
                          \/ WorkerLives!Orphaned(Life(p)) /\ l = "left"
  PROVE  Lived
<1>1. \A u \in Processes : Step(u)' = IF u = p THEN x.step ELSE Step(u)
  BY DEF BootInvariant, TypeOK, Step
<1>2. Alive(Primary)' => Alive(Primary)
  BY <1>1 DEF Alive, Processes
<1>3. \A w \in Workers : Life(w)' = IF w = p THEN l ELSE Life(w)
  BY <1>1 DEF Life, Processes
<1>4. QED
  BY <1>2, <1>3 DEF Lived

\* A step of start, or a crash.
LEMMA StartLives ==
  ASSUME BootInvariant, NEW p \in Processes, Start(p) \/ Crash(p)
  PROVE  Lived
<1>1. At("failed") \in Process /\ At("failed").step = "failed"
  BY BlankProcess DEF Ends
<1>2. "failed" \notin Services \cup {"subscribing"}
  BY DEF Services
<1>3. proc[p] \in Process /\ Consistent(proc[p])
  BY DEF BootInvariant, TypeOK
<1>4. CASE Connect(p)
  <2> DEFINE x == [proc[p] EXCEPT
                     !.step = NextStep[Step(p)],
                     !.channel = IF Step(p) = "rabbitMQ" THEN "open" ELSE @]
  <2>1. Step(p) \in Services
    BY <1>4 DEF Connect, BootInvariant, TypeOK
  <2>2. x \in Process /\ x.step \in {"redis", "database", "subscribing"}
    BY <1>3, <2>1, ConnectedProcess DEF Step
  <2>3. proc' = [proc EXCEPT ![p] = x]
    BY <1>4 DEF Connect, Step
  <2> HIDE DEF x
  <2>4. x.step \in Services \cup {"subscribing"}
    BY <2>2 DEF Services
  <2>5. Life(p) = "starting" /\ Alive(p)
    BY <2>1 DEF Life, Alive, Steps
  <2>6. QED
    BY <2>2, <2>3, <2>4, <2>5, OneProcessLives
<1>5. CASE proc' = [proc EXCEPT ![p] = At("failed")] /\ Alive(p)
  BY <1>1, <1>2, <1>5, MayFail, OneProcessLives
<1>6. CASE Subscribe(p) /\ proc' # [proc EXCEPT ![p] = At("failed")]
  <2> DEFINE q == ServiceKeys[proc[p].key]
  <2>1. Step(p) = "subscribing" /\ proc[p].step = "subscribing"
        /\ proc[p].key <= Len(ServiceKeys)
    BY <1>6 DEF Subscribe, Step
  <2>2. Life(p) = "starting" /\ Alive(p)
    BY <2>1 DEF Life, Alive, Steps
  <2>3. \E x \in Process : x.step = "subscribing" /\ proc' = [proc EXCEPT ![p] = x]
    <3>1. CASE q \in proc[p].initialized /\ proc' = [proc EXCEPT ![p].key = @ + 1]
      <4> DEFINE x == [proc[p] EXCEPT !.key = @ + 1]
      <4>1. x \in Process /\ x.step = "subscribing"
        BY <1>3, <2>1, <3>1, SkippedKey
      <4>2. proc' = [proc EXCEPT ![p] = x]
        BY <3>1
      <4> HIDE DEF x
      <4>3. QED
        BY <4>1, <4>2
    <3>2. CASE /\ q \notin proc[p].initialized
               /\ proc[p].channel = "open"
               /\ proc' = [proc EXCEPT ![p] = Subscribed(@, q)]
      <4> DEFINE x == Subscribed(proc[p], q)
      <4>1. x \in Process /\ x.step = "subscribing"
        BY <1>3, <2>1, <3>2, SubscribedKey
      <4>2. proc' = [proc EXCEPT ![p] = x]
        BY <3>2
      <4> HIDE DEF x
      <4>3. QED
        BY <4>1, <4>2
    <3>3. QED
      BY <1>6, <3>1, <3>2 DEF Subscribe
  <2>4. QED
    BY <2>2, <2>3, OneProcessLives
<1>7. QED
  <2>1. Start(p) => Alive(p)
    BY DEF Start, Connect, FailToConnect, Subscribe, Alive, Steps, Services,
           BootInvariant, TypeOK
  <2>2. QED
    BY <2>1, <1>4, <1>5, <1>6 DEF Start, FailToConnect, Crash

\* Every place gets its first worker.
LEMMA ForkLives ==
  ASSUME BootInvariant, ForkWorkers
  PROVE  Lived
<1>1. Alive(Primary) /\ Step(Primary) # "serving"
  BY DEF ForkWorkers, Initialized, Alive, Steps
<1>2. At("rabbitMQ").step = "rabbitMQ"
  BY BlankProcess
<1>3. ASSUME NEW w \in Workers
      PROVE  WorkerLives!Forked(Life(w)) /\ Life(w)' = "starting"
  <2>1. Step(w) = "absent"
    BY <1>1 DEF BootInvariant, PrimaryFirst
  <2>2. Life(w) = "absent"
    BY <2>1 DEF Life, Services
  <2>3. Step(w)' = "rabbitMQ"
    BY <1>2, BootAssumption DEF ForkWorkers, Processes, Step
  <2>4. Life(w)' = "starting"
    BY <2>3 DEF Life, Services
  <2>5. QED
    BY <1>1, <2>2, <2>4 DEF WorkerLives!Forked
<1>4. QED
  BY <1>1, <1>3 DEF Lived

\* A step of a worker, or of the primary for its place.
LEMMA WorkerStepLives ==
  ASSUME BootInvariant, NEW w \in Workers,
         StartServer(w) \/ Restart(w) \/ Orphan(w) \/ ShutDownEnds(w)
  PROVE  Lived
<1>1. w \in Processes /\ w # Primary
  BY BootAssumption DEF Processes
<1>2. \A s \in Ends \cup {"rabbitMQ"} : At(s) \in Process /\ At(s).step = s
  BY BlankProcess
<1>3. proc[w] \in Process /\ Consistent(proc[w])
  BY <1>1 DEF BootInvariant, TypeOK
<1>4. CASE StartServer(w)
  <2> DEFINE x == [proc[w] EXCEPT !.step = "serving"]
  <2>1. x \in Process /\ x.step = "serving"
    BY <1>3, <1>4, SteppedProcess DEF StartServer, Initialized, Step
  <2>2. proc' = [proc EXCEPT ![w] = x]
    BY <1>4 DEF StartServer
  <2>3. Life(w) = "starting"
    BY <1>4 DEF StartServer, Initialized, Life
  <2> HIDE DEF x
  <2>4. QED
    BY <1>1, <2>1, <2>2, <2>3, OnwardIs, OneProcessLives DEF Services
<1>5. CASE Restart(w)
  <2>1. proc' = [proc EXCEPT ![w] = At("rabbitMQ")]
    BY <1>5 DEF Restart
  <2>2. Alive(Primary)
    BY <1>5 DEF Restart, Alive, Steps
  <2>3. Life(w) \in {"failed", "killed"}
    BY <1>5 DEF Restart, Life, Services
  <2>4. WorkerLives!Forked(Life(w))
    BY <2>2, <2>3 DEF WorkerLives!Forked
  <2>5. QED
    BY <1>1, <1>2, <2>1, <2>4, OneProcessLives DEF Services
<1>6. CASE Orphan(w)
  <2>1. proc' = [proc EXCEPT ![w] = At("left")]
    BY <1>6 DEF Orphan
  <2>2. WorkerLives!Orphaned(Life(w))
    BY <1>6, LifeOfAWorker DEF Orphan, WorkerLives!Orphaned
  <2>3. At("left") \in Process /\ At("left").step = "left"
    BY <1>2 DEF Ends
  <2>4. QED
    BY <1>1, <2>1, <2>2, <2>3, OneProcessLives DEF Services
<1>7. CASE ShutDownEnds(w)
  <2>1. PICK e \in {"left", "failed"} : proc' = [proc EXCEPT ![w] = At(e)]
    BY <1>7 DEF ShutDownEnds
  <2>2. Life(w) = "closing"
    BY <1>7 DEF ShutDownEnds, Life, Services
  <2>3. At(e) \in Process /\ At(e).step = e
    BY <1>2 DEF Ends
  <2>4. QED
    BY <1>1, <2>1, <2>2, <2>3, OnwardIs, OneProcessLives DEF Services
<1>8. QED
  BY <1>4, <1>5, <1>6, <1>7

\* A signal to any set of processes.
LEMMA SignalLives ==
  ASSUME BootInvariant, NEW P \in SUBSET Processes, Signal(P)
  PROVE  Lived
<1>1. /\ Primary \in Processes
      /\ \A w \in Workers : w \in Processes /\ w # Primary
  BY BootAssumption DEF Processes
<1>2. proc' = [p \in Processes |-> IF p \in P THEN Signalled(p) ELSE proc[p]]
      /\ \A p \in P : Alive(p)
  BY DEF Signal
<1>3. \A p \in Processes :
        Step(p)' =
          IF p \notin P THEN Step(p)
          ELSE IF p # Primary /\ Step(p) \in {"serving", "closing"}
               THEN "closing" ELSE "killed"
  BY <1>2, SignalledProcess DEF Step
<1>4. Alive(Primary)' => Alive(Primary)
  BY <1>1, <1>2, <1>3 DEF Alive
<1>5. ASSUME NEW w \in Workers
      PROVE  Life(w)' = Life(w) \/ Life(w)' \in WorkerLives!Onward[Life(w)]
  <2>1. CASE w \notin P
    BY <1>1, <1>3, <2>1 DEF Life
  <2>2. CASE w \in P /\ Step(w) \in {"serving", "closing"}
    <3>1. Step(w)' = "closing"
      BY <1>1, <1>3, <2>2
    <3>2. Life(w)' = "closing" /\ Life(w) \in {"serving", "closing"}
      BY <2>2, <3>1 DEF Life, Services
    <3>3. QED
      BY <3>2, OnwardIs
  <2>3. CASE w \in P /\ Step(w) \notin {"serving", "closing"}
    <3>1. Step(w)' = "killed"
      BY <1>1, <1>3, <2>3
    <3>2. Life(w)' = "killed"
      BY <3>1 DEF Life, Services
    <3>3. Life(w) = "starting"
      BY <1>2, <2>3 DEF Life, Alive, Steps
    <3>4. QED
      BY <3>2, <3>3, OnwardIs
  <2>4. QED
    BY <2>1, <2>2, <2>3
<1>6. QED
  BY <1>4, <1>5 DEF Lived

\* An outage, which may end any set of those that are connected.
LEMMA OutageLives ==
  ASSUME BootInvariant, NEW s \in Services, Outage(s)
  PROVE  Lived
<1>1. Primary \in Processes /\ \A w \in Workers : w \in Processes
  BY DEF Processes
<1>2. PICK F \in SUBSET MayFall(s) :
        proc' = [p \in Processes |-> IF p \in F THEN At("failed")
                                                ELSE Deafened(proc[p], s)]
  BY DEF Outage
<1>3. At("failed").step = "failed"
  BY BlankProcess DEF Ends
<1>4. \A p \in Processes : Deafened(proc[p], s).step = Step(p)
  BY DeafenedProcess DEF BootInvariant, TypeOK, Step
<1>5. \A p \in Processes : Step(p)' = IF p \in F THEN "failed" ELSE Step(p)
  BY <1>2, <1>3, <1>4 DEF Step
<1>6. \A p \in F : Alive(p)
  <2>1. \A p \in Processes : proc[p].channel = "open" => Alive(p)
    BY DEF BootInvariant, TypeOK, Process, Consistent, Alive, Step
  <2>2. \A p \in MayFall(s) : Alive(p)
    <3>1. CASE s = "rabbitMQ"
      BY <2>1, <3>1 DEF MayFall, Holders
    <3>2. CASE s = "redis"
      BY <3>2 DEF MayFall, Holders, Alive, Steps, Services
    <3>3. CASE s = "database"
      BY <3>3 DEF MayFall
    <3>4. QED
      BY <3>1, <3>2, <3>3 DEF Services
  <2>3. QED
    BY <2>2
<1>7. Alive(Primary)' => Alive(Primary)
  BY <1>1, <1>5, <1>6 DEF Alive
<1>8. ASSUME NEW w \in Workers
      PROVE  Life(w)' = Life(w) \/ Life(w)' \in WorkerLives!Onward[Life(w)]
  <2>1. CASE w \in F
    <3>1. Life(w)' = "failed"
      BY <1>1, <1>5, <2>1 DEF Life, Services
    <3>2. QED
      BY <1>6, <2>1, <3>1, MayFail
  <2>2. CASE w \notin F
    BY <1>1, <1>5, <2>2 DEF Life
  <2>3. QED
    BY <2>1, <2>2
<1>9. QED
  BY <1>7, <1>8 DEF Lived

\* A cluster does what WorkerLife allows: each step of it is one in the lives
\* of its workers, of any number of them at once, or leaves them alone.
THEOREM BootImplementsWorkerLife == Spec => ImplementsWorkerLife
<1>1. Init => WorkerLives!Init
  <2> SUFFICES ASSUME Init PROVE WorkerLives!Init
    OBVIOUS
  <2>1. Primary \in Processes /\ \A w \in Workers : w \in Processes /\ w # Primary
    BY BootAssumption DEF Processes
  <2>2. \A p \in Processes :
          Step(p) = IF p = Primary THEN "rabbitMQ" ELSE "absent"
    BY BlankProcess DEF Init, Step, Ends
  <2>3. Alive(Primary) /\ \A w \in Workers : Life(w) = "absent"
    BY <2>1, <2>2 DEF Alive, Steps, Services, Life
  <2>4. QED
    BY <2>3 DEF WorkerLives!Init
<1>2. BootInvariant => \A w \in Workers : Life(w) \in WorkerLives!Lives
  BY LifeOfAWorker
<1>3. ASSUME BootInvariant, [Next]_vars,
             (\A w \in Workers : Life(w) \in WorkerLives!Lives)'
      PROVE  [WorkerLives!Next]_(WorkerLives!lifeVars)
  <2>1. Lived
    <3>1. CASE UNCHANGED proc
      BY <3>1 DEF Lived, Life, Alive, Step
    <3>2. ASSUME NEW p \in Processes, Start(p) \/ Crash(p) PROVE Lived
      BY <1>3, <3>2, StartLives
    <3>3. CASE ForkWorkers
      BY <1>3, <3>3, ForkLives
    <3>4. ASSUME NEW w \in Workers,
                 StartServer(w) \/ Restart(w) \/ Orphan(w) \/ ShutDownEnds(w)
          PROVE  Lived
      BY <1>3, <3>4, WorkerStepLives
    <3>5. ASSUME NEW P \in SUBSET Processes, Signal(P) PROVE Lived
      BY <1>3, <3>5, SignalLives
    <3>6. ASSUME NEW s \in Services, Outage(s) PROVE Lived
      BY <1>3, <3>6, OutageLives
    <3>7. QED
      BY <1>3, <3>1, <3>2, <3>3, <3>4, <3>5, <3>6 DEF Next, Recover, vars
  <2>2. WorkerLives!Next
    BY <1>3, <2>1 DEF WorkerLives!Next, Lived
  <2>3. QED
    BY <2>2
<1>4. QED
  BY <1>1, <1>2, <1>3, BootInvariantHolds, PTL
     DEF Spec, ImplementsWorkerLife, WorkerLives!Spec

-----------------------------------------------------------------------------
\* How far a process has come on its way from the fork to its end.
Rank(r) ==
  CASE r.step = "absent"      -> 0
    [] r.step = "rabbitMQ"    -> 1
    [] r.step = "redis"       -> 2
    [] r.step = "database"    -> 3
    [] r.step = "subscribing" -> 3 + r.key
    [] r.step = "serving"     -> 11
    [] r.step = "closing"     -> 12
    [] OTHER                  -> 13

Advances(p) == Rank(proc[p]) < Rank(proc[p])'

\* The primary fills the place of a worker that has failed or been killed.
Replaced(p) ==
  /\ p \in Workers
  /\ Step(Primary) = "serving"
  /\ Step(p) \in {"failed", "killed"}
  /\ Step(p)' = "rabbitMQ"

\* An outage, a crash, a signal, or the end of an outage.
FromOutside ==
  \/ faults' > faults
  \/ signals' > signals
  \/ services \subseteq services' /\ services # services'

\* Nobody goes back, and what moves nobody comes from outside.
Forwards ==
  /\ \A p \in Processes :
       \/ Rank(proc[p])' = Rank(proc[p])
       \/ Advances(p)
       \/ Replaced(p)
  /\ (\E p \in Processes : Advances(p) \/ Replaced(p)) \/ FromOutside

LEMMA RankIs ==
  ASSUME NEW r \in Process
  PROVE  /\ Rank(r) \in 0 .. 13
         /\ r.step \in Ends \ {"absent"} => Rank(r) = 13
         /\ r.step \in Steps => Rank(r) \in 1 .. 12
         /\ r.step = "subscribing" => Rank(r) = 3 + r.key /\ r.key \in 1 .. 7
<1>1. r.step \in Steps \cup Ends /\ r.key \in 1 .. 7
  BY SixKeys DEF Process
<1>2. QED
  BY <1>1 DEF Rank, Steps, Services, Ends

\* A process alone that comes further.
LEMMA OneProcessAdvances ==
  ASSUME BootInvariant, NEW p \in Processes, NEW x \in Process,
         proc' = [proc EXCEPT ![p] = x],
         Rank(proc[p]) < Rank(x)
  PROVE  Forwards
<1>1. \A u \in Processes : proc'[u] = IF u = p THEN x ELSE proc[u]
  BY DEF BootInvariant, TypeOK
<1>2. \A u \in Processes :
        Rank(proc[u])' = IF u = p THEN Rank(x) ELSE Rank(proc[u])
  BY <1>1 DEF Rank
<1>3. Advances(p)
  BY <1>2 DEF Advances
<1>4. QED
  BY <1>2, <1>3 DEF Forwards

\* A process that ends.
LEMMA EndingAdvances ==
  ASSUME BootInvariant, NEW p \in Processes, Alive(p),
         NEW e \in Ends \ {"absent"}, proc' = [proc EXCEPT ![p] = At(e)]
  PROVE  Forwards
<1>1. At(e) \in Process /\ At(e).step = e
  BY BlankProcess
<1>2. proc[p] \in Process /\ proc[p].step \in Steps
  BY DEF BootInvariant, TypeOK, Alive, Step
<1>3. Rank(proc[p]) < Rank(At(e))
  BY <1>1, <1>2, RankIs
<1>4. QED
  BY <1>1, <1>3, OneProcessAdvances

LEMMA StartAdvances ==
  ASSUME BootInvariant, NEW p \in Processes, Start(p) \/ Crash(p)
  PROVE  Forwards
<1>1. proc[p] \in Process /\ Consistent(proc[p])
  BY DEF BootInvariant, TypeOK
<1>2. Alive(p)
  BY <1>1 DEF Start, Connect, FailToConnect, Subscribe, Crash, Alive, Steps,
              Services, BootInvariant, TypeOK
<1>3. CASE proc' = [proc EXCEPT ![p] = At("failed")]
  BY <1>2, <1>3, EndingAdvances DEF Ends
<1>4. CASE Connect(p)
  <2> DEFINE x == [proc[p] EXCEPT
                     !.step = NextStep[Step(p)],
                     !.channel = IF Step(p) = "rabbitMQ" THEN "open" ELSE @]
  <2>1. proc[p].step \in Services
    BY <1>4 DEF Connect, BootInvariant, TypeOK, Step
  <2>2. x \in Process /\ x.step = NextStep[proc[p].step] /\ x.key = proc[p].key
    BY <1>1, <2>1 DEF Process, Steps, Services, NextStep, Step
  <2>3. proc' = [proc EXCEPT ![p] = x]
    BY <1>4 DEF Connect, Step
  <2> HIDE DEF x
  <2>4. proc[p].key \in 1 .. 7
    BY <1>1, SixKeys DEF Process
  <2>5. Rank(proc[p]) < Rank(x)
    <3>1. CASE proc[p].step = "rabbitMQ"
      BY <2>2, <3>1 DEF NextStep, Services, Rank
    <3>2. CASE proc[p].step = "redis"
      BY <2>2, <3>2 DEF NextStep, Services, Rank
    <3>3. CASE proc[p].step = "database"
      BY <2>2, <2>4, <3>3 DEF NextStep, Services, Rank
    <3>4. QED
      BY <2>1, <3>1, <3>2, <3>3 DEF Services
  <2>6. QED
    BY <2>2, <2>3, <2>5, OneProcessAdvances
<1>5. CASE Subscribe(p) /\ proc' # [proc EXCEPT ![p] = At("failed")]
  <2> DEFINE q == ServiceKeys[proc[p].key]
  <2>1. /\ proc[p].step = "subscribing"
        /\ proc[p].key <= Len(ServiceKeys)
        /\ proc[p].key \in 1 .. 6
    BY <1>1, <1>5, SixKeys DEF Subscribe, Step, Process
  <2>2. \E x \in Process : /\ x.step = "subscribing"
                           /\ x.key = proc[p].key + 1
                           /\ proc' = [proc EXCEPT ![p] = x]
    <3>1. CASE q \in proc[p].initialized /\ proc' = [proc EXCEPT ![p].key = @ + 1]
      <4> DEFINE x == [proc[p] EXCEPT !.key = @ + 1]
      <4>1. x \in Process /\ x.step = "subscribing"
        BY <1>1, <2>1, <3>1, SkippedKey
      <4>2. x.key = proc[p].key + 1
        BY <1>1 DEF Process
      <4>3. proc' = [proc EXCEPT ![p] = x]
        BY <3>1
      <4> HIDE DEF x
      <4>4. QED
        BY <4>1, <4>2, <4>3
    <3>2. CASE /\ q \notin proc[p].initialized
               /\ proc[p].channel = "open"
               /\ proc' = [proc EXCEPT ![p] = Subscribed(@, q)]
      <4> DEFINE x == Subscribed(proc[p], q)
      <4>1. x \in Process /\ x.step = "subscribing"
        BY <1>1, <2>1, <3>2, SubscribedKey
      <4>2. x.key = proc[p].key + 1
        BY <1>1 DEF Subscribed, Process
      <4>3. proc' = [proc EXCEPT ![p] = x]
        BY <3>2
      <4> HIDE DEF x
      <4>4. QED
        BY <4>1, <4>2, <4>3
    <3>3. QED
      BY <1>5, <3>1, <3>2 DEF Subscribe
  <2>3. PICK x \in Process : /\ x.step = "subscribing"
                             /\ x.key = proc[p].key + 1
                             /\ proc' = [proc EXCEPT ![p] = x]
    BY <2>2
  <2>4. Rank(proc[p]) < Rank(x)
    BY <1>1, <2>1, <2>3, RankIs
  <2>5. QED
    BY <2>3, <2>4, OneProcessAdvances
<1>6. QED
  BY <1>3, <1>4, <1>5 DEF Start, FailToConnect, Crash

LEMMA ForkAdvances ==
  ASSUME BootInvariant, ForkWorkers
  PROVE  Forwards
<1> DEFINE x == [proc[Primary] EXCEPT !.step = "serving"]
<1>1. /\ Primary \in Processes
      /\ \A w \in Workers : w \in Processes /\ w # Primary
      /\ \A p \in Processes : p = Primary \/ p \in Workers
  BY BootAssumption DEF Processes
<1>2. /\ proc[Primary] \in Process
      /\ Step(Primary) = "subscribing"
      /\ Alive(Primary)
  BY <1>1 DEF BootInvariant, TypeOK, ForkWorkers, Initialized, Alive, Steps
<1>3. x \in Process /\ x.step = "serving"
  BY <1>2 DEF Process, Steps
<1>4. At("rabbitMQ").step = "rabbitMQ"
  BY BlankProcess
<1>5. proc' = [p \in Processes |-> IF p = Primary THEN x ELSE At("rabbitMQ")]
  BY <1>1 DEF ForkWorkers
<1> HIDE DEF x
<1>6. Advances(Primary)
  <2>1. Rank(proc[Primary]) \in 4 .. 10
    BY <1>2, RankIs DEF Step
  <2>2. Rank(proc[Primary])' = 11
    BY <1>1, <1>3, <1>5 DEF Rank
  <2>3. QED
    BY <2>1, <2>2 DEF Advances
<1>7. ASSUME NEW w \in Workers PROVE Advances(w)
  <2>1. proc[w].step = "absent"
    BY <1>2 DEF BootInvariant, PrimaryFirst, Step
  <2>2. proc'[w].step = "rabbitMQ"
    BY <1>1, <1>4, <1>5
  <2>3. QED
    BY <2>1, <2>2 DEF Advances, Rank
<1>8. QED
  BY <1>1, <1>6, <1>7 DEF Forwards

LEMMA WorkerAdvances ==
  ASSUME BootInvariant, NEW w \in Workers,
         StartServer(w) \/ Restart(w) \/ Orphan(w) \/ ShutDownEnds(w)
  PROVE  Forwards
<1>1. w \in Processes
  BY DEF Processes
<1>2. proc[w] \in Process
  BY <1>1 DEF BootInvariant, TypeOK
<1>3. CASE StartServer(w)
  <2> DEFINE x == [proc[w] EXCEPT !.step = "serving"]
  <2>1. x \in Process /\ x.step = "serving"
    BY <1>2 DEF Process, Steps
  <2>2. proc' = [proc EXCEPT ![w] = x]
    BY <1>3 DEF StartServer
  <2> HIDE DEF x
  <2>3. Rank(proc[w]) \in 4 .. 10
    BY <1>2, <1>3, RankIs DEF StartServer, Initialized, Step
  <2>4. Rank(x) = 11
    BY <2>1 DEF Rank
  <2>5. Rank(proc[w]) < Rank(x)
    BY <2>3, <2>4
  <2>6. QED
    BY <1>1, <2>1, <2>2, <2>5, OneProcessAdvances
<1>4. CASE Restart(w)
  <2>1. At("rabbitMQ").step = "rabbitMQ"
    BY BlankProcess
  <2>2. \A u \in Processes :
          proc'[u] = IF u = w THEN At("rabbitMQ") ELSE proc[u]
    BY <1>4 DEF Restart, BootInvariant, TypeOK
  <2>3. Replaced(w)
    BY <1>1, <1>4, <2>1, <2>2 DEF Restart, Replaced, Step
  <2>4. \A u \in Processes : u # w => Rank(proc[u])' = Rank(proc[u])
    BY <2>2 DEF Rank
  <2>5. QED
    BY <1>1, <2>3, <2>4 DEF Forwards
<1>5. CASE Orphan(w)
  BY <1>1, <1>5, EndingAdvances DEF Orphan, Ends
<1>6. CASE ShutDownEnds(w)
  <2>1. Alive(w)
    BY <1>6 DEF ShutDownEnds, Alive, Steps
  <2>2. PICK e \in {"left", "failed"} : proc' = [proc EXCEPT ![w] = At(e)]
    BY <1>6 DEF ShutDownEnds
  <2>3. e \in Ends \ {"absent"}
    BY DEF Ends
  <2>4. QED
    BY <1>1, <2>1, <2>2, <2>3, EndingAdvances
<1>7. QED
  BY <1>3, <1>4, <1>5, <1>6

LEMMA SignalAdvances ==
  ASSUME BootInvariant, NEW P \in SUBSET Processes, Signal(P)
  PROVE  Forwards
<1>1. FromOutside
  BY DEF Signal, FromOutside, BootInvariant, TypeOK
<1>2. proc' = [p \in Processes |-> IF p \in P THEN Signalled(p) ELSE proc[p]]
      /\ \A p \in P : Alive(p)
  BY DEF Signal
<1>3. ASSUME NEW p \in Processes
      PROVE  Rank(proc[p])' = Rank(proc[p]) \/ Advances(p)
  <2>1. CASE p \notin P
    <3>1. proc'[p] = proc[p]
      BY <1>2, <2>1
    <3>2. QED
      BY <3>1 DEF Rank
  <2>2. CASE p \in P
    <3>1. proc[p] \in Process /\ proc[p].step \in Steps
      BY <1>2, <2>2 DEF BootInvariant, TypeOK, Alive, Step
    <3>2. proc'[p].step = IF p # Primary /\ proc[p].step \in {"serving", "closing"}
                          THEN "closing" ELSE "killed"
      BY <1>2, <2>2, SignalledProcess DEF Step
    <3>3. CASE proc'[p].step = "closing"
      BY <3>2, <3>3 DEF Rank, Advances
    <3>4. CASE proc'[p].step = "killed"
      <4>1. Rank(proc[p]) \in 1 .. 12
        BY <3>1, RankIs
      <4>2. Rank(proc[p])' = 13
        BY <3>4 DEF Rank
      <4>3. QED
        BY <4>1, <4>2 DEF Advances
    <3>5. QED
      BY <3>2, <3>3, <3>4
  <2>3. QED
    BY <2>1, <2>2
<1>4. QED
  BY <1>1, <1>3 DEF Forwards

LEMMA OutageAdvances ==
  ASSUME BootInvariant, NEW s \in Services, Outage(s) \/ Recover(s)
  PROVE  Forwards
<1>1. FromOutside
  BY DEF Outage, Recover, FromOutside, BootInvariant, TypeOK
<1>2. CASE Recover(s)
  BY <1>1, <1>2 DEF Recover, Forwards
<1>3. CASE Outage(s)
  <2>1. PICK F \in SUBSET MayFall(s) :
          proc' = [p \in Processes |-> IF p \in F THEN At("failed")
                                                  ELSE Deafened(proc[p], s)]
    BY <1>3 DEF Outage
  <2>2. At("failed").step = "failed"
    BY BlankProcess DEF Ends
  <2>3. ASSUME NEW p \in Processes
        PROVE  Rank(proc[p])' = Rank(proc[p]) \/ Advances(p)
    <3>1. proc[p] \in Process /\ Consistent(proc[p])
      BY DEF BootInvariant, TypeOK
    <3>2. CASE p \in F
      <4>1. Rank(proc[p])' = 13
        BY <2>1, <2>2, <3>2 DEF Rank
      <4>2. Rank(proc[p]) \in 0 .. 13
        BY <3>1, RankIs
      <4>3. QED
        BY <4>1, <4>2 DEF Advances
    <3>3. CASE p \notin F
      <4>1. proc'[p] = Deafened(proc[p], s)
        BY <2>1, <3>3
      <4>2. /\ Deafened(proc[p], s).step = proc[p].step
            /\ Deafened(proc[p], s).key = proc[p].key
        BY <3>1, DeafenedProcess DEF Deafened, Process
      <4>3. QED
        BY <4>1, <4>2 DEF Rank
    <3>4. QED
      BY <3>2, <3>3
  <2>4. QED
    BY <1>1, <2>3 DEF Forwards
<1>4. QED
  BY <1>2, <1>3

\* The half of ClusterSettles that is safety, for any number of workers: no
\* step takes a process back, but that a worker which has failed or been
\* killed is replaced by a primary that serves; and every step brings a process
\* further, replaces one, or is one of the bounded number of faults and signals
\* or the return of a service.
THEOREM BootAdvances == Spec => [][Forwards]_vars
<1>1. ASSUME BootInvariant, [Next]_vars PROVE [Forwards]_vars
  <2>1. CASE UNCHANGED vars
    BY <2>1
  <2>2. ASSUME NEW p \in Processes, Start(p) \/ Crash(p) PROVE Forwards
    BY <1>1, <2>2, StartAdvances
  <2>3. CASE ForkWorkers
    BY <1>1, <2>3, ForkAdvances
  <2>4. ASSUME NEW w \in Workers,
               StartServer(w) \/ Restart(w) \/ Orphan(w) \/ ShutDownEnds(w)
        PROVE  Forwards
    BY <1>1, <2>4, WorkerAdvances
  <2>5. ASSUME NEW P \in SUBSET Processes, Signal(P) PROVE Forwards
    BY <1>1, <2>5, SignalAdvances
  <2>6. ASSUME NEW s \in Services, Outage(s) \/ Recover(s) PROVE Forwards
    BY <1>1, <2>6, OutageAdvances
  <2>7. QED
    BY <1>1, <2>1, <2>2, <2>3, <2>4, <2>5, <2>6 DEF Next
<1>2. QED
  BY <1>1, BootInvariantHolds, PTL DEF Spec
=============================================================================
