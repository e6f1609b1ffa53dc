--------------------------- MODULE ShutdownProofs ---------------------------
(***************************************************************************)
(* Proofs about Shutdown, for any number of requests, messages, signals    *)
(* and attempts.                                                           *)
(***************************************************************************)
EXTENDS Shutdown, TLAPS

\* A process that has just called listen satisfies the invariant.
LEMMA InitInvariant == Init => ShutdownInvariant
  BY ShutdownAssumption DEF Init, ShutdownInvariant, TypeOK, CallsFollow,
     ServicesFollow, ClosedFirst, Calls, PoolFree, Open

\* Serving requests and messages keeps the invariant: no step of it touches a
\* call of shutDown.
LEMMA ServePreserves == ShutdownInvariant /\ Serve => ShutdownInvariant'
<1> SUFFICES ASSUME ShutdownInvariant, Serve
             PROVE  ShutdownInvariant'
  OBVIOUS
<1> USE ShutdownAssumption DEF ShutdownInvariant, work, services, shutdown, Rejects
<1>1. ASSUME Listen PROVE ShutdownInvariant'
  <2>1. TypeOK'
    BY <1>1 DEF Listen, TypeOK
  <2>2. CallsFollow'
    BY <1>1 DEF Listen, CallsFollow
  <2>3. ServicesFollow'
    BY <1>1 DEF Listen, ServicesFollow, TypeOK, PoolFree
  <2>4. ClosedFirst'
    BY <1>1 DEF Listen, ClosedFirst, Open, TypeOK, CallsFollow, ServicesFollow, Calls
  <2> QED
    BY <2>1, <2>2, <2>3, <2>4
<1>2. ASSUME NEW r \in Requests, Accept(r) PROVE ShutdownInvariant'
  <2>1. TypeOK'
    BY <1>2 DEF Accept, TypeOK
  <2>2. CallsFollow'
    BY <1>2 DEF Accept, CallsFollow
  <2>3. ServicesFollow'
    BY <1>2 DEF Accept, ServicesFollow, TypeOK, PoolFree
  <2>4. ClosedFirst'
    BY <1>2 DEF Accept, ClosedFirst, Open, TypeOK, CallsFollow, ServicesFollow, Calls
  <2> QED
    BY <2>1, <2>2, <2>3, <2>4
<1>3. ASSUME NEW r \in Requests, Save(r) PROVE ShutdownInvariant'
  <2>1. TypeOK'
    BY <1>3 DEF Save, TypeOK
  <2>2. CallsFollow'
    BY <1>3 DEF Save, CallsFollow
  <2>3. ServicesFollow'
    BY <1>3 DEF Save, ServicesFollow, TypeOK, PoolFree
  <2>4. ClosedFirst'
    BY <1>3 DEF Save, ClosedFirst, Open, TypeOK, CallsFollow, ServicesFollow, Calls
  <2> QED
    BY <2>1, <2>2, <2>3, <2>4
<1>4. ASSUME NEW r \in Requests, Refuse(r) PROVE ShutdownInvariant'
  <2>1. TypeOK'
    BY <1>4 DEF Refuse, TypeOK
  <2>2. CallsFollow'
    BY <1>4 DEF Refuse, CallsFollow
  <2>3. ServicesFollow'
    BY <1>4 DEF Refuse, ServicesFollow, TypeOK, PoolFree
  <2>4. ClosedFirst'
    BY <1>4 DEF Refuse, ClosedFirst, Open, TypeOK, CallsFollow, ServicesFollow, Calls
  <2> QED
    BY <2>1, <2>2, <2>3, <2>4
<1>5. ASSUME NEW r \in Requests, Answer(r) PROVE ShutdownInvariant'
  <2>1. TypeOK'
    BY <1>5 DEF Answer, TypeOK
  <2>2. CallsFollow'
    BY <1>5 DEF Answer, CallsFollow
  <2>3. ServicesFollow'
    BY <1>5 DEF Answer, ServicesFollow, TypeOK, PoolFree
  <2>4. ClosedFirst'
    BY <1>5 DEF Answer, ClosedFirst, Open, TypeOK, CallsFollow, ServicesFollow, Calls
  <2> QED
    BY <2>1, <2>2, <2>3, <2>4
<1>6. ASSUME NEW r \in Requests, Publish(r) PROVE ShutdownInvariant'
  <2>1. TypeOK'
    BY <1>6 DEF Publish, TypeOK
  <2>2. CallsFollow'
    BY <1>6 DEF Publish, CallsFollow
  <2>3. ServicesFollow'
    BY <1>6 DEF Publish, ServicesFollow, TypeOK, PoolFree
  <2>4. ClosedFirst'
    BY <1>6 DEF Publish, ClosedFirst, Open, TypeOK, CallsFollow, ServicesFollow, Calls
  <2> QED
    BY <2>1, <2>2, <2>3, <2>4
<1>7. ASSUME NEW m \in Messages, Deliver(m) PROVE ShutdownInvariant'
  <2>1. TypeOK'
    BY <1>7 DEF Deliver, TypeOK
  <2>2. CallsFollow'
    BY <1>7 DEF Deliver, CallsFollow
  <2>3. ServicesFollow'
    BY <1>7 DEF Deliver, ServicesFollow, TypeOK, PoolFree
  <2>4. ClosedFirst'
    BY <1>7 DEF Deliver, ClosedFirst, Open, TypeOK, CallsFollow, ServicesFollow, Calls
  <2> QED
    BY <2>1, <2>2, <2>3, <2>4
<1>8. ASSUME NEW m \in Messages, Handle(m) PROVE ShutdownInvariant'
  <2>1. TypeOK'
    BY <1>8 DEF Handle, TypeOK
  <2>2. CallsFollow'
    BY <1>8 DEF Handle, CallsFollow
  <2>3. ServicesFollow'
    BY <1>8 DEF Handle, ServicesFollow, TypeOK, PoolFree
  <2>4. ClosedFirst'
    BY <1>8 DEF Handle, ClosedFirst, Open, TypeOK, CallsFollow, ServicesFollow, Calls
  <2> QED
    BY <2>1, <2>2, <2>3, <2>4
<1>9. ASSUME NEW m \in Messages, Handled(m) PROVE ShutdownInvariant'
  <2>1. TypeOK'
    BY <1>9 DEF Handled, TypeOK
  <2>2. CallsFollow'
    BY <1>9 DEF Handled, CallsFollow
  <2>3. ServicesFollow'
    BY <1>9 DEF Handled, ServicesFollow, TypeOK, PoolFree
  <2>4. ClosedFirst'
    BY <1>9 DEF Handled, ClosedFirst, Open, TypeOK, CallsFollow, ServicesFollow, Calls
  <2> QED
    BY <2>1, <2>2, <2>3, <2>4
<1>10. ASSUME NEW r \in Requests, FailQuery(r) PROVE ShutdownInvariant'
  <2>1. TypeOK'
    BY <1>10 DEF FailQuery, TypeOK
  <2>2. CallsFollow'
    BY <1>10 DEF FailQuery, CallsFollow
  <2>3. ServicesFollow'
    BY <1>10 DEF FailQuery, ServicesFollow, TypeOK, PoolFree
  <2>4. ClosedFirst'
    BY <1>10 DEF FailQuery, ClosedFirst, Open, TypeOK, CallsFollow, ServicesFollow, Calls
  <2> QED
    BY <2>1, <2>2, <2>3, <2>4
<1>11. ASSUME NEW m \in Messages, FailHandler(m) PROVE ShutdownInvariant'
  <2>1. TypeOK'
    BY <1>11 DEF FailHandler, TypeOK
  <2>2. CallsFollow'
    BY <1>11 DEF FailHandler, CallsFollow
  <2>3. ServicesFollow'
    BY <1>11 DEF FailHandler, ServicesFollow, TypeOK, PoolFree
  <2>4. ClosedFirst'
    BY <1>11 DEF FailHandler, ClosedFirst, Open, TypeOK, CallsFollow, ServicesFollow, Calls
  <2> QED
    BY <2>1, <2>2, <2>3, <2>4
<1> QED
  BY <1>1, <1>2, <1>3, <1>4, <1>5, <1>6, <1>7, <1>8, <1>9, <1>10, <1>11 DEF Serve

\* What an attempt at disconnecting the database does to its call: the call
\* waits only for a pool it has ended itself, and tries again only if there are
\* attempts left.
Attempted(c) ==
  /\ attempt' \in [Calls -> 0..MaxRetries]
  /\ \A d \in Calls \ {c} : attempt'[d] = attempt[d]
  /\ db' \in {"open", "ending", "broken", "closed"}
  /\ db' # db => db = "open" /\ db' = "ending"
  /\ \E s \in {"waiting", "delay", "done", "failed"} :
       /\ step' = [step EXCEPT ![c] = s]
       /\ s = "waiting" => /\ db = "open" /\ db' = "ending"
                           /\ attempt'[c] \in 1..MaxRetries
       /\ s = "delay" => /\ db' # "open"
                         /\ attempt'[c] \in 1..(MaxRetries - 1)

\* Attempt k at disconnecting the database is one, and leaves no open pool.
LEMMA DisconnectDbAttempts ==
  ASSUME NEW c \in Calls, NEW k \in 1..MaxRetries, TypeOK, DisconnectDb(c, k)
  PROVE  Attempted(c) /\ db' # "open"
<1>1. /\ attempt' \in [Calls -> 0..MaxRetries]
      /\ attempt'[c] = k
      /\ \A d \in Calls \ {c} : attempt'[d] = attempt[d]
  BY ShutdownAssumption DEF TypeOK, DisconnectDb
<1>2. CASE db = "open"
  BY <1>1, <1>2 DEF Attempted, DisconnectDb
<1>3. CASE db = "closed"
  BY <1>1, <1>3 DEF Attempted, DisconnectDb
<1>4. CASE db \in {"ending", "broken"}
  <2>1. k < MaxRetries => k \in 1..(MaxRetries - 1)
    BY ShutdownAssumption
  <2> QED
    BY <1>1, <1>4, <2>1 DEF Attempted, DisconnectDb, AfterFailure
<1> QED
  BY <1>2, <1>3, <1>4 DEF TypeOK

\* So is the first step of disconnectServices, which drops the clients with the
\* pool or, without an attempt to make, neither.
LEMMA DisconnectServicesAttempts ==
  ASSUME NEW c \in Calls, TypeOK, ServicesFollow, DisconnectServices(c)
  PROVE  Attempted(c) /\ clients' \in BOOLEAN /\ (clients' <=> db' = "open")
<1>1. CASE MaxRetries = 0
  BY <1>1 DEF Attempted, DisconnectServices, TypeOK, services, ServicesFollow
<1>2. CASE MaxRetries # 0
  <2>1. 1 \in 1..MaxRetries
    BY <1>2, ShutdownAssumption
  <2> QED
    BY <1>2, <2>1, DisconnectDbAttempts DEF DisconnectServices
<1> QED
  BY <1>1, <1>2

\* A signal keeps the invariant: only a call that is not to wait for the server
\* disconnects anything.
LEMMA ShutDownPreserves ==
  ASSUME NEW c \in Calls
  PROVE  ShutdownInvariant /\ ShutDown(c) => ShutdownInvariant'
<1> SUFFICES ASSUME ShutdownInvariant, ShutDown(c)
             PROVE  ShutdownInvariant'
  OBVIOUS
<1> USE ShutdownAssumption DEF ShutdownInvariant, work, Calls
<1>1. CASE server = "listening"
  <2> USE <1>1 DEF ShutDown, services
  <2>1. TypeOK'
    BY DEF TypeOK
  <2>2. CallsFollow'
    <3>1. step' = [step EXCEPT ![c] = "closing"] /\ UNCHANGED <<db, attempt>>
      OBVIOUS
    <3>2. \A d \in Calls : step[d] # "closing"
      BY DEF CallsFollow
    <3>3. \A d \in Calls : step'[d] = IF d = c THEN "closing" ELSE step[d]
      BY <3>1 DEF TypeOK
    <3> QED
      BY <3>1, <3>2, <3>3 DEF CallsFollow, TypeOK
  <2>3. ServicesFollow'
    BY DEF ServicesFollow, PoolFree
  <2>4. ClosedFirst'
    BY DEF ClosedFirst, CallsFollow, TypeOK, ServicesFollow
  <2> QED
    BY <2>1, <2>2, <2>3, <2>4
<1>2. CASE server # "listening"
  <2>1. /\ exit = "none" /\ c = signals + 1 /\ signals' = c
        /\ UNCHANGED <<server, work, fails, exit>>
        /\ Attempted(c) /\ clients' \in BOOLEAN /\ (clients' <=> db' = "open")
    BY <1>2, DisconnectServicesAttempts DEF ShutDown
  <2>2. TypeOK'
    BY <2>1 DEF TypeOK, Attempted
  <2>3. CallsFollow'
    BY <2>1 DEF CallsFollow, TypeOK, ServicesFollow, Attempted
  <2>4. ServicesFollow'
    BY <2>1 DEF ServicesFollow, TypeOK, PoolFree, Attempted
  <2>5. ClosedFirst'
    BY <1>2, <2>1 DEF ClosedFirst, CallsFollow, TypeOK, ServicesFollow, Open
  <2> QED
    BY <2>2, <2>3, <2>4, <2>5
<1> QED
  BY <1>1, <1>2

\* So do the steps of a call from then on.
LEMMA ProceedPreserves ==
  ASSUME NEW c \in Calls
  PROVE  ShutdownInvariant /\ (Proceed(c) \/ DbEnds(c)) => ShutdownInvariant'
<1> SUFFICES ASSUME ShutdownInvariant, Proceed(c) \/ DbEnds(c)
             PROVE  ShutdownInvariant'
  OBVIOUS
<1> USE ShutdownAssumption DEF ShutdownInvariant, services, work, shutdown, Calls
<1>1. ASSUME Closed(c) PROVE ShutdownInvariant'
  <2>1. /\ exit = "none" /\ step[c] = "closing" /\ Open = {} /\ server' = "closed"
        /\ UNCHANGED <<work, signals, fails, exit>>
        /\ Attempted(c) /\ clients' \in BOOLEAN /\ (clients' <=> db' = "open")
    BY <1>1, DisconnectServicesAttempts DEF Closed
  <2>2. TypeOK'
    BY <2>1 DEF TypeOK, Attempted
  <2>3. CallsFollow'
    BY <2>1 DEF CallsFollow, TypeOK, Attempted
  <2>4. ServicesFollow'
    BY <2>1 DEF ServicesFollow, CallsFollow, TypeOK, PoolFree, Attempted
  <2>5. ClosedFirst'
    BY <2>1 DEF ClosedFirst, CallsFollow, TypeOK, ServicesFollow, Open, Attempted
  <2> QED
    BY <2>2, <2>3, <2>4, <2>5
<1>2. ASSUME DbEnds(c) PROVE ShutdownInvariant'
  <2> USE <1>2 DEF DbEnds
  <2>1. TypeOK'
    BY DEF TypeOK, AfterFailure
  <2>2. CallsFollow'
    BY DEF CallsFollow, TypeOK, AfterFailure
  <2>3. ServicesFollow'
    BY DEF ServicesFollow, CallsFollow, TypeOK, PoolFree
  <2>4. ClosedFirst'
    BY DEF ClosedFirst, CallsFollow, TypeOK, ServicesFollow, Open
  <2> QED
    BY <2>1, <2>2, <2>3, <2>4
<1>3. ASSUME Retry(c) PROVE ShutdownInvariant'
  <2>1. attempt[c] + 1 \in 1..MaxRetries
    BY <1>3 DEF Retry, CallsFollow
  <2>2. /\ exit = "none" /\ step[c] = "delay"
        /\ UNCHANGED <<server, work, clients, signals, fails, exit>>
        /\ Attempted(c) /\ db' # "open"
    BY <1>3, <2>1, DisconnectDbAttempts DEF Retry
  <2>3. TypeOK'
    BY <2>2 DEF TypeOK, Attempted
  <2>4. CallsFollow'
    BY <2>2 DEF CallsFollow, TypeOK, Attempted
  <2>5. ServicesFollow'
    BY <2>2 DEF ServicesFollow, CallsFollow, TypeOK, PoolFree, Attempted
  <2>6. ClosedFirst'
    BY <2>2 DEF ClosedFirst, CallsFollow, TypeOK, Open, Attempted
  <2> QED
    BY <2>3, <2>4, <2>5, <2>6
<1>4. ASSUME Exit(c) PROVE ShutdownInvariant'
  <2> USE <1>4 DEF Exit
  <2>1. TypeOK'
    BY DEF TypeOK
  <2>2. CallsFollow'
    BY DEF CallsFollow
  <2>3. ServicesFollow'
    BY DEF ServicesFollow, PoolFree
  <2>4. ClosedFirst'
    BY DEF ClosedFirst, CallsFollow, TypeOK, Open
  <2> QED
    BY <2>1, <2>2, <2>3, <2>4
<1> QED
  BY <1>1, <1>2, <1>3, <1>4 DEF Proceed

\* The invariant is inductive: at every step of every call of shutDown, what
\* the call waits for, the services and the open requests agree.
THEOREM ShutdownInvariantHolds == Spec => []ShutdownInvariant
<1>1. ShutdownInvariant /\ UNCHANGED vars => ShutdownInvariant'
  BY DEF ShutdownInvariant, TypeOK, CallsFollow, ServicesFollow, ClosedFirst, Open,
     PoolFree, Calls, vars, work, services, shutdown
<1>2. ShutdownInvariant /\ [Next]_vars => ShutdownInvariant'
  BY <1>1, ServePreserves, ShutDownPreserves, ProceedPreserves DEF Next
<1> QED
  BY <1>2, InitInvariant, PTL DEF Spec

\* A process that is signalled once, while it listens, answers every request it
\* has accepted before it disconnects a service or exits.
THEOREM OneSignalShutsDownGracefully == Spec => []OneSignalIsGraceful
<1>1. ShutdownInvariant => OneSignalIsGraceful
  BY DEF ShutdownInvariant, ClosedFirst, ServicesFollow, OneSignalIsGraceful
<1> QED
  BY <1>1, ShutdownInvariantHolds, PTL

\* Only a step that loses a publication or a message ends the process with 1.
LEMMA LossIsFatalPreserved ==
  TypeOK /\ LossIsFatal /\ [Next]_vars => LossIsFatal'
<1> SUFFICES ASSUME TypeOK, LossIsFatal, [Next]_vars
             PROVE  LossIsFatal'
  OBVIOUS
<1> USE DEF TypeOK, LossIsFatal, work, Rejects
<1>1. CASE Listen
  BY <1>1 DEF Listen
<1>2. ASSUME NEW r \in Requests, Accept(r) \/ Save(r) \/ Refuse(r) \/ FailQuery(r)
      PROVE  LossIsFatal'
  BY <1>2 DEF Accept, Save, Refuse, FailQuery
<1>3. ASSUME NEW r \in Requests, Answer(r) PROVE LossIsFatal'
  BY <1>3 DEF Answer
<1>4. ASSUME NEW r \in Requests, Publish(r) PROVE LossIsFatal'
  BY <1>4 DEF Publish
<1>5. ASSUME NEW m \in Messages, Deliver(m) \/ Handled(m) PROVE LossIsFatal'
  BY <1>5 DEF Deliver, Handled
<1>6. ASSUME NEW m \in Messages, Handle(m) \/ FailHandler(m) PROVE LossIsFatal'
  BY <1>6 DEF Handle, FailHandler
<1>7. ASSUME NEW c \in Calls, ShutDown(c) \/ Closed(c) \/ Retry(c) \/ DbEnds(c)
      PROVE  LossIsFatal'
  BY <1>7 DEF ShutDown, Closed, Retry, DbEnds
<1>8. ASSUME NEW c \in Calls, Exit(c) PROVE LossIsFatal'
  BY <1>8 DEF Exit
<1>9. CASE UNCHANGED vars
  BY <1>9 DEF vars
<1> QED
  BY <1>1, <1>2, <1>3, <1>4, <1>5, <1>6, <1>7, <1>8, <1>9 DEF Next, Serve, Proceed

\* A worker ends with code 1 exactly when a publication or a message has failed
\* under it: every loss the process notices is fatal, and nothing else is.
THEOREM LossEndsTheWorker == Spec => []LossIsFatal
<1>1. Init => LossIsFatal
  BY DEF Init, LossIsFatal
<1>2. ShutdownInvariant => TypeOK
  BY DEF ShutdownInvariant
<1> QED
  BY <1>1, <1>2, LossIsFatalPreserved, ShutdownInvariantHolds, PTL DEF Spec

\* What a step may do to the exit code and to the number of signals.
LEMMA ExitOrSignal ==
  ASSUME ShutdownInvariant, [Next]_vars
  PROVE  \/ UNCHANGED <<signals, exit>>
         \/ exit = "none" /\ exit' = "1" /\ UNCHANGED signals
         \/ exit = "none" /\ exit' = "0" /\ signals > 0 /\ UNCHANGED signals
         \/ exit = "none" /\ signals' = signals + 1 /\ UNCHANGED exit
<1> DEFINE G == \/ UNCHANGED <<signals, exit>>
                \/ exit = "none" /\ exit' = "1" /\ UNCHANGED signals
                \/ exit = "none" /\ exit' = "0" /\ signals > 0 /\ UNCHANGED signals
                \/ exit = "none" /\ signals' = signals + 1 /\ UNCHANGED exit
<1> USE DEF shutdown, Rejects
<1>1. CASE Listen
  BY <1>1 DEF Listen
<1>2. ASSUME NEW r \in Requests,
             \/ Accept(r) \/ Save(r) \/ Refuse(r) \/ FailQuery(r)
             \/ Answer(r) \/ Publish(r)
      PROVE  G
  BY <1>2 DEF Accept, Save, Refuse, FailQuery, Answer, Publish
<1>3. ASSUME NEW m \in Messages,
             Deliver(m) \/ Handle(m) \/ Handled(m) \/ FailHandler(m)
      PROVE  G
  BY <1>3 DEF Deliver, Handle, Handled, FailHandler
<1>4. ASSUME NEW c \in Calls, Closed(c) \/ Retry(c) \/ DbEnds(c)
      PROVE  G
  BY <1>4 DEF Closed, Retry, DbEnds
<1>5. ASSUME NEW c \in Calls, Exit(c)
      PROVE  G
  <2>1. step[c] # "none"
    BY <1>5 DEF Exit
  <2>2. c <= signals /\ signals \in Nat /\ c \in 1..MaxSignals
    BY <2>1, ShutdownAssumption DEF ShutdownInvariant, CallsFollow, TypeOK, Calls
  <2> QED
    BY <1>5, <2>2, ShutdownAssumption DEF Exit
<1>6. ASSUME NEW c \in Calls, ShutDown(c)
      PROVE  G
  BY <1>6 DEF ShutDown
<1>7. CASE UNCHANGED vars
  BY <1>7 DEF vars
<1> QED
  BY <1>1, <1>2, <1>3, <1>4, <1>5, <1>6, <1>7 DEF Next, Serve, Proceed

\* A worker that is shut down does what WorkerLife allows: each step of it is
\* one of the worker's life, or leaves it alone.
THEOREM ShutdownImplementsWorkerLife == Spec => ImplementsWorkerLife
<1>1. Init => WorkerLives!Init
  BY DEF Init, WorkerLives!Init, Life
<1>2. ASSUME ShutdownInvariant, [Next]_vars
      PROVE  [WorkerLives!Next]_(WorkerLives!lifeVars)
  <2>1. \/ Life' = Life
        \/ Life = "serving" /\ Life' \in {"closing", "failed"}
        \/ Life = "closing" /\ Life' \in {"left", "failed"}
    BY <1>2, ExitOrSignal, ShutdownAssumption DEF Life, ShutdownInvariant, TypeOK
  <2>2. Life' = Life \/ Life' \in WorkerLives!Onward[Life]
    BY <2>1 DEF WorkerLives!Onward
  <2>3. Life' \in WorkerLives!Lives
    BY DEF Life, WorkerLives!Lives, WorkerLives!Running
  <2>4. WorkerLives!Next
    BY <2>2, <2>3 DEF WorkerLives!Next
  <2> QED
    BY <2>4
<1> QED
  BY <1>1, <1>2, ShutdownInvariantHolds, PTL
     DEF Spec, ImplementsWorkerLife, WorkerLives!Spec
-----------------------------------------------------------------------------
(* Every call of shutDown comes to an end *)

\* How far call c is: each attempt at the database has two places, waiting for
\* destroy and waiting for the delay.
Progress(c) ==
  CASE step[c] = "none" -> 0
    [] step[c] = "closing" -> 1
    [] step[c] = "waiting" -> 2 * attempt[c]
    [] step[c] = "delay" -> 2 * attempt[c] + 1
    [] OTHER -> 2 * MaxRetries + 2

\* No step of any call, request, message or signal sets a call of shutDown back
\* or lets it repeat itself.
CallsAdvance ==
  [][\A c \in Calls :
       UNCHANGED <<step[c], attempt[c]>> \/ Progress(c)' > Progress(c)]_vars

\* What is left of ShutdownEnds without fairness: a call gets nowhere twice.
ProgressIsBounded == \A c \in Calls : Progress(c) \in 0 .. 2 * MaxRetries + 2

\* A call of shutDown takes at most two steps for each attempt and two more.
THEOREM CallsOfShutDownAdvance == Spec => CallsAdvance /\ []ProgressIsBounded
<1> USE ShutdownAssumption DEF Progress
<1>1. ASSUME NEW c \in Calls, NEW k \in 1..MaxRetries, TypeOK, DisconnectDb(c, k),
             Progress(c) < 2 * k
      PROVE  /\ Progress(c)' > Progress(c)
             /\ \A d \in Calls \ {c} : UNCHANGED <<step[d], attempt[d]>>
  BY <1>1 DEF DisconnectDb, AfterFailure, TypeOK
<1>2. ASSUME NEW c \in Calls, TypeOK, DisconnectServices(c), Progress(c) <= 1
      PROVE  /\ Progress(c)' > Progress(c)
             /\ \A d \in Calls \ {c} : UNCHANGED <<step[d], attempt[d]>>
  <2>1. CASE MaxRetries = 0
    BY <1>2, <2>1 DEF DisconnectServices, TypeOK
  <2>2. CASE MaxRetries # 0
    <3>1. 1 \in 1..MaxRetries /\ Progress(c) < 2 * 1
      BY <1>2, <2>2 DEF TypeOK
    <3>2. DisconnectDb(c, 1)
      BY <1>2, <2>2 DEF DisconnectServices
    <3> HIDE DEF Progress
    <3> QED
      BY <1>1, <1>2, <3>1, <3>2
  <2> QED
    BY <2>1, <2>2
<1>3. ASSUME ShutdownInvariant, [Next]_vars, NEW c \in Calls
      PROVE  UNCHANGED <<step[c], attempt[c]>> \/ Progress(c)' > Progress(c)
  <2> USE DEF ShutdownInvariant, TypeOK, CallsFollow
  <2>1. ASSUME NEW d \in Calls, ShutDown(d)
        PROVE  UNCHANGED <<step[c], attempt[c]>> \/ Progress(c)' > Progress(c)
    <3>1. step[d] = "none" /\ Progress(d) = 0
      BY <1>3, <2>1 DEF ShutDown, Calls
    <3>2. CASE server = "listening"
      BY <1>3, <2>1, <3>1, <3>2 DEF ShutDown
    <3>3. CASE server # "listening"
      BY <1>2, <1>3, <2>1, <3>1, <3>3 DEF ShutDown
    <3> QED
      BY <3>2, <3>3
  <2>2. ASSUME NEW d \in Calls, Closed(d)
        PROVE  UNCHANGED <<step[c], attempt[c]>> \/ Progress(c)' > Progress(c)
    BY <1>2, <1>3, <2>2 DEF Closed
  <2>3. ASSUME NEW d \in Calls, DbEnds(d)
        PROVE  UNCHANGED <<step[c], attempt[c]>> \/ Progress(c)' > Progress(c)
    BY <1>3, <2>3 DEF DbEnds, AfterFailure
  <2>4. ASSUME NEW d \in Calls, Retry(d)
        PROVE  UNCHANGED <<step[c], attempt[c]>> \/ Progress(c)' > Progress(c)
    <3>1. attempt[d] + 1 \in 1..MaxRetries /\ Progress(d) < 2 * (attempt[d] + 1)
      BY <1>3, <2>4 DEF Retry
    <3> QED
      BY <1>1, <1>3, <2>4, <3>1 DEF Retry
  <2>5. CASE UNCHANGED <<step, attempt>>
    BY <2>5
  <2> QED
    BY <1>3, <2>1, <2>2, <2>3, <2>4, <2>5
       DEF Next, vars, shutdown, Proceed, Exit, Serve, Listen, Accept, Save, Refuse,
           FailQuery, Answer, Publish, Deliver, Handle, Handled, FailHandler
<1>4. ShutdownInvariant => ProgressIsBounded
  BY DEF ShutdownInvariant, TypeOK, CallsFollow, ProgressIsBounded
<1>5. ASSUME ShutdownInvariant, [Next]_vars
      PROVE  \A c \in Calls :
               UNCHANGED <<step[c], attempt[c]>> \/ Progress(c)' > Progress(c)
  BY <1>3, <1>5
<1> QED
  BY <1>4, <1>5, ShutdownInvariantHolds, PTL DEF Spec, CallsAdvance

=============================================================================
