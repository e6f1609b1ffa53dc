-------------------------- MODULE WorkerPoolProofs --------------------------
(***************************************************************************)
(* Theorems about WorkerPool, for any number of callers, tasks and threads *)
(* that die.  What a step does to a sequence is stated by index.            *)
(***************************************************************************)
EXTENDS WorkerPool, FiniteSetTheorems, SequenceTheorems, TLAPS

\* The tail of a nonempty sequence, by index.
LEMMA TailFacts ==
  ASSUME NEW S, NEW s \in Seq(S), s # <<>>
  PROVE  /\ Tail(s) \in Seq(S)
         /\ Len(Tail(s)) = Len(s) - 1
         /\ \A i \in 1..Len(Tail(s)) : Tail(s)[i] = s[i + 1]
         /\ Head(s) \in S /\ Head(s) = s[1]
         /\ Len(s) \in Nat \ {0}
  OBVIOUS

\* A sequence with an element more, by index.
LEMMA AppendFacts ==
  ASSUME NEW S, NEW s \in Seq(S), NEW e \in S
  PROVE  /\ Append(s, e) \in Seq(S)
         /\ Append(s, e) # <<>>
         /\ Len(Append(s, e)) = Len(s) + 1
         /\ \A i \in 1..Len(s) : Append(s, e)[i] = s[i]
         /\ Append(s, e)[Len(s) + 1] = e
         /\ Len(s) \in Nat
  OBVIOUS

\* A sequence without its last element, by index.
LEMMA FrontFacts ==
  ASSUME NEW S, NEW s \in Seq(S), s # <<>>
  PROVE  /\ Front(s) \in Seq(S)
         /\ Len(Front(s)) = Len(s) - 1
         /\ \A i \in 1..Len(Front(s)) : Front(s)[i] = s[i]
         /\ Last(s) \in S /\ Last(s) = s[Len(s)]
         /\ Len(s) \in Nat \ {0}
<1> DEFINE n == Len(s) - 1
<1>1. Len(s) \in Nat \ {0} /\ n \in Nat /\ \A i \in 1..Len(s) : s[i] \in S
  OBVIOUS
<1>2. n \in Int /\ 1 \in Int /\ \A i \in 1..n : s[i] \in S
  BY <1>1
<1>3. /\ SubSeq(s, 1, n) \in Seq(S)
      /\ Len(SubSeq(s, 1, n)) = IF 1 <= n THEN n - 1 + 1 ELSE 0
      /\ \A i \in 1..(n - 1 + 1) : SubSeq(s, 1, n)[i] = s[1 + i - 1]
  <2> HIDE DEF n
  <2> QED
    BY <1>2, SubSeqProperties
<1>4. Len(SubSeq(s, 1, n)) = n /\ \A i \in 1..n : SubSeq(s, 1, n)[i] = s[i]
  <2>1. n - 1 + 1 = n /\ \A i \in 1..n : 1 + i - 1 = i
    BY <1>1
  <2> HIDE DEF n
  <2>2. Len(SubSeq(s, 1, n)) = n
    BY <1>1, <1>3, <2>1
  <2>3. ASSUME NEW i \in 1..n PROVE SubSeq(s, 1, n)[i] = s[i]
    <3>1. i \in 1..(n - 1 + 1) /\ 1 + i - 1 = i
      BY <2>1
    <3> QED
      BY <1>3, <3>1
  <2> QED
    BY <2>2, <2>3
<1> QED
  BY <1>1, <1>3, <1>4 DEF Front, Last

\* The last idle thread goes to work.
LEMMA Moved ==
  ASSUME NEW pool \in Seq(Nat), NEW busy \in SUBSET Runs, NEW last \in Nat,
         Distinct(pool, busy, last), pool # <<>>,
         NEW rest \in Seq(Nat), Len(rest) = Len(pool) - 1,
         \A i \in 1..Len(rest) : rest[i] = pool[i],
         NEW run \in Runs, run.thread = pool[Len(pool)]
  PROVE  Distinct(rest, busy \cup {run}, last) /\ run \notin busy
<1>1. Len(pool) \in 1..Len(pool)
  OBVIOUS
<1>2. \A i \in 1..Len(rest) : i \in 1..Len(pool) /\ i # Len(pool)
  OBVIOUS
<1>3. run.thread <= last /\ \A r \in busy : r.thread # run.thread
  BY <1>1 DEF Distinct
<1>4. /\ \A i \in 1..Len(rest) : rest[i] <= last
      /\ \A i, j \in 1..Len(rest) : rest[i] = rest[j] => i = j
  BY <1>2 DEF Distinct
<1>5. \A i \in 1..Len(rest) : rest[i] # run.thread
  BY <1>1, <1>2 DEF Distinct
<1>6. \A r \in busy : /\ r.thread <= last
                      /\ \A i \in 1..Len(rest) : rest[i] # r.thread
                      /\ \A other \in busy : other.thread = r.thread => other = r
  BY <1>2 DEF Distinct
<1> QED
  BY <1>3, <1>4, <1>5, <1>6 DEF Distinct

\* processQueue: a task is posted if there is a task and an idle thread, and
\* the thread moves from the pool to the threads at work.
LEMMA Posting ==
  ASSUME NEW queue \in Seq(Tasks), NEW pool \in Seq(Nat), NEW busy \in SUBSET Runs,
         IsFiniteSet(busy), NEW last \in Nat, Distinct(pool, busy, last),
         ProcessQueue(queue, pool, busy)
  PROVE  /\ workerPool' \in Seq(Nat)
         /\ running' \in SUBSET Runs
         /\ IsFiniteSet(running')
         /\ Distinct(workerPool', running', last)
         /\ queue # <<>> /\ pool # <<>> =>
              /\ Cardinality(running') = Cardinality(busy) + 1
              /\ Len(workerPool') = Len(pool) - 1
              /\ running' = busy \cup {[thread |-> Last(pool), task |-> Head(queue)]}
         /\ queue = <<>> \/ pool = <<>> => workerPool' = pool /\ running' = busy
<1>1. CASE ~(queue # <<>> /\ pool # <<>>)
  BY <1>1 DEF ProcessQueue
<1>2. CASE queue # <<>> /\ pool # <<>>
  <2> DEFINE run == [thread |-> Last(pool), task |-> Head(queue)]
  <2>1. /\ Head(queue) \in Tasks
        /\ Last(pool) \in Nat
        /\ Last(pool) = pool[Len(pool)]
        /\ Len(Front(pool)) = Len(pool) - 1
        /\ Front(pool) \in Seq(Nat)
        /\ \A i \in 1..Len(Front(pool)) : Front(pool)[i] = pool[i]
    BY <1>2, TailFacts, FrontFacts
  <2>2. run \in Runs /\ run.thread = Last(pool)
    BY <2>1 DEF Runs
  <2>3. workerPool' = Front(pool) /\ running' = busy \cup {run}
    BY <1>2 DEF ProcessQueue
  <2> HIDE DEF run
  <2>4. Distinct(Front(pool), busy \cup {run}, last) /\ run \notin busy
    BY <1>2, <2>1, <2>2, Moved
  <2>5. IsFiniteSet(running') /\ Cardinality(running') = Cardinality(busy) + 1
    BY <2>3, <2>4, FS_AddElement
  <2>6. Distinct(workerPool', running', last)
    BY <2>3, <2>4
  <2> QED
    BY <1>2, <2>1, <2>2, <2>3, <2>5, <2>6 DEF run
<1> QED
  BY <1>1, <1>2

\* A thread that answers goes back to the pool.
LEMMA PutBack ==
  ASSUME NEW pool \in Seq(Nat), NEW busy \in SUBSET Runs, IsFiniteSet(busy),
         NEW last \in Nat, Distinct(pool, busy, last), NEW run \in busy
  PROVE  /\ Append(pool, run.thread) \in Seq(Nat)
         /\ Distinct(Append(pool, run.thread), busy \ {run}, last)
         /\ IsFiniteSet(busy \ {run})
         /\ Cardinality(busy \ {run}) = Cardinality(busy) - 1
<1>1. run.thread \in Nat
  BY DEF Runs
<1>2. /\ Append(pool, run.thread) \in Seq(Nat)
      /\ Len(Append(pool, run.thread)) = Len(pool) + 1
      /\ \A i \in 1..Len(pool) : Append(pool, run.thread)[i] = pool[i]
      /\ Append(pool, run.thread)[Len(pool) + 1] = run.thread
      /\ Len(pool) \in Nat
  BY <1>1, AppendFacts
<1>3. \A i \in 1..Len(Append(pool, run.thread)) :
        \/ i \in 1..Len(pool) /\ Append(pool, run.thread)[i] = pool[i]
        \/ i = Len(pool) + 1 /\ Append(pool, run.thread)[i] = run.thread
  BY <1>2
<1>4. Distinct(Append(pool, run.thread), busy \ {run}, last)
  BY <1>2, <1>3 DEF Distinct
<1> QED
  BY <1>2, <1>4, FS_RemoveElement

\* createWorker: a new thread has a name of its own.
LEMMA NewThread ==
  ASSUME NEW pool \in Seq(Nat), NEW busy \in SUBSET Runs,
         NEW last \in Nat, Distinct(pool, busy, last)
  PROVE  /\ Append(pool, last + 1) \in Seq(Nat)
         /\ Distinct(Append(pool, last + 1), busy, last + 1)
<1>1. /\ Append(pool, last + 1) \in Seq(Nat)
      /\ Len(Append(pool, last + 1)) = Len(pool) + 1
      /\ Len(pool) \in Nat
  BY AppendFacts
<1>2. \A i \in 1..Len(Append(pool, last + 1)) :
        \/ i \in 1..Len(pool) /\ Append(pool, last + 1)[i] = pool[i]
        \/ i = Len(pool) + 1 /\ Append(pool, last + 1)[i] = last + 1
  BY <1>1, AppendFacts
<1>3. \A i \in 1..Len(pool) : pool[i] \in Nat
  OBVIOUS
<1>4. \A r \in busy : r.thread \in Nat
  BY DEF Runs
<1>5. Distinct(Append(pool, last + 1), busy, last + 1)
  BY <1>1, <1>2, <1>3, <1>4 DEF Distinct
<1> QED
  BY <1>1, <1>5

-----------------------------------------------------------------------------
(* The invariant of the pool *)

\* What a caller's task is, and that it is a task.
LEMMA NextTask ==
  ASSUME TypeOK, NEW c \in Clients, calls[c] < Calls
  PROVE  [client |-> c, call |-> calls[c] + 1] \in Tasks
  BY PoolAssumption DEF TypeOK, Tasks

\* The threads keep their names and places, and each step leaves a thread at
\* work for every task in the queue.
LEMMA ThreadStep ==
  ASSUME TypeOK, ThreadsDistinct, RunsCoverQueue, [Next]_vars
  PROVE  /\ workerPool' \in Seq(Nat) /\ running' \in SUBSET Runs
         /\ taskQueue' \in Seq(Tasks) /\ created' \in Nat
         /\ ThreadsDistinct' /\ RunsCoverQueue'
<1> USE DEF ThreadsDistinct, RunsCoverQueue
<1>t. /\ taskQueue \in Seq(Tasks) /\ workerPool \in Seq(Nat) /\ created \in Nat
      /\ running \in SUBSET Runs /\ IsFiniteSet(running)
      /\ Cardinality(running) \in Nat /\ Len(taskQueue) \in Nat
  BY FS_CardinalityType DEF TypeOK
<1>1. ASSUME NEW c \in Clients, ExecuteHeavyTask(c)
      PROVE  /\ workerPool' \in Seq(Nat) /\ running' \in SUBSET Runs
             /\ taskQueue' \in Seq(Tasks) /\ created' \in Nat
             /\ ThreadsDistinct' /\ RunsCoverQueue'
  <2> DEFINE task == [client |-> c, call |-> calls[c] + 1]
             queue == Append(taskQueue, task)
  <2>1. task \in Tasks
    BY <1>1, NextTask DEF ExecuteHeavyTask
  <2>2. /\ queue \in Seq(Tasks) /\ queue # <<>>
        /\ Len(queue) = Len(taskQueue) + 1 /\ taskQueue' = queue
    BY <1>1, <1>t, <2>1, AppendFacts DEF ExecuteHeavyTask
  <2> HIDE DEF task, queue
  <2>3. CASE NeedsWorker(queue)
    <3>1. /\ created' = created + 1
          /\ ProcessQueue(queue, Append(workerPool, created + 1), running)
      BY <1>1, <2>3 DEF ExecuteHeavyTask, queue, task
    <3>2. /\ Append(workerPool, created + 1) \in Seq(Nat)
          /\ Append(workerPool, created + 1) # <<>>
          /\ Distinct(Append(workerPool, created + 1), running, created + 1)
          /\ created + 1 \in Nat
      BY <1>t, NewThread, AppendFacts
    <3> DEFINE more == Append(workerPool, created + 1)
               next == created + 1
    <3>3. /\ more \in Seq(Nat) /\ more # <<>> /\ next \in Nat
          /\ Distinct(more, running, next) /\ ProcessQueue(queue, more, running)
      BY <3>1, <3>2
    <3> HIDE DEF more, next
    <3>4. /\ workerPool' \in Seq(Nat) /\ running' \in SUBSET Runs
          /\ IsFiniteSet(running') /\ Distinct(workerPool', running', next)
          /\ Cardinality(running') = Cardinality(running) + 1
      BY <1>t, <2>2, <3>3, Posting
    <3> QED
      BY <1>t, <2>2, <3>1, <3>2, <3>4 DEF next
  <2>4. CASE ~NeedsWorker(queue)
    <3>1. created' = created /\ ProcessQueue(queue, workerPool, running)
      BY <1>1, <2>4 DEF ExecuteHeavyTask, queue, task
    <3>2. workerPool # <<>>
      <4>1. NumThreads \in Nat \ {0}
        BY PoolAssumption
      <4>2. workerPool = <<>> => Len(workerPool) = 0
        OBVIOUS
      <4> QED
        BY <1>t, <2>2, <2>4, <4>1, <4>2 DEF NeedsWorker
    <3>3. /\ workerPool' \in Seq(Nat) /\ running' \in SUBSET Runs
          /\ IsFiniteSet(running') /\ Distinct(workerPool', running', created)
          /\ Cardinality(running') = Cardinality(running) + 1
      BY <1>t, <2>2, <3>1, <3>2, Posting
    <3> QED
      BY <1>t, <2>2, <3>1, <3>3
  <2> QED
    BY <2>3, <2>4
<1>2. ASSUME NEW run \in running, OnMessage(run)
      PROVE  /\ workerPool' \in Seq(Nat) /\ running' \in SUBSET Runs
             /\ taskQueue' \in Seq(Tasks) /\ created' \in Nat
             /\ ThreadsDistinct' /\ RunsCoverQueue'
  <2> DEFINE pool == Append(workerPool, run.thread)
             busy == running \ {run}
  <2>1. /\ pool \in Seq(Nat) /\ pool # <<>>
        /\ Distinct(pool, busy, created)
        /\ busy \in SUBSET Runs /\ IsFiniteSet(busy)
        /\ Cardinality(busy) = Cardinality(running) - 1
    <3>1. run.thread \in Nat /\ run \in Runs
      BY <1>t DEF Runs
    <3>2. pool \in Seq(Nat) /\ pool # <<>>
      BY <1>t, <3>1, AppendFacts
    <3>3. /\ Distinct(pool, busy, created)
          /\ IsFiniteSet(busy) /\ Cardinality(busy) = Cardinality(running) - 1
      BY <1>t, PutBack
    <3>4. busy \in SUBSET Runs
      BY <1>t
    <3> QED
      BY <3>2, <3>3, <3>4
  <2>2. Shift \in Seq(Tasks) /\ Len(Shift) \in Nat
    BY <1>t, TailFacts DEF Shift
  <2>3. IF taskQueue = <<>> THEN Shift = <<>> ELSE Len(Shift) = Len(taskQueue) - 1
    BY <1>t, TailFacts DEF Shift
  <2>4. /\ taskQueue' = Shift /\ created' = created
        /\ ProcessQueue(Shift, pool, busy)
    BY <1>2 DEF OnMessage
  <2> HIDE DEF pool, busy
  <2>5. /\ workerPool' \in Seq(Nat) /\ running' \in SUBSET Runs
        /\ IsFiniteSet(running') /\ Distinct(workerPool', running', created)
        /\ Shift # <<>> => Cardinality(running') = Cardinality(busy) + 1
    BY <1>t, <2>1, <2>2, <2>4, Posting
  <2>6. Len(Shift) <= Cardinality(running')
    <3>1. CASE Shift = <<>>
      <4>1. Len(Shift) = 0 /\ Cardinality(running') \in Nat
        BY <2>5, <3>1, FS_CardinalityType
      <4> QED
        BY <4>1
    <3>2. CASE Shift # <<>>
      <4>1. Cardinality(running') = Cardinality(running)
        BY <1>t, <2>1, <2>5, <3>2
      <4> QED
        BY <1>t, <2>2, <2>3, <3>2, <4>1
    <3> QED
      BY <3>1, <3>2
  <2> QED
    BY <1>t, <2>2, <2>4, <2>5, <2>6
<1>3. ASSUME NEW run \in running, OnError(run)
      PROVE  /\ workerPool' \in Seq(Nat) /\ running' \in SUBSET Runs
             /\ taskQueue' \in Seq(Tasks) /\ created' \in Nat
             /\ ThreadsDistinct' /\ RunsCoverQueue'
  <2>1. /\ IsFiniteSet(running \ {run})
        /\ Cardinality(running \ {run}) = Cardinality(running) - 1
    BY <1>t, FS_RemoveElement
  <2>2. /\ Shift \in Seq(Tasks)
        /\ Len(Shift) = IF taskQueue = <<>> THEN 0 ELSE Len(taskQueue) - 1
    BY <1>t, TailFacts DEF Shift
  <2>3. Cardinality(running \ {run}) \in Nat
    BY <2>1, FS_CardinalityType
  <2>4. /\ taskQueue' = Shift /\ created' = created
        /\ workerPool' = workerPool /\ running' = running \ {run}
    BY <1>3 DEF OnError
  <2>5. ThreadsDistinct'
    BY <2>4 DEF Distinct
  <2>6. Len(Shift) <= Cardinality(running \ {run})
    BY <1>t, <2>1, <2>2, <2>3
  <2> QED
    BY <1>t, <2>1, <2>2, <2>4, <2>5, <2>6
<1>4. CASE ShutdownWorkers
  <2>1. /\ taskQueue' = <<>> /\ workerPool' = <<>> /\ running' = {}
        /\ created' = created
    BY <1>4 DEF ShutdownWorkers
  <2>2. IsFiniteSet({}) /\ Cardinality({}) = 0
    BY FS_EmptySet
  <2> QED
    BY <1>t, <2>1, <2>2 DEF Distinct
<1>5. CASE UNCHANGED vars
  BY <1>5, <1>t DEF vars
<1> QED
  BY <1>1, <1>2, <1>3, <1>4, <1>5 DEF Next

\* The caller of a task, and of the task at the head.
LEMMA CallerOfHead ==
  ASSUME TypeOK, taskQueue # <<>>
  PROVE  /\ Head(taskQueue) = taskQueue[1]
         /\ taskQueue[1] \in Tasks
         /\ taskQueue[1].client \in Clients
<1>1. \A t \in Tasks : t.client \in Clients
  BY DEF Tasks
<1>2. Head(taskQueue) = taskQueue[1] /\ Head(taskQueue) \in Tasks
  BY TailFacts DEF TypeOK
<1> QED
  BY <1>1, <1>2

\* The rest of the variables keep their types.
LEMMA CallerStep ==
  ASSUME TypeOK, [Next]_vars
  PROVE  /\ calls' \in [Clients -> 0..Calls]
         /\ client' \in [Clients -> {"ready", "waiting", "failed"}]
         /\ answer' \in [Clients -> Tasks \cup {Nothing}]
         /\ overlapped' \in BOOLEAN /\ errors' \in Nat /\ stopped' \in BOOLEAN
<1> USE DEF TypeOK
<1>1. ASSUME NEW c \in Clients, ExecuteHeavyTask(c)
      PROVE  /\ calls' \in [Clients -> 0..Calls]
             /\ client' \in [Clients -> {"ready", "waiting", "failed"}]
             /\ answer' = answer /\ errors' = errors /\ stopped' = stopped
             /\ overlapped' \in BOOLEAN
  <2>1. calls[c] + 1 \in 0..Calls
    BY <1>1, PoolAssumption DEF ExecuteHeavyTask
  <2> QED
    BY <1>1, <2>1 DEF ExecuteHeavyTask
<1>2. ASSUME NEW run \in running, NEW resolved \in BOOLEAN, Settle(resolved, run.task)
      PROVE  /\ client' \in [Clients -> {"ready", "waiting", "failed"}]
             /\ answer' \in [Clients -> Tasks \cup {Nothing}]
  <2>1. run.task \in Tasks
    BY DEF Runs
  <2>2. CASE taskQueue = <<>>
    BY <1>2, <2>2 DEF Settle
  <2>3. CASE taskQueue # <<>>
    <3>1. Head(taskQueue).client \in Clients
      BY <2>3, CallerOfHead
    <3> QED
      BY <1>2, <2>1, <2>3, <3>1 DEF Settle
  <2> QED
    BY <2>2, <2>3
<1>3. ASSUME NEW run \in running, OnMessage(run)
      PROVE  /\ client' \in [Clients -> {"ready", "waiting", "failed"}]
             /\ answer' \in [Clients -> Tasks \cup {Nothing}]
             /\ UNCHANGED <<calls, overlapped, errors, stopped>>
  BY <1>2, <1>3 DEF OnMessage, Succeeds
<1>4. ASSUME NEW run \in running, OnError(run)
      PROVE  /\ client' \in [Clients -> {"ready", "waiting", "failed"}]
             /\ answer' \in [Clients -> Tasks \cup {Nothing}]
             /\ errors' \in Nat /\ UNCHANGED <<calls, overlapped, stopped>>
  <2>1. /\ Settle(FALSE, run.task) /\ errors' = errors + 1
        /\ UNCHANGED <<calls, overlapped, stopped>>
    BY <1>4 DEF OnError
  <2>2. FALSE \in BOOLEAN
    OBVIOUS
  <2>3. /\ client' \in [Clients -> {"ready", "waiting", "failed"}]
        /\ answer' \in [Clients -> Tasks \cup {Nothing}]
    BY <1>2, <2>1, <2>2, Zenon
  <2> QED
    BY <2>1, <2>3
<1>5. CASE ShutdownWorkers
  BY <1>5 DEF ShutdownWorkers
<1>6. CASE UNCHANGED vars
  BY <1>6 DEF vars
<1> QED
  BY <1>1, <1>3, <1>4, <1>5, <1>6 DEF Next

\* Taking the head off the queue and settling its promise keeps callers and
\* queue in agreement.
LEMMA SettleStep ==
  ASSUME TypeOK, ~stopped, QueueHoldsWaiting, NEW resolved \in BOOLEAN, NEW result,
         Settle(resolved, result), taskQueue' = Shift, calls' = calls
  PROVE  QueueHoldsWaiting'
<1>1. CASE taskQueue = <<>>
  <2>1. taskQueue' = taskQueue /\ client' = client
    BY <1>1 DEF Settle, Shift
  <2> QED
    BY <2>1 DEF QueueHoldsWaiting, Waiting
<1>2. CASE taskQueue # <<>>
  <2> DEFINE c == taskQueue[1].client
             rest == Tail(taskQueue)
  <2>1. /\ Len(rest) = Len(taskQueue) - 1
        /\ \A i \in 1..Len(rest) : rest[i] = taskQueue[i + 1]
        /\ Head(taskQueue) = taskQueue[1]
        /\ Len(taskQueue) \in Nat \ {0} /\ Len(rest) \in Nat
        /\ taskQueue' = rest
        /\ rest \in Seq(Tasks)
    BY <1>2, TailFacts DEF TypeOK, Shift
  <2>2. /\ \A i \in 1..Len(rest) : i + 1 \in 1..Len(taskQueue) /\ i + 1 # 1
        /\ 1 \in 1..Len(taskQueue)
        /\ \A i \in 1..Len(taskQueue) : i # 1 => i - 1 \in 1..Len(rest) /\ i - 1 + 1 = i
    BY <2>1
  <2>3. c \in Clients
    BY <1>2, CallerOfHead
  <2>4. client' = [client EXCEPT ![c] = IF resolved THEN "ready" ELSE "failed"]
    BY <1>2, <2>1 DEF Settle
  <2> HIDE DEF rest
  <2>5. Waiting' = Waiting \ {c}
    BY <2>3, <2>4 DEF Waiting, TypeOK
  <2>6. \A i \in 1..Len(rest) :
          /\ rest[i].client \in Waiting \ {c}
          /\ rest[i].call = calls[rest[i].client]
    BY <2>1, <2>2 DEF QueueHoldsWaiting
  <2>7. \A i, j \in 1..Len(rest) : rest[i].client = rest[j].client => i = j
    BY <2>1, <2>2 DEF QueueHoldsWaiting
  <2>8. ASSUME NEW d \in Waiting \ {c}
        PROVE  \E i \in 1..Len(rest) : rest[i] = [client |-> d, call |-> calls[d]]
    <3>1. PICK i \in 1..Len(taskQueue) : taskQueue[i] = [client |-> d, call |-> calls[d]]
      BY DEF QueueHoldsWaiting
    <3>2. taskQueue[i].client = d /\ d # c
      BY <3>1
    <3>3. i # 1
      BY <3>2
    <3>4. i - 1 \in 1..Len(rest) /\ i - 1 + 1 = i
      BY <2>2, <3>3
    <3>5. rest[i - 1] = taskQueue[i]
      BY <2>1, <3>4
    <3> QED
      BY <3>1, <3>4, <3>5
  <2> QED
    BY <2>1, <2>5, <2>6, <2>7, <2>8 DEF QueueHoldsWaiting
<1> QED
  BY <1>1, <1>2

\* Callers and queue agree after every step.
LEMMA QueueStep ==
  ASSUME TypeOK, QueueHoldsWaiting, [Next]_vars
  PROVE  QueueHoldsWaiting'
<1>1. ASSUME NEW c \in Clients, ExecuteHeavyTask(c)
      PROVE  QueueHoldsWaiting'
  <2> DEFINE task == [client |-> c, call |-> calls[c] + 1]
             queue == Append(taskQueue, task)
  <2>1. task \in Tasks
    BY <1>1, NextTask DEF ExecuteHeavyTask
  <2>2. /\ Len(queue) = Len(taskQueue) + 1
        /\ \A i \in 1..Len(taskQueue) : queue[i] = taskQueue[i]
        /\ queue[Len(taskQueue) + 1] = task
        /\ Len(taskQueue) \in Nat
    BY <2>1, AppendFacts DEF TypeOK
  <2>3. /\ taskQueue' = queue /\ ~stopped /\ client[c] = "ready"
        /\ calls' = [calls EXCEPT ![c] = @ + 1]
        /\ client' = [client EXCEPT ![c] = "waiting"]
    BY <1>1 DEF ExecuteHeavyTask
  <2>4. task.client = c /\ task.call = calls[c] + 1 /\ task = [client |-> c, call |-> calls'[c]]
    BY <2>3 DEF TypeOK
  <2> HIDE DEF task, queue
  <2>5. /\ Waiting' = Waiting \cup {c} /\ c \notin Waiting
        /\ \A d \in Waiting : calls'[d] = calls[d]
        /\ calls'[c] = calls[c] + 1
    BY <2>3 DEF Waiting, TypeOK
  <2>6. \A i \in 1..Len(queue) : i \in 1..Len(taskQueue) \/ i = Len(taskQueue) + 1
    BY <2>2
  <2>7. \A i \in 1..Len(taskQueue) :
          /\ i \in 1..Len(queue)
          /\ taskQueue[i].client \in Waiting
          /\ taskQueue[i].call = calls[taskQueue[i].client]
    BY <2>2, <2>3 DEF QueueHoldsWaiting
  <2>8. \A i \in 1..Len(queue) :
          /\ queue[i].client \in Waiting \cup {c}
          /\ queue[i].call = calls'[queue[i].client]
    BY <2>2, <2>4, <2>5, <2>6, <2>7
  <2>9. \A i, j \in 1..Len(queue) : queue[i].client = queue[j].client => i = j
    BY <2>2, <2>3, <2>4, <2>5, <2>6, <2>7 DEF QueueHoldsWaiting
  <2>10. ASSUME NEW d \in Waiting \cup {c}
         PROVE  \E i \in 1..Len(queue) : queue[i] = [client |-> d, call |-> calls'[d]]
    <3>1. CASE d = c
      <4>1. Len(taskQueue) + 1 \in 1..Len(queue)
        BY <2>2
      <4> QED
        BY <2>2, <2>4, <3>1, <4>1
    <3>2. CASE d \in Waiting
      BY <2>2, <2>3, <2>5, <2>7, <3>2 DEF QueueHoldsWaiting
    <3> QED
      BY <3>1, <3>2
  <2> QED
    BY <2>3, <2>5, <2>8, <2>9, <2>10 DEF QueueHoldsWaiting
<1>2. ASSUME NEW run \in running, OnMessage(run)
      PROVE  QueueHoldsWaiting'
  BY <1>2, SettleStep DEF OnMessage, Succeeds
<1>3. ASSUME NEW run \in running, OnError(run)
      PROVE  QueueHoldsWaiting'
  BY <1>3, SettleStep DEF OnError
<1>4. CASE ShutdownWorkers
  BY <1>4 DEF ShutdownWorkers, QueueHoldsWaiting
<1>5. CASE UNCHANGED vars
  BY <1>5 DEF vars, QueueHoldsWaiting, Waiting
<1> QED
  BY <1>1, <1>2, <1>3, <1>4, <1>5 DEF Next

-----------------------------------------------------------------------------
(* Callers that take turns *)

SerialInv == SerialUseIsSound /\ SerialQueue

\* While the callers take turns, the head of the queue is the task of the one
\* thread at work, and callers get their own results.
LEMMA SerialStep ==
  ASSUME PoolInvariant, SerialInv, [Next]_vars
  PROVE  SerialInv'
<1> USE DEF SerialInv, SerialUseIsSound, SerialQueue
<1>t. /\ taskQueue \in Seq(Tasks) /\ workerPool \in Seq(Nat)
      /\ running \in SUBSET Runs /\ IsFiniteSet(running)
      /\ Cardinality(running) \in Nat /\ Len(taskQueue) \in Nat
      /\ Len(workerPool) \in Nat
      /\ TypeOK
  BY FS_CardinalityType DEF PoolInvariant, TypeOK, RunsCoverQueue
<1> DEFINE
  Goal == /\ Len(taskQueue') <= 1
          /\ \A run \in running' : taskQueue' = <<run.task>>
          /\ Len(workerPool') + Cardinality(running') <= 1
          /\ \A d \in Clients : client'[d] = "ready" /\ calls'[d] > 0 =>
               answer'[d] = [client |-> d, call |-> calls'[d]]
<1>z. IsFiniteSet({}) /\ Cardinality({}) = 0
  BY FS_EmptySet
<1>1. ASSUME NEW c \in Clients, ExecuteHeavyTask(c), ~overlapped'
      PROVE  Goal
  <2> DEFINE task == [client |-> c, call |-> calls[c] + 1]
             queue == Append(taskQueue, task)
  <2>1. task \in Tasks
    BY <1>1, <1>t, NextTask DEF ExecuteHeavyTask
  <2>2. /\ queue \in Seq(Tasks) /\ queue # <<>> /\ taskQueue' = queue
        /\ Len(queue) = Len(taskQueue) + 1
    BY <1>1, <1>t, <2>1, AppendFacts DEF ExecuteHeavyTask
  <2>o. ~overlapped /\ Len(queue) <= 1
    <3>1. overlapped' = (overlapped \/ Len(queue) > 1)
      BY <1>1 DEF ExecuteHeavyTask
    <3> HIDE DEF queue
    <3>2. ~overlapped /\ ~(Len(queue) > 1)
      BY <1>1, <3>1, Zenon
    <3> QED
      BY <1>t, <2>2, <3>2
  <2>3. taskQueue = <<>> /\ queue = <<task>> /\ Len(queue) = 1 /\ Head(queue) = task
    <3>1. Len(taskQueue) = 0
      BY <1>t, <2>2, <2>o
    <3>2. taskQueue = <<>>
      BY <1>t, <3>1
    <3> QED
      BY <2>1, <3>2
  <2>4. running = {} /\ Len(workerPool) <= 1 /\ Cardinality(running) = 0
    <3>1. \A run \in running : <<>> = <<run.task>>
      BY <2>o, <2>3
    <3>2. running = {}
      BY <3>1
    <3> QED
      BY <1>t, <1>z, <2>o, <3>2
  <2>5. /\ calls' = [calls EXCEPT ![c] = @ + 1]
        /\ client' = [client EXCEPT ![c] = "waiting"] /\ answer' = answer
    BY <1>1 DEF ExecuteHeavyTask
  <2> HIDE DEF task, queue
  <2>6. ASSUME NEW pool \in Seq(Nat), Len(pool) = 1, NEW last \in Nat,
               Distinct(pool, running, last), ProcessQueue(queue, pool, running)
        PROVE  /\ Len(workerPool') + Cardinality(running') <= 1
               /\ \A run \in running' : run.task = task
    <3>1. pool # <<>>
      BY <2>6
    <3>2. /\ Cardinality(running') = Cardinality(running) + 1
          /\ Len(workerPool') = Len(pool) - 1
          /\ running' = running \cup {[thread |-> Last(pool), task |-> Head(queue)]}
      BY <1>t, <2>2, <2>6, <3>1, Posting
    <3> QED
      BY <2>3, <2>4, <2>6, <3>2
  <2>7. created \in Nat /\ Distinct(workerPool, running, created)
    BY DEF PoolInvariant, TypeOK, ThreadsDistinct
  <2>8. /\ Len(workerPool') + Cardinality(running') <= 1
        /\ \A run \in running' : run.task = task
    <3>1. CASE Len(workerPool) = 0
      <4>1. NumThreads \in Nat \ {0}
        BY PoolAssumption
      <4>2. NeedsWorker(queue)
        BY <2>3, <3>1, <4>1 DEF NeedsWorker
      <4>3. ProcessQueue(queue, Append(workerPool, created + 1), running)
        BY <1>1, <4>2 DEF ExecuteHeavyTask, queue, task
      <4> DEFINE pool == Append(workerPool, created + 1)
                 last == created + 1
      <4>4. last \in Nat /\ pool \in Seq(Nat) /\ Len(pool) = 1
        BY <1>t, <2>7, <3>1, AppendFacts
      <4>5. Distinct(pool, running, last)
        BY <1>t, <2>7, NewThread
      <4>6. ProcessQueue(queue, pool, running)
        BY <4>3
      <4> HIDE DEF pool, last
      <4> QED
        BY <2>6, <4>4, <4>5, <4>6
    <3>2. CASE Len(workerPool) = 1
      <4>1. ~NeedsWorker(queue)
        BY <2>3, <3>2 DEF NeedsWorker
      <4>2. ProcessQueue(queue, workerPool, running)
        BY <1>1, <4>1 DEF ExecuteHeavyTask, queue, task
      <4> QED
        BY <1>t, <2>6, <2>7, <3>2, <4>2
    <3>3. Len(workerPool) = 0 \/ Len(workerPool) = 1
      <4>1. Len(workerPool) \in Nat /\ Len(workerPool) <= 1
        BY <1>t, <2>4
      <4>2. \A n \in Nat : n <= 1 => n = 0 \/ n = 1
        OBVIOUS
      <4> QED
        BY <4>1, <4>2
    <3> QED
      BY <3>1, <3>2, <3>3
  <2>9. \A d \in Clients : client'[d] = "ready" /\ calls'[d] > 0 =>
          answer'[d] = [client |-> d, call |-> calls'[d]]
    BY <1>t, <2>o, <2>5 DEF TypeOK
  <2> QED
    BY <2>2, <2>3, <2>8, <2>9
<1>2. ASSUME NEW run \in running, OnMessage(run), ~overlapped'
      PROVE  Goal
  <2>1. ~overlapped /\ ~stopped /\ UNCHANGED calls
    BY <1>2 DEF OnMessage
  <2>2. taskQueue = <<run.task>> /\ Len(workerPool) + Cardinality(running) <= 1
    BY <2>1
  <2>3. Shift = <<>>
    BY <2>2 DEF Shift
  <2>4. running \ {run} = {} /\ Len(workerPool) = 0
    <3>1. Cardinality(running \ {run}) = Cardinality(running) - 1 /\ IsFiniteSet(running \ {run})
      BY <1>t, FS_RemoveElement
    <3>2. Cardinality(running \ {run}) \in Nat
      BY <3>1, FS_CardinalityType
    <3>3. Cardinality(running \ {run}) = 0 /\ Len(workerPool) = 0
      BY <1>t, <2>2, <3>1, <3>2
    <3> QED
      BY <3>1, <3>3, FS_EmptySet
  <2>5. workerPool' = Append(workerPool, run.thread) /\ running' = {} /\ taskQueue' = <<>>
    BY <1>2, <2>3, <2>4 DEF OnMessage, ProcessQueue
  <2>6. Len(workerPool') = 1
    <3>1. run.thread \in Nat
      BY <1>t DEF Runs
    <3> QED
      BY <1>t, <2>4, <2>5, <3>1, AppendFacts
  <2>7. \A d \in Clients : client'[d] = "ready" /\ calls'[d] > 0 =>
          answer'[d] = [client |-> d, call |-> calls'[d]]
    <3> DEFINE c == run.task.client
    <3>1. run.task \in Tasks
      BY <1>t DEF Runs
    <3>2. /\ c \in Clients /\ run.task = [client |-> c, call |-> run.task.call]
          /\ Head(taskQueue) = run.task /\ taskQueue[1] = run.task
          /\ taskQueue # <<>> /\ 1 \in 1..Len(taskQueue)
      BY <2>2, <3>1 DEF Tasks
    <3>3. run.task.call = calls[c]
      BY <2>1, <3>2 DEF PoolInvariant, QueueHoldsWaiting
    <3>4. Settle(Succeeds(run.task), run.task)
      BY <1>2 DEF OnMessage
    <3>5. /\ client' = [client EXCEPT ![c] = IF Succeeds(run.task) THEN "ready" ELSE "failed"]
          /\ answer' = IF Succeeds(run.task)
                       THEN [answer EXCEPT ![c] = run.task] ELSE answer
      BY <3>2, <3>4 DEF Settle
    <3>6. run.task = [client |-> c, call |-> calls[c]]
      BY <3>2, <3>3
    <3> HIDE DEF c
    <3>7. c \in Clients
      BY <3>2
    <3>8. ASSUME NEW d \in Clients, client'[d] = "ready", calls'[d] > 0
          PROVE  answer'[d] = [client |-> d, call |-> calls'[d]]
      <4>1. CASE d = c
        BY <1>t, <2>1, <3>5, <3>6, <3>7, <3>8, <4>1 DEF TypeOK
      <4>2. CASE d # c
        BY <1>t, <2>1, <3>5, <3>7, <3>8, <4>2 DEF TypeOK
      <4> QED
        BY <4>1, <4>2
    <3> QED
      BY <3>8
  <2> QED
    BY <1>z, <2>5, <2>6, <2>7
<1>3. ASSUME NEW run \in running, OnError(run), ~overlapped'
      PROVE  Goal
  <2>1. /\ ~overlapped /\ UNCHANGED <<calls, workerPool>>
        /\ running' = running \ {run} /\ taskQueue' = Shift /\ Settle(FALSE, run.task)
    BY <1>3 DEF OnError
  <2>2. taskQueue = <<run.task>> /\ Len(workerPool) + Cardinality(running) <= 1
    BY <2>1
  <2>3. Shift = <<>> /\ taskQueue # <<>>
    BY <2>2 DEF Shift
  <2>4. running \ {run} = {}
    <3>1. Cardinality(running \ {run}) = Cardinality(running) - 1 /\ IsFiniteSet(running \ {run})
      BY <1>t, FS_RemoveElement
    <3>2. Cardinality(running \ {run}) \in Nat
      BY <3>1, FS_CardinalityType
    <3>3. Cardinality(running \ {run}) = 0
      BY <1>t, <2>2, <3>1, <3>2
    <3> QED
      BY <3>1, <3>3, FS_EmptySet
  <2>5. /\ client' = [client EXCEPT ![Head(taskQueue).client] = "failed"]
        /\ answer' = answer
    BY <2>1, <2>3 DEF Settle
  <2>6. \A d \in Clients : client'[d] = "ready" => client[d] = "ready"
    BY <1>t, <2>5 DEF TypeOK
  <2>7. Len(workerPool') + Cardinality(running') <= 1
    <3>1. Len(workerPool) <= 1
      BY <1>t, <2>2
    <3>2. workerPool' = workerPool /\ Cardinality(running') = 0
      BY <1>z, <2>1, <2>4
    <3> QED
      BY <1>t, <3>1, <3>2
  <2>8. \A d \in Clients : client'[d] = "ready" /\ calls'[d] > 0 =>
          answer'[d] = [client |-> d, call |-> calls'[d]]
    BY <2>1, <2>5, <2>6
  <2> QED
    BY <2>1, <2>3, <2>4, <2>7, <2>8
<1>4. ASSUME ShutdownWorkers, ~overlapped'
      PROVE  Goal
  BY <1>4, <1>z DEF ShutdownWorkers
<1>5. ASSUME UNCHANGED vars, ~overlapped'
      PROVE  Goal
  BY <1>5 DEF vars
<1>6. ASSUME ~overlapped'
      PROVE  Goal
  <2> HIDE DEF Goal
  <2> QED
    BY <1>1, <1>2, <1>3, <1>4, <1>5, <1>6 DEF Next
<1> QED
  BY <1>6

-----------------------------------------------------------------------------
\* The pool starts empty, which satisfies both invariants.
LEMMA PoolInit ==
  ASSUME Init
  PROVE  PoolInvariant /\ SerialInv
<1>1. IsFiniteSet({}) /\ Cardinality({}) = 0
  BY FS_EmptySet
<1>2. Calls \in Nat
  BY PoolAssumption
<1>3. Len(<<>>) = 0
  OBVIOUS
<1>4. TypeOK
  <2>1. <<>> \in Seq(Tasks) /\ <<>> \in Seq(Nat) /\ 0 \in 0..Calls
    BY <1>2
  <2>2. FALSE \in BOOLEAN /\ 0 \in Nat
    OBVIOUS
  <2> QED
    BY <2>1, <2>2 DEF Init, TypeOK
<1>5. QueueHoldsWaiting
  BY <1>3 DEF Init, QueueHoldsWaiting, Waiting
<1>6. ThreadsDistinct /\ RunsCoverQueue
  BY <1>1, <1>3 DEF Init, ThreadsDistinct, Distinct, RunsCoverQueue
<1>7. SerialInv
  BY <1>1, <1>3 DEF Init, SerialInv, SerialUseIsSound, SerialQueue
<1> QED
  BY <1>4, <1>5, <1>6, <1>7 DEF PoolInvariant

\* Every step keeps the pool's invariant.
LEMMA PoolStep ==
  ASSUME PoolInvariant, [Next]_vars
  PROVE  PoolInvariant'
BY ThreadStep, CallerStep, QueueStep DEF PoolInvariant, TypeOK

\* The pool's invariant: every caller that waits has its one task in the
\* queue, threads are not shared, and there is a thread at work for every
\* task in the queue, whatever threads have died (executeHeavyTask,
\* processQueue and the handlers in createWorker).
THEOREM PoolInvariantHolds == Spec => []PoolInvariant
<1>1. Init => PoolInvariant
  BY PoolInit
<1>2. PoolInvariant /\ [Next]_vars => PoolInvariant'
  BY PoolStep
<1> QED
  BY <1>1, <1>2, PTL DEF Spec

\* Callers that take turns get the results of their own tasks, all of them
\* computed by one thread.
THEOREM TakingTurnsIsSound == Spec => []SerialUseIsSound
<1>1. Init => SerialInv
  BY PoolInit
<1>2. PoolInvariant /\ SerialInv /\ [Next]_vars => SerialInv'
  BY SerialStep
<1>3. SerialInv => SerialUseIsSound
  BY DEF SerialInv
<1> QED
  BY <1>1, <1>2, <1>3, PoolInvariantHolds, PTL DEF Spec

-----------------------------------------------------------------------------
(* What the callers see *)

\* Threads work only on tasks that have been handed over.
RunsHandedOver == \A run \in running : run.task \in Promises!HandedOver

\* The task at the head belongs to a caller that waits, and is its last one.
LEMMA HeadOfQueue ==
  ASSUME TypeOK, QueueHoldsWaiting, ~stopped, taskQueue # <<>>
  PROVE  /\ Head(taskQueue).client \in Waiting
         /\ Head(taskQueue) = [client |-> Head(taskQueue).client,
                               call |-> calls[Head(taskQueue).client]]
         /\ Head(taskQueue) \in Tasks
<1>1. /\ Head(taskQueue) = taskQueue[1]
      /\ taskQueue[1] \in Tasks
      /\ 1 \in 1..Len(taskQueue)
  BY TailFacts DEF TypeOK
<1>2. /\ taskQueue[1].client \in Waiting
      /\ taskQueue[1].call = calls[taskQueue[1].client]
  BY <1>1 DEF QueueHoldsWaiting
<1>3. \A t \in Tasks : t = [client |-> t.client, call |-> t.call]
  BY DEF Tasks
<1> QED
  BY <1>1, <1>2, <1>3

\* A thread is posted the task at the head, which its caller has handed over.
LEMMA HandedOverStep ==
  ASSUME PoolInvariant, PoolInvariant', RunsHandedOver, [Next]_vars
  PROVE  RunsHandedOver'
<1> USE DEF PoolInvariant
<1>1. ASSUME NEW t \in Promises!HandedOver PROVE t \in (Promises!HandedOver)'
  <2>1. \A c \in Clients : calls[c] \in Nat /\ calls'[c] \in Nat /\ calls'[c] >= calls[c]
    <3>1. calls' = calls \/ \E c \in Clients : calls' = [calls EXCEPT ![c] = @ + 1]
      BY DEF Next, vars, ExecuteHeavyTask, OnMessage, OnError, ShutdownWorkers
    <3>2. \A c \in Clients : calls[c] \in Nat /\ calls'[c] \in Nat
      BY PoolAssumption DEF TypeOK
    <3>3. CASE calls' = calls
      BY <3>2, <3>3
    <3>4. ASSUME NEW d \in Clients, calls' = [calls EXCEPT ![d] = @ + 1]
          PROVE  \A c \in Clients : calls'[c] = calls[c] \/ calls'[c] = calls[c] + 1
      BY <3>4 DEF TypeOK
    <3> QED
      BY <3>1, <3>2, <3>3, <3>4
  <2>2. PICK c \in Clients : t \in [client : {c}, call : 1..calls[c]]
    BY DEF Promises!HandedOver
  <2>3. t \in [client : {c}, call : 1..calls'[c]]
    BY <2>1, <2>2
  <2> QED
    BY <2>3 DEF Promises!HandedOver
<1>2. ASSUME ~stopped', taskQueue' # <<>>
      PROVE  Head(taskQueue') \in (Promises!HandedOver)'
  <2>1. /\ Head(taskQueue') = taskQueue'[1]
        /\ taskQueue'[1] \in Tasks
        /\ 1 \in 1..Len(taskQueue')
    BY <1>2, TailFacts DEF TypeOK
  <2>2. /\ taskQueue'[1].client \in Clients
        /\ taskQueue'[1].call = calls'[taskQueue'[1].client]
    BY <1>2, <2>1 DEF QueueHoldsWaiting, Waiting
  <2>3. taskQueue'[1] \in [client : {taskQueue'[1].client}, call : 1..calls'[taskQueue'[1].client]]
    BY <2>1, <2>2 DEF Tasks
  <2> QED
    BY <2>1, <2>2, <2>3 DEF Promises!HandedOver
<1>3. ASSUME NEW pool, NEW busy \in SUBSET running,
             ProcessQueue(taskQueue', pool, busy), ~stopped'
      PROVE  RunsHandedOver'
  BY <1>1, <1>2, <1>3 DEF ProcessQueue, RunsHandedOver
<1>4. ASSUME NEW c \in Clients, ExecuteHeavyTask(c)
      PROVE  RunsHandedOver'
  <2>1. taskQueue' = Append(taskQueue, [client |-> c, call |-> calls[c] + 1]) /\ ~stopped'
    BY <1>4 DEF ExecuteHeavyTask
  <2> QED
    BY <1>3, <1>4, <2>1 DEF ExecuteHeavyTask
<1>5. ASSUME NEW run \in running, OnMessage(run)
      PROVE  RunsHandedOver'
  BY <1>3, <1>5 DEF OnMessage
<1>6. ASSUME NEW run \in running, OnError(run)
      PROVE  RunsHandedOver'
  BY <1>1, <1>6 DEF OnError, RunsHandedOver
<1>7. CASE ShutdownWorkers
  BY <1>7 DEF ShutdownWorkers, RunsHandedOver
<1>8. CASE UNCHANGED vars
  BY <1>1, <1>8 DEF vars, RunsHandedOver
<1> QED
  BY <1>4, <1>5, <1>6, <1>7, <1>8 DEF Next

\* Handing a task over overlaps if the queue was not empty, which is if
\* another caller waits.
LEMMA HandOverIsPromised ==
  ASSUME PoolInvariant, NEW c \in Clients, ExecuteHeavyTask(c)
  PROVE  Promises!HandOver(c)
<1> DEFINE task == [client |-> c, call |-> calls[c] + 1]
<1>1. task \in Tasks
  BY NextTask DEF PoolInvariant, ExecuteHeavyTask
<1> HIDE DEF task
<1>2. Len(Append(taskQueue, task)) = Len(taskQueue) + 1 /\ Len(taskQueue) \in Nat
  BY <1>1, AppendFacts DEF PoolInvariant, TypeOK
<1>3. Len(Append(taskQueue, task)) > 1 <=> \E d \in Clients : client[d] = "waiting"
  <2>1. ASSUME Len(taskQueue) > 0 PROVE \E d \in Clients : client[d] = "waiting"
    <3>1. 1 \in 1..Len(taskQueue)
      BY <1>2, <2>1
    <3> QED
      BY <3>1 DEF PoolInvariant, QueueHoldsWaiting, Waiting, ExecuteHeavyTask
  <2>2. ASSUME NEW d \in Clients, client[d] = "waiting" PROVE Len(taskQueue) > 0
    <3>1. \E i \in 1..Len(taskQueue) : taskQueue[i] = [client |-> d, call |-> calls[d]]
      BY <2>2 DEF PoolInvariant, QueueHoldsWaiting, Waiting, ExecuteHeavyTask
    <3> QED
      BY <1>2, <3>1
  <2> QED
    BY <1>2, <2>1, <2>2
<1> QED
  BY <1>3 DEF ExecuteHeavyTask, Promises!HandOver, task

\* An answer settles nothing, or the promise of the caller at the head: by the
\* outcome of a task that was handed over, its own if the calls took turns.
LEMMA AnswerIsPromised ==
  ASSUME PoolInvariant, SerialInv, RunsHandedOver, NEW run \in running, OnMessage(run)
  PROVE  \/ \E c \in Clients : Promises!Resolve(c) \/ Promises!Reject(c)
         \/ UNCHANGED Promises!promiseVars
<1>1. CASE taskQueue = <<>>
  BY <1>1 DEF OnMessage, Settle, Promises!promiseVars
<1>2. CASE taskQueue # <<>>
  <2> DEFINE c == Head(taskQueue).client
  <2>1. /\ c \in Clients
        /\ client[c] = "waiting"
        /\ Head(taskQueue) = [client |-> c, call |-> calls[c]]
    BY <1>2, HeadOfQueue DEF PoolInvariant, OnMessage, Waiting
  <2>2. ~overlapped => run.task = Head(taskQueue)
    BY <1>2 DEF SerialInv, SerialQueue
  <2>3. run.task \in Promises!Outcomes(c)
    BY <2>1, <2>2 DEF RunsHandedOver, Promises!Outcomes
  <2>4. UNCHANGED <<calls, overlapped, errors, stopped>>
    BY DEF OnMessage
  <2>5. CASE run.task \in Rejected
    <3>1. client' = [client EXCEPT ![c] = "failed"] /\ answer' = answer
      BY <1>2, <2>5 DEF OnMessage, Settle, Succeeds
    <3> QED
      BY <2>1, <2>3, <2>4, <2>5, <3>1 DEF Promises!Reject
  <2>6. CASE run.task \notin Rejected
    <3>1. client' = [client EXCEPT ![c] = "ready"]
          /\ answer' = [answer EXCEPT ![c] = run.task]
      BY <1>2, <2>6 DEF OnMessage, Settle, Succeeds
    <3> QED
      BY <2>1, <2>3, <2>4, <2>6, <3>1 DEF Promises!Resolve
  <2> QED
    BY <2>5, <2>6
<1> QED
  BY <1>1, <1>2

\* A thread that dies rejects the promise at the head, if there is one.
LEMMA DeathIsPromised ==
  ASSUME PoolInvariant, NEW run \in running, OnError(run)
  PROVE  Promises!ThreadDies
<1>1. CASE taskQueue = <<>>
  BY <1>1 DEF OnError, Settle, Promises!ThreadDies
<1>2. CASE taskQueue # <<>>
  <2> DEFINE c == Head(taskQueue).client
  <2>1. c \in Clients /\ client[c] = "waiting"
    BY <1>2, HeadOfQueue DEF PoolInvariant, OnError, Waiting
  <2>2. client' = [client EXCEPT ![c] = "failed"] /\ answer' = answer
    BY <1>2 DEF OnError, Settle
  <2> QED
    BY <2>1, <2>2 DEF OnError, Promises!ThreadDies
<1> QED
  BY <1>1, <1>2

\* The pool with its queue and its threads implements the promises: every step
\* of it is one the callers may see, or one they do not see.
THEOREM PoolImplementsPromises == Spec => ImplementsPromises
<1>1. Init => Promises!Init /\ RunsHandedOver
  BY DEF Init, Promises!Init, RunsHandedOver
<1>2. ASSUME PoolInvariant, SerialInv, RunsHandedOver, [Next]_vars
      PROVE  [Promises!Next]_(Promises!promiseVars)
  <2>1. ASSUME NEW c \in Clients, ExecuteHeavyTask(c)
        PROVE  Promises!Next
    BY <1>2, <2>1, HandOverIsPromised DEF ExecuteHeavyTask, Promises!Next
  <2>2. ASSUME NEW run \in running, OnMessage(run)
        PROVE  [Promises!Next]_(Promises!promiseVars)
    BY <1>2, <2>2, AnswerIsPromised DEF OnMessage, Promises!Next
  <2>3. ASSUME NEW run \in running, OnError(run)
        PROVE  Promises!Next
    BY <1>2, <2>3, DeathIsPromised DEF OnError, Promises!Next
  <2>4. CASE ShutdownWorkers
    BY <2>4 DEF ShutdownWorkers, Promises!Next, Promises!Stop
  <2>5. CASE UNCHANGED vars
    BY <2>5 DEF vars, Promises!promiseVars
  <2> QED
    BY <1>2, <2>1, <2>2, <2>3, <2>4, <2>5 DEF Next
<1>3. PoolInvariant /\ PoolInvariant' /\ RunsHandedOver /\ [Next]_vars => RunsHandedOver'
  BY HandedOverStep
<1>4. PoolInvariant /\ SerialInv /\ [Next]_vars => SerialInv'
  BY SerialStep
<1>5. Init => SerialInv
  BY PoolInit
<1> QED
  BY <1>1, <1>2, <1>3, <1>4, <1>5, PoolInvariantHolds, PTL
     DEF Spec, ImplementsPromises, Promises!Spec
=============================================================================
