----------------------------- MODULE WorkerPool -----------------------------
(***************************************************************************)
(* WorkerThreadsInfrastructure, the pool of worker threads of one process. *)
(* Its client, executeHeavyTask of the health check service, awaits one    *)
(* task after the other; several such calls may be under way.              *)
(*                                                                         *)
(* A task stays at the head of the queue while threads compute it, and a   *)
(* message or an error of any thread settles whatever task is then at the  *)
(* head.  A result is represented by the task it was computed from.        *)
(***************************************************************************)
EXTENDS Naturals, Sequences, SequencesExt, FiniteSets

CONSTANTS
  Clients,     \* concurrent callers
  Calls,       \* tasks each caller awaits, one after the other
  NumThreads,  \* appConfig.MAX_WORKERS
  Rejected,    \* tasks whose executor throws
  Nothing,     \* no answer yet
  MaxErrors    \* bound on the threads that die

Tasks == [client : Clients, call : 1..Calls]

ASSUME PoolAssumption ==
  /\ Calls \in Nat
  /\ NumThreads \in Nat \ {0}
  /\ Rejected \subseteq Tasks
  /\ Nothing \notin Tasks
  /\ MaxErrors \in Nat

VARIABLES
  taskQueue,   \* tasks that are not settled, oldest first
  workerPool,  \* idle threads; the last is used first
  running,     \* threads at work, each with the task posted to it
  created,     \* number of threads created, which also names them
  calls,       \* calls[c]: tasks client c has handed over
  client,      \* client[c]: "ready", "waiting" or "failed"
  answer,      \* answer[c]: what the last resolved promise of c came to
  overlapped,  \* history: have two tasks ever been in the queue at once?
  errors,      \* number of threads that have died
  stopped      \* has the process shut its workers down and exited?

vars == <<taskQueue, workerPool, running, created, calls, client, answer,
          overlapped, errors, stopped>>

Runs == [thread : Nat, task : Tasks]

TypeOK ==
  /\ taskQueue \in Seq(Tasks)
  /\ workerPool \in Seq(Nat)
  /\ running \in SUBSET Runs
  /\ created \in Nat
  /\ calls \in [Clients -> 0..Calls]
  /\ client \in [Clients -> {"ready", "waiting", "failed"}]
  /\ answer \in [Clients -> Tasks \cup {Nothing}]
  /\ overlapped \in BOOLEAN
  /\ errors \in Nat
  /\ stopped \in BOOLEAN

Init ==
  /\ taskQueue = <<>>
  /\ workerPool = <<>>
  /\ running = {}
  /\ created = 0
  /\ calls = [c \in Clients |-> 0]
  /\ client = [c \in Clients |-> "ready"]
  /\ answer = [c \in Clients |-> Nothing]
  /\ overlapped = FALSE
  /\ errors = 0
  /\ stopped = FALSE

-----------------------------------------------------------------------------
\* Mutant: nothing is posted while a thread is at work.
ProcessQueueAlone(queue, pool, busy) ==
  IF queue # <<>> /\ pool # <<>> /\ busy = {}
  THEN /\ workerPool' = Front(pool)
       /\ running' = {[thread |-> Last(pool), task |-> Head(queue)]}
  ELSE workerPool' = pool /\ running' = busy

\* Post the task at the head to the last idle thread; leave it in the queue.
ProcessQueue(queue, pool, busy) ==
  IF queue # <<>> /\ pool # <<>>
  THEN /\ workerPool' = Front(pool)
       /\ running' = busy \cup {[thread |-> Last(pool), task |-> Head(queue)]}
  ELSE workerPool' = pool /\ running' = busy

\* Mutant: a thread is created even when an idle one could take the task.
NeedsWorkerEager(queue) == Len(workerPool) < NumThreads

\* Only idle threads count.
NeedsWorker(queue) ==
  /\ Len(workerPool) < NumThreads
  /\ Len(workerPool) < Len(queue)

ExecuteHeavyTask(c) ==
  LET task  == [client |-> c, call |-> calls[c] + 1]
      queue == Append(taskQueue, task)
  IN /\ ~stopped
     /\ client[c] = "ready"
     /\ calls[c] < Calls
     /\ calls' = [calls EXCEPT ![c] = @ + 1]
     /\ client' = [client EXCEPT ![c] = "waiting"]
     /\ taskQueue' = queue
     /\ overlapped' = (overlapped \/ Len(queue) > 1)
     /\ IF NeedsWorker(queue)
        THEN /\ created' = created + 1
             /\ ProcessQueue(queue, Append(workerPool, created + 1), running)
        ELSE /\ created' = created
             /\ ProcessQueue(queue, workerPool, running)
     /\ UNCHANGED <<answer, errors, stopped>>

\* Mutant: success is not looked at, and every message resolves.
SucceedsAlways(task) == TRUE

\* What the worker thread answers: the executor's result, or its error.
Succeeds(task) == task \notin Rejected

\* taskQueue.shift(), which finds nothing in an empty queue.
Shift == IF taskQueue = <<>> THEN <<>> ELSE Tail(taskQueue)

\* Settle the promise at the head, if there is one.
Settle(resolved, result) ==
  IF taskQueue = <<>>
  THEN UNCHANGED <<client, answer>>
  ELSE LET c == Head(taskQueue).client
       IN /\ client' = [client EXCEPT ![c] = IF resolved THEN "ready" ELSE "failed"]
          /\ answer' = IF resolved THEN [answer EXCEPT ![c] = result] ELSE answer

\* A thread answers: settle the head, put the thread back, go on.
OnMessage(run) ==
  /\ run \in running
  /\ ~stopped
  /\ Settle(Succeeds(run.task), run.task)
  /\ taskQueue' = Shift
  /\ ProcessQueue(Shift, Append(workerPool, run.thread), running \ {run})
  /\ UNCHANGED <<created, calls, overlapped, errors, stopped>>

\* A thread dies: reject the head; the thread is not replaced and the queue
\* is not looked at.
OnError(run) ==
  /\ run \in running
  /\ ~stopped
  /\ errors < MaxErrors
  /\ errors' = errors + 1
  /\ Settle(FALSE, run.task)
  /\ taskQueue' = Shift
  /\ running' = running \ {run}
  /\ UNCHANGED <<workerPool, created, calls, overlapped, stopped>>

\* shutdownWorkers, at the end of GracefulShutdownHelper.shutDown, which then
\* exits: what was queued is never settled.
ShutdownWorkers ==
  /\ ~stopped
  /\ stopped' = TRUE
  /\ workerPool' = <<>>
  /\ taskQueue' = <<>>
  /\ running' = {}
  /\ UNCHANGED <<created, calls, client, answer, overlapped, errors>>

Next ==
  \/ \E c \in Clients : ExecuteHeavyTask(c)
  \/ \E run \in running : OnMessage(run) \/ OnError(run)
  \/ ShutdownWorkers

Spec == Init /\ [][Next]_vars

\* A thread computes its task to the end.
FairSpec == Spec /\ WF_vars(\E run \in running : OnMessage(run))

-----------------------------------------------------------------------------
(* Properties *)

Waiting == {c \in Clients : client[c] = "waiting"}

\* Every caller that waits has its one task in the queue, and no task of
\* anyone else is there: a promise is neither forgotten nor settled twice.
QueueHoldsWaiting ==
  ~stopped =>
    /\ \A c \in Waiting :
         \E i \in 1..Len(taskQueue) : taskQueue[i] = [client |-> c, call |-> calls[c]]
    /\ \A i \in 1..Len(taskQueue) :
         /\ taskQueue[i].client \in Waiting
         /\ taskQueue[i].call = calls[taskQueue[i].client]
    /\ \A i, j \in 1..Len(taskQueue) :
         taskQueue[i].client = taskQueue[j].client => i = j

\* Threads 1..last are each idle or at work, in one place.
Distinct(pool, busy, last) ==
  /\ \A i \in 1..Len(pool) : pool[i] <= last
  /\ \A i, j \in 1..Len(pool) : pool[i] = pool[j] => i = j
  /\ \A run \in busy :
       /\ run.thread <= last
       /\ \A i \in 1..Len(pool) : pool[i] # run.thread
       /\ \A other \in busy : other.thread = run.thread => other = run

ThreadsDistinct == Distinct(workerPool, running, created)

\* There are at least as many threads at work as tasks to settle, so the
\* queue never waits for a thread that is not there: not even after a thread
\* has died, although nothing replaces it and nothing looks at the queue.
RunsCoverQueue ==
  /\ IsFiniteSet(running)
  /\ Len(taskQueue) <= Cardinality(running)

\* The pool's invariant (taskQueue, workerPool, createWorker, processQueue):
\* callers, queue and threads agree, and work is never left without a thread.
PoolInvariant ==
  /\ TypeOK
  /\ QueueHoldsWaiting
  /\ ThreadsDistinct
  /\ RunsCoverQueue

\* As long as no two tasks are handed over at once, the pool is sound: a
\* caller gets the result of its own task, and one thread does all the work
\* (executeHeavyTask, and shift in the handlers of message and error).
SerialUseIsSound ==
  ~overlapped =>
    /\ \A c \in Clients : client[c] = "ready" /\ calls[c] > 0 =>
         answer[c] = [client |-> c, call |-> calls[c]]
    /\ Len(workerPool) + Cardinality(running) <= 1

\* What makes it inductive: the thread at work has the task at the head.
SerialQueue ==
  ~overlapped =>
    /\ Len(taskQueue) <= 1
    /\ \A run \in running : taskQueue = <<run.task>>

\* The callers see no more than TaskPromises allows: one promise is settled at
\* a time and once, by the outcome of a task already handed over, and by that
\* of the caller's own task as long as the calls do not overlap.
Promises == INSTANCE TaskPromises

ImplementsPromises == Promises!Spec

\* Every task handed over is settled, whatever threads die, unless the
\* process exits first.
TasksSettle ==
  \A c \in Clients : client[c] = "waiting" ~> client[c] # "waiting" \/ stopped
=============================================================================
