# Invoices Hub in TLA+

A TLA+ development for the Invoices Hub backend (Express, TypeORM/PostgreSQL,
Redis, RabbitMQ, `node:cluster`, worker threads). It models the parts of the
program where several things happen at once, checks them with TLC on small
instances, and proves the most important properties with TLAPS for every size.

Paths below are relative to the repository.

## 1. The system

| Part | State it keeps | Operations | Interacts with |
|---|---|---|---|
| Order service, `src/application/services/order.service.ts` | rows of `orders` | `createOrder`: save PENDING, save COMPLETED or fail; `get` | publishes through the order subscriber's decorated methods, without awaiting them |
| Event publisher, `src/core/decorators/event-publisher.decorator.ts` | none | publishes what the decorated method returns | RabbitMQ client |
| Subscribers, `src/application/rabbitMQ/*.ts` | rows of `orders` and `invoices`, `isInitialized` | `handleUpdateOrderStatus`, `handleInvoiceGeneration`, `handleOrderFailed` | called by the consumers of the RabbitMQ client |
| RabbitMQ client, `src/infrastructure/rabbitmq` | `connection`, `channel` | `publish`, `subscribe`, `disconnect`, `isConnected` | the broker, which keeps the queues and what is unacknowledged |
| List queries, `queryResults` in `src/application/helpers/utility-functions.helper.ts` | none | one page by offset, and the total | each service's `get`, PostgreSQL |
| List cache, `src/core/decorators/redis*.ts`, `src/infrastructure/redis` | Redis keys, one Redis set per key template | `RedisDecorator` around each service's `get`, `RedisCacheInvalidateDecorator` around `generateInvoice` | Redis, PostgreSQL |
| Worker threads, `src/infrastructure/workers` | `taskQueue`, `workerPool` | `executeHeavyTask`, the handlers of `message` and `error`, `shutdownWorkers` | worker threads by messages |
| Graceful shutdown, `src/application/helpers/graceful-shutdown.helper.ts`, `retry.helper.ts` | none of its own | `shutDown`, on each SIGINT, SIGTERM, SIGUSR2 | HTTP server, RabbitMQ and Redis clients, connection pool, worker threads |
| Start and cluster, `src/index.ts`, `src/application/ioc/bindings.ts`, `src/infrastructure/cluster` | the container, the workers of the primary | `start`, fork, fork again on `exit` | every other part |
| User loader, `src/infrastructure/database/data-loader.infrastructure.ts` | one cache of users per process | `getBy` | authorization of every request |
| Migration, `migrations/*.ts`, run by `yarn mup` and `yarn mdn` | the schema and TypeORM's table of executed migrations | `up`, `down`, each in one transaction | containers that migrate before they start, operators |
| Authentication, rate limit, validation, error middleware, health check, controllers | a request counter per process (rate limit), otherwise none | one request at a time | the parts above |

### What is hard in it

* **Interleaving.** `createOrder` answers while its publications are under way;
  the handlers of its events run in other processes, the cluster primary
  included, which runs `initializeDependencies` too and so consumes the queues.
  Every Redis command and every query is an await between which other calls run.
* **Partial failure.** The completed row and its events are three separate
  writes. A publication that fails is an unhandled rejection, and
  `src/index.ts` exits on those.
* **Delivery.** `consume` acknowledges as soon as the handler reaches its first
  await. A message whose acknowledgement is lost comes again; one that is
  acknowledged and whose process dies is gone. Queues are durable, messages are
  not persistent, nothing reconnects a lost connection.
* **Paging.** Each page of a list is another request, cached on its own; between
  two of them rows come in, leave and are moved, and page and total are read by two
  statements.
* **Ordering.** Lists are invalidated before the insertion they are
  invalidated for; worker-thread answers are matched with tasks by arrival.
* **Shutdown.** Signals may come at any time and more than once; consumers go
  on receiving while the services are taken away.

The hazards, each at its line and with the properties that cover it, are in
`PROJECT.json`.

## 2. Modules

```
OrderLedger          what the pipeline promises about the two tables
   ^ implemented by
OrderFlow            createOrder x broker x subscribers x processes and faults
OrderFlowProofs      theorems about it
ListCache            RedisDecorator x RedisCacheInvalidateDecorator, in any process
ListCacheProofs
PagedList            clients that page through one list x queryResults x cached pages
PagedListProofs
TaskPromises         what callers of the worker threads see
   ^ implemented by
WorkerPool           WorkerThreadsInfrastructure and its callers
WorkerPoolProofs
WorkerLife           what may become of a worker
   ^ implemented by
Shutdown, Bootstrap
Shutdown             a worker process from listen to exit
ShutdownProofs
Bootstrap            primary and workers from start to exit
BootstrapProofs
UserLoader           sign-in, authorization and DataLoader in one worker
UserLoaderProofs
Migration            up and down of the migration, run by several processes
MigrationProofs
MC*                  values of the constants; one .cfg per run
```

### OrderFlow

One step is the code between two awaits, or the moment a remote call takes
effect in the database or at the broker.

| Code | Model |
|---|---|
| `createOrder` | `Receive`, `InsertOrder` (rejected if the decimal(10,2) column overflows), `FailOrder` or `CompleteOrder` and `PublishApproval`; `stage[o]` is the place in the function, `at[o]` the process that runs it |
| `EventPublisherDecorator`, `publish` | `Publish` puts events in the `outbox` of the process; `Send` is `sendToQueue`, in the order in which the channel answers `assertQueue`; `SendFails` is the unhandled rejection on a closed channel |
| `subscribe`, `consume` | `Deliver`: handler up to its first await, then acknowledge; the message stays in `unacked[p]` until `Ack` |
| subscribers | `tasks` are handlers at an await, with the copy of the order row they have fetched (`FindOrder`); `UpdateOrderStatus` saves that copy back, `GenerateInvoice` inserts; `Logged` is the notification subscriber |
| process and broker faults | `Crash`, `CloseChannel` (connection closed in an orderly way: process lives on, `deaf`), `RestartBroker` (messages gone; each connected process ends up down or deaf), `Restart` |

A queue is a set, since competing consumers whose handlers run on after the
acknowledgement give its order no meaning. Amounts are integers in tenths of a
cent, so that the rounding of the column shows. The memory of a process that
dies (calls, outbox, tasks) goes with it (`Die`), a primary takes its workers
along (`Fallen`), and what it had not acknowledged goes back to the queue
(`Requeue`).

`OrderLedger` is the pipeline seen from its tables: place, complete, bill, and
at most one more bill per disturbance than is due. `OrderFlow` implements it
with `status <- orders`, `disturbances <- faults`.

### ListCache

Each command is a step: `Get`, `Query`, `Store` (`setEx`), `Track` (`sAdd`) of a
list call; `SMembers`, `Unlink`, `SaveInvoice` of `generateInvoice`. A list is
represented by its table and the number of writes to it that it has seen, which
is all that staleness needs. `Template` is the table of key templates
(`decorators.config.ts`), in which orders and invoices share one. `Expire` is
the time to live. `AbandonRead` and `AbandonInvoice` cut a call short at any
command. `quiet` and `orphans` are history variables: which handlers have run
without a list call beside them, and which keys were stored by a call cut short
before it could record them. They are never read by a guard.

### PagedList

| Code | Model |
|---|---|
| `queryResults` | `ReadPage` (`take` and `skip`, `Offset`, `Page`), then `Count`, unless `getManyAndCount` derives the total from a page that is not full (`Derived`, as TypeORM 0.3.27 of `yarn.lock` does) |
| `RedisDecorator` | `Get`, `Store`; each page has a key of its own. Which keys expire or are invalidated, and when, is `ListCache`'s question: here `Forget` takes any set of pages |
| first save of `createOrder`, `generateInvoice` | `ComeIn`, at any place: ids are given out before they are committed, and a list may be ordered by another column |
| second save of `createOrder` | it changes `status` and `updatedAt` of a row that is listed (`Update`): the row fails the filter of the list from then on (`Leave`), goes to another place, up or down, in a list that the client has ordered by one of these columns (`Move`), or passes the filter of a list only now (`ComeIn`) |
| the client | `Begin`, `Answered`: it asks for page after page until `total` says that there is none |
| errors | `Fail`, after which the client asks again or gives up |

A response carries the list it was read from (`at`) and whether every row of it was
still there, and not further up, when the total was counted (`grown`); a walk
carries the lists of its first and its last page. These and `steady`, `hit`, `shifted`
are history variables: no guard reads them. `steady` are the walks under which no
row has moved up from one page to the next, whatever the cache has served.
`QueriedWalksAreSteady` says which are: those that query each page while no
listed row is updated. So a row that a walk skips was moved up past the client, and
what lets that happen is a page from the cache, a row that has left the list, or a
row that an update has moved in it; insertions at any place, other clients, failing
calls and the second statement do not. What rows that come in do is to show others
again (`RepeatsBounded`). `NothingSkipped` and `RepeatsBounded` go by the lists
that were read, and hold of steady walks whatever else has happened. The handler
of the status event saves its row back as it found it
(`handleUpdateOrderStatus`), which moves nothing.

The order is taken to be strict. By a column with equal values PostgreSQL may
order the same rows differently from page to page, and rows can be skipped
although nothing changes; the code adds no second column (the unordered mutant
`ReadPageUnordered` shows what happens then). `page` and `limit` have to be
positive, not whole: a page of 1.5 is an offset of 5 and is not modelled.

### WorkerPool

`taskQueue`, `workerPool` and `numThreads` as in the code. `ProcessQueue` posts
the head of the queue to the last idle thread *and leaves it in the queue*;
`OnMessage` settles whatever is at the head. A result is represented by the
task it was computed from. The caller is `executeHeavyTask` of the health check
service, which awaits one task after the other. That method is private and
nothing calls it today, so that what goes wrong with several callers is latent.
`overlapped` is a history variable.

`TaskPromises` is the pool seen from its callers, without queue and threads: a
promise is settled once, by the outcome of a task that somebody has handed over
(`Outcomes`), and by that of the caller's own task as long as no two promises
have been awaited at once; a dead thread rejects one promise at most. What it
leaves open is what the code leaves open: whose task it is once calls overlap,
and whether anything is settled at all (`TasksSettle` says that it is).

### Shutdown

`server`, the requests and their publications, the messages, the clients
(RabbitMQ channel and Redis client, dropped in one step), the pool, and for each
call of `shutDown` its place in the function and its attempt at disconnecting
the database. A signal that finds the server not listening (still starting, or
already closing) does not wait for anything. pg's pool is modelled from its use:
ending waits for the connections in use, a second `destroy` is refused until the
first is done, and a `destroy` that fails leaves an ended pool. `event[r]` stands
for the publications of a request; the two of an approved order share their
fate. An idle keep-alive connection does not hold the server open beyond its
timeout, so that only open requests do.

`MaxFails` queries may fail. Under a request that is answered by the error
middleware (`FailQuery`); under a handler nothing catches it, and the process
exits with 1 (`FailHandler`), a graceful shutdown under way or not, with the
requests that are open. `OneSignalIsGraceful` makes that exception and no other.

The worker is one whose primary lives on: when the channel to the primary
closes, node ends the worker with 0 at once, a graceful shutdown under way or
not. That is a step of `Bootstrap` (`Orphan`).

### Bootstrap

| Code | Model |
|---|---|
| `configureInfrastructure` | `Connect`, `FailToConnect`: `step` is the service a process is connecting to |
| `configureRabbitMQSubscribers` and the three `initialize` | `Subscribe`: `key` is the place in `serviceKeys`, `initialized` the subscribers' flags, `consumers` what the broker has registered |
| `ClusterInfrastructure` | `ForkWorkers` in the primary once it has started, `Restart` is its handler of `exit` |
| end of `start` in a worker | `StartServer`: handlers, then listen |
| `handleProcessSignals` | `Signal(P)`, to any set of processes: a serving worker begins to close, everything else is killed |
| `shutDown` | the step `closing`, `ShutDownEnds` with exit code 0 or 1 (opened up in `Shutdown`) |
| node | `Orphan` |
| outages | `Outage`: without Redis every process connected to it ends, since its client has no handler for errors; without RabbitMQ it ends or goes on with a closed channel; without PostgreSQL only processes that are starting end |

A place in `Workers` stands for a fork and for the forks that replace it. The
module covers one lifetime of the primary: what starts it again (a person, PM2,
nodemon when a file changes) is outside of the repository's code. It also
justifies a step of `OrderFlow`, whose `Restart` connects and subscribes at once:
a process that listens has done all of that, once for each queue.
`stopped` is a history variable.

`GET /healthcheck` is in no model. It reports what `isConnected` of the three
clients says: that RabbitMQ's `connection` and `channel` are set, that the data source
was initialized (neither is cleared when a connection is lost), that the Redis
client is open. A process that goes on after an `Outage` of RabbitMQ or PostgreSQL
therefore calls them healthy; one that would say otherwise of Redis has ended.

### UserLoader

| Code | Model |
|---|---|
| `AuthService.signin` | `SignIn`: a token with the user's role of that moment, which stays valid (an expired one is refused, `Refuse`) |
| `getTokenData`, `generateExpressContext` | `Refuse` without a valid token, otherwise `Receive`, which loads the token's user |
| `authorizationChecker`, `currentUserChecker` | `Authorize`: the loaded user has to exist, the role that counts is the token's; `createOrder` loads its user again, `GET /users/:id` the user asked for, then `Serve` |
| `@Authorized` | `Allowed`: the roles of class and method together |
| `getDataLoader`, `DataLoader` | `Load` joins the `batch` that collects or finds a promise in `cache`, `Dispatch` sends the batch off at the end of the tick, `Find` is its query; an id without a row, or a query that fails (`FindFails`), rejects the whole batch |
| fork after a crash | `Restart`, with an empty loader |

The library `dataloader` is modelled from its use: a rejected promise leaves the
cache, a settled one stays. (It answers a cache hit along with the batch that is
collecting, which delays the answer and does not change it.) A user is
represented by the role of the row, a query reads at the moment it is answered.
`ChangeUser` is somebody with access to the database: no operation of the
program writes users. `held` and `since` are history variables.

### Migration

`Up` and `Down` are the two functions as sequences of what each statement
creates or drops, in the source's order; an object of the schema is a triple of
kind, table and column, and columns without a foreign key are left out. TypeORM's
executor is modelled from its use: `Connect` looks for its own table, which
`CreateJournal` creates outside of any transaction, so that who comes second is
refused (`refused`: the command fails and the container is started again);
`LoadExecuted` decides whether there is something to do; `Execute`, `Refuse` and
`Commit` are one transaction, with `mine[c]` what it has created or dropped.
Statements wait for tables that another transaction has touched (`Locked`).
`Needs`, `Takes` and `Referenced` are PostgreSQL's rules for what a statement
requires, removes and may not remove. Containers are those of the
`docker-compose.yml` that the README asks to uncomment, `yarn mup` before
`yarn test` and `yarn start`, with `restart: always`; a failure of the tests is one of
the ways in which a container that is past its migration dies (`Die`). `crowded` is a history variable: who has
run while another one did.

### WorkerLife

What the primary and an operator see of a worker: it starts, serves, closes and
ends, with 0, with 1 or by a signal, and its place is filled again or not. The
primary decides by the exit code alone, so that the specification is about which
end may follow what: 0 only after a signal to a worker that serves, or without a
primary. `Bootstrap` implements it for all workers at once (a signal or an outage
is one step of many lives), `Shutdown` for the one worker it opens up. So the two
modules agree on what they share: what `Bootstrap` calls `closing` and leaves by
`ShutDownEnds` with 0 or 1 is what `shutDown` does in `Shutdown`, and the
fairness of `ShutDownEnds` in `Bootstrap` is the property `ShutdownEnds` there.

## 3. Runs

Passing runs:

| Run | Question | Instance |
|---|---|---|
| `safety` | Are rows, events, messages, handlers and invoices consistent under any faults, and does the pipeline implement the ledger? | 1 order, 4 amounts (a negative one, one that rounds to zero, a good one, one that overflows), primary and 2 workers, any 2 faults |
| `settle` | Do two orders disturb each other, can a late save undo a completion, does anything get lost without a fault, is every undisturbed order invoiced once or notified, and is what a crash leaves behind worked off? | 2 orders, zero or a positive amount that rounds to zero, primary and 1 worker, 1 crash |
| `lists` | Does the tag set name every cached list, does an undisturbed invalidation work, are lists of different templates kept apart, can a list that is out of date come back, do stale lists go away? | order, invoice and role lists, 2 list calls, 1 invalidation, 1 call cut short |
| `pages` | Which rows can a client that pages through a list miss, and which does it see twice? | 2 clients, 3 rows, pages of 2, 2 pages, 1 update, 1 failing call |
| `pool` | Do callers, queue and threads agree, are callers that take turns served right, does the pool implement `TaskPromises`, is every task settled? | 2 callers x 3 tasks, 2 threads wanted, 1 refused task, 1 dead thread, shutdown |
| `signals` | Do calls of `shutDown` agree with services and requests, is one signal graceful, which losses end a worker, is its life one of `WorkerLife`, does a signalled process exit? | 2 requests, 2 messages, 3 signals, 2 attempts, 2 failing queries |
| `cluster` | Does each process start in order and consume each queue once, who gives up a place in the cluster, are the workers' lives those of `WorkerLife`, does the cluster end up complete or gone? | primary and 2 workers, 3 crashes or outages, 2 signals |
| `users` | Is a user queried once, how old can a loaded user be, who gets beyond authorization, is every request answered? | 2 users, 2 roles, 2 requests, 1 change of a row, 1 failing query or restart |
| `migrations` | Is the schema all there or not at all whoever migrates at once, does each statement of `up` and `down` find what it needs, does every container get to start? | 2 containers, 2 operators, 1 process that dies |

Runs that end in a violation, each a disagreement between the code and what the
repository says of it (`findings` in `PROJECT.json` quotes the line):

| Run | What the trace shows |
|---|---|
| `lost_invoice` | crash after the second save: COMPLETED, never invoiced |
| `wrong_list` | GET /invoices answered with the cached orders |
| `forced` | the shutdown timer never fires |

Other disagreements met while modelling show in the models and have no run of
their own: a list call between the invalidation of the invoice lists and the
insertion they are invalidated for caches a list without the new invoice, until
it expires (`QuietInvalidationWorks` is therefore about handlers that no list call
overlaps); the health check, which "Checks the health status of various services"
and may answer `unhealthy` (`swagger-schemas.helper.ts:129,141-143`), calls a lost
channel and an unreachable database healthy (an `Outage` clears nothing that it looks
at); an amount of 0.004 passes the check of `createOrder`, is rounded to 0.00 by its column, completed and invoiced, although the failure branch calls such an
amount invalid (`Cents`); `down` does not drop the tables "in reverse order of
creation", as its comment has it, and must not: orders were created last, and
invoices refer to them (`DownInReverse` is a mutant of `AloneSucceeds`); no code
sets `CANCELLED` and an order that fails stays PENDING
(`FailOrder`); two callers of the worker threads can get each other's results,
since answers are matched with tasks by arrival (`OnMessage`, which is why
`SerialUseIsSound` is about callers that take turns); the limit on threads counts idle ones only (`NeedsWorker`); an
event that is still waiting for `assertQueue` is lost with a graceful shutdown
(`Shutdown!Publish`); a cluster does not survive an outage of Redis, because the
primary falls with it (`Outage`), and SIGTERM to a worker that is still starting
has it forked again (`Signalled`, `Restart`).

**Bounds and why they are enough.** Two of everything that races (orders,
consumers, list calls, callers, signals) give each pair of steps in each order;
the third process of `safety` lets a message be delivered again to a process
that is neither its publisher nor its first consumer. Two faults allow a fault
during the recovery from another. Three tasks per caller let a caller meet an
answer that belongs to an earlier task of the other. Three rows on pages of two
let a row be on the second page, move there from the first, or come back to the
first; a third page would repeat what happens between the first two. One update,
between any two statements of two walks, lets a row leave a list or change its place
under either; a second one meets walks that are not steady any more (the proofs are
for any number). `MaxFaults`, `MaxWrites`, `MaxAbandons`, `MaxErrors`, `MaxSignals`,
`MaxChanges`, `MaxUpdates`, `MaxFails` and `MaxPage` bound the environment, never the
program. The safety properties named in section 5 do not depend on any of these
bounds. `CHECK_DEADLOCK FALSE` is set everywhere: a system whose clients have
sent all their requests, or a process that has exited, rightly stops.

**Symmetry** is used in `safety` and `pages` only, which check no liveness.

**Fairness.** `OrderFlow`: awaited calls return, the broker delivers and
acknowledges, a dead worker is forked again (`cluster.on('exit')`) and somebody
starts a dead primary, which is an assumption about the installation; weak
fairness on each, none on clients and faults. `ListCache`: Redis and the
database answer, entries expire. `WorkerPool`: a thread computes its task to the
end (both executors are finite loops). `Shutdown`: the process takes its own
steps (`TimerSpec`), and queries and the end of the pool are answered
(`FairSpec`). `Bootstrap`: connections are answered, a graceful shutdown ends
(which is what `Shutdown` is about), services come back. `UserLoader`: ticks end, queries are answered, requests go on
when their promise is settled. `Migration`: statements are answered and containers
started again; an operator who has begun goes on, and none has to begin. No fault and no signal
ever has to happen.

## 4. Reading the liveness results

`OrdersSettle` promises something only if no fault occurs: `lost_invoice` is the
counterexample with one crash. `CrashesDrain` is what crashes leave intact: whatever was
published is consumed, and no half-done call lingers. It is restricted to
crashes because a process that has lost its channel stays deaf for ever if it
has nothing to publish, and its requests are still accepted.
`ShutdownEnds` depends on the database answering; `forced` shows that nothing
else ends the process. `ClusterSettles` leaves out nothing but the restart of the
primary: if that is gone, no process is left behind.

## 5. Proofs

All theorems hold for every value of the constants, under the named assumptions
of each module (`FlowAssumption`, `CacheAssumption`, `PoolAssumption`,
`ShutdownAssumption`, `BootAssumption`, `LoaderAssumption`, `NobodyAssumption`,
`MigrationAssumption`, `PagingAssumption`), which say only what the values are (finite bounds are natural numbers, `Nowhere`,
`Nothing` and `Nobody` are not values, workers are processes, nobody is both a
container and an operator).

| Theorem | Property |
|---|---|
| `OrderFlowProofs!FlowInvariantHolds` | `FlowInvariant` |
| `OrderFlowProofs!BillingFollowsCompletion` | `InvoicedOnlyIfCompleted` |
| `OrderFlowProofs!DuplicatesAreBounded` | `DuplicatesBoundedByFaults` |
| `OrderFlowProofs!CompletionStays` | `CompletionIsFinal` |
| `OrderFlowProofs!FlowImplementsLedger` | `ImplementsLedger` |
| `OrderFlowProofs!UndisturbedLosesNothing` | `NothingIsLost` |
| `OrderFlowProofs!EmptyQueuesMeanSettled` | `Settled` of every order once no call, message or handler is left |
| `ListCacheProofs!CacheInvariantHolds` | `CacheInvariant` |
| `ListCacheProofs!QuietInvalidationIsEffective` | `QuietInvalidationWorks` |
| `ListCacheProofs!OwnListIsServed` | `OwnListServed` |
| `ListCacheProofs!OldListsGoForGood` | `OldListsDieOut` |
| `ListCacheProofs!UncutInvalidationIsComplete` | without calls cut short, a quiet invalidation leaves no list at all |
| `WorkerPoolProofs!PoolInvariantHolds` | `PoolInvariant` |
| `WorkerPoolProofs!TakingTurnsIsSound` | `SerialUseIsSound` |
| `WorkerPoolProofs!PoolImplementsPromises` | `ImplementsPromises` |
| `ShutdownProofs!ShutdownInvariantHolds` | `ShutdownInvariant` |
| `ShutdownProofs!OneSignalShutsDownGracefully` | `OneSignalIsGraceful` |
| `ShutdownProofs!LossEndsTheWorker` | `LossIsFatal` |
| `ShutdownProofs!ShutdownImplementsWorkerLife` | `ImplementsWorkerLife` |
| `ShutdownProofs!CallsOfShutDownAdvance` | a call of `shutDown` never goes back, and its steps are bounded |
| `BootstrapProofs!BootInvariantHolds` | `BootInvariant` |
| `BootstrapProofs!QueuesAreConsumedOnce` | `EachQueueOnce` |
| `BootstrapProofs!CapacityIsKept` | `CapacityKept` |
| `BootstrapProofs!BootImplementsWorkerLife` | `ImplementsWorkerLife` |
| `BootstrapProofs!BootAdvances` | no process goes back, but one that has failed and is replaced |
| `UserLoaderProofs!LoaderInvariantHolds` | `LoaderInvariant` |
| `UserLoaderProofs!UsersAreQueriedOnce` | `UsersQueriedOnce` |
| `UserLoaderProofs!LoadedSinceTheStart` | `LoadedSinceStart` |
| `UserLoaderProofs!LoadedUsersStay` | a settled promise stays until a restart |
| `MigrationProofs!MigrationInvariantHolds` | `MigrationInvariant` |
| `MigrationProofs!SchemaIsAllOrNothing` | `AllOrNothing` |
| `MigrationProofs!AloneIsNotRefused` | `AloneSucceeds` |
| `MigrationProofs!HoldersNeverWait` | a migration that has touched a table never waits nor is refused |
| `PagedListProofs!PagingInvariantHolds` | `PagingInvariant` |
| `PagedListProofs!SteadyWalksSkipNothing` | `NothingSkipped` |
| `PagedListProofs!QueriedWalksSteady` | `QueriedWalksAreSteady` |
| `PagedListProofs!RepeatsStayBounded` | `RepeatsBounded` |

**OrderFlow.** `InvoicedOnlyIfCompleted` is not inductive: an invoice is written
from a message, perhaps long after the call. The strengthening says, for each
place an event can be (outbox, queue, unacknowledged, handler), that the call it
comes from ran to its end (`EventsFollowCall`), and for each stage of a call
what the row holds (`RowFollowsCall`). For the number of invoices each order has
an account: invoices written, handlers about to write one, and the delivery
still to come add up to at most one plus the number of faults
(`InvoicesAccounted`). A delivery moves a unit within the account, a requeue is
paid for by the fault that caused it. That argument needs a message to be in one
place (`SingleCopy`) and a process without a channel to owe no acknowledgement
(`ProcessesHold`). The refinement follows: `GenerateInvoice` meets
`invoices[o] <= disturbances` because the handler itself counts in the account.

The account bounds invoices from above. `NothingIsLost` bounds it from below, as
long as there has been no fault: what is owed to a completed order is in an
outbox, in the queue, in a handler or in the table, and likewise the notice of a
failed one. `Undisturbed` is that half by itself, `Kept` and `FailureKept` for
each order; no step but a fault forgets an event (`InvoiceKept`,
`FailureStaysKept`), and since there has been none, every process is up, so that
publishing, sending and delivering all go through. Once outboxes, queues and
handlers are empty, what is owed can only be in the tables
(`EmptyQueuesMeanSettled`): `OrdersSettle` without the part that needs fairness.

**ListCache.** A handler that runs with no list call beside it is ahead of every
tracked list (`HandlersAhead`): the tag set only grows, so what was cached when
it read the set is still in `keys[h]`. Lists stay apart because a key carries
its template and a reader holds the list it asked for (`ValuesFit`).
`OldListsDieOut` follows from what each step puts into circulation: only `Query`
brings in a list that was not there, and that one is as new as its table.

**WorkerPool.** That nothing waits for a dead thread rests on
`RunsCoverQueue`: each task in the queue can be matched with a thread at work,
because every thread that is lost takes a task out of the queue with it, and
every task that is added finds or creates a thread. `SerialQueue` is the
strengthening for callers that take turns: the thread at work has the head.
The refinement of `TaskPromises` takes both, and `RunsHandedOver`: threads work
only on tasks that were handed over. `QueueHoldsWaiting` makes the promise at the
head one that is awaited, so that a message that finds the queue empty is a step
the callers do not see, and `SerialQueue` makes the outcome that of the caller's
own task.

**Shutdown.** While the only call waits for the server nothing has been
disconnected; once it no longer waits no request is open and none can be
accepted (`ClosedFirst`). `CallsFollow` gives each place in `shutDown` the state
of the pool it implies, `ServicesFollow` ties clients, pool and refusals
together. For the refinement of `WorkerLife` a step is one of four
(`ExitOrSignal`): it leaves exit code and signals alone, rejects, exits after a
signal (`CallsFollow`: a call that is done was called), or is a signal.
`Progress` numbers the places of a call of `shutDown`, two for each attempt; that
no step takes it down is the part of `ShutdownEnds` that needs no fairness.

**Bootstrap.** The state of a process is one record, and `Consistent` says what
the record holds at each step of `start`; what an action makes of a record is a
lemma, so that every action of one process is the same argument
(`OneProcessKeepsInvariant`). That a queue has one consumer rests on the
flags being exactly the keys gone through. `OnlyStoppedLeave` needs
`PrimaryFirst`: an orphan leaves without a signal, but never under a primary
that lives. `RedisThere` is preserved because an outage of Redis ends every process
that has got that far, except those that close. The refinement of `WorkerLife` needs
`PrimaryFirst` (what is forked was absent) and `Consistent` (whoever holds a
channel is alive, so that an outage ends nobody who has ended). `Rank` numbers the
way of a process from fork to end; each step raises it for somebody, has a worker
replaced, or is an outage, a crash, a signal or the return of a service. So an
endless run without faults is one of workers that fail to start and are forked
again, which is what `ClusterSettles` excludes when the services are back.

**UserLoader.** `LoaderInvariant` is inductive. Its core is that the pending
promises are exactly the ids of the batches (`UsersQueriedOnce` one way,
`PromisesKept` the other): so a new batch cannot hold an id whose query is under
way, and nobody is left waiting when a batch is settled or rejected. What `Load`
and `RejectBatch` keep of it are lemmas, used by every action that calls them.
`ServedWereEntitled` follows from the token alone, which is what the code goes
by: the role may have been taken away since, `held` says that it once was there.
That a settled promise never changes (`LoadedUsersStay`) rests on the same core: a
query writes to the ids of its batch only, and those are not settled.

**Migration.** `AllOrNothing` is not inductive: two transactions could commit
over each other. What keeps them apart is that all runs of `up` begin with the
table of roles and all runs of `down` with an index of invoices: the first
statement waits for whoever has begun, and afterwards finds a database that it
was not written for (`OneAtWork`, `AloneInside`). An open transaction therefore
started from the state it assumes, and `Holds` says how far it has come; that it
commits everything is a fact about the two sequences (`UpFacts`, `DownCovers`).

`AloneSucceeds` needs two things. One is about histories (`Apart`): two processes at
work at the same time have met, so that one that has met nobody still finds the
database it looked at when it opened its transaction. The other is about the two
sequences: each statement of `up` finds what it needs among those before it
(`UpIsReady`), nothing that `down` drops has gone earlier with something else, and
no table is referred to any more when its turn comes (`DownIsReady`,
`DownIsFree`): the invoices have to go before the orders. The same two facts give
`HoldersNeverWait`: who has got beyond its first statement is the only one at
work (`OneAtWork`), so that it finds no lock but its own, and each statement it
still has is accepted. Processes that migrate and revert at once can therefore
wait for one another, but not in a circle, although the two functions take the
tables in different orders.

**PagedList.** A walk is followed through the lists its pages were read from. As
long as no row moves up, a row of the first list is on a page that was shown or
below the last one in the last list (`Shown`): a row at place `j` of the list is
at `j` or below in the next. When the client stops because `total` is reached, the
total is no smaller than that list, so that nothing is left below. For the total
to be right even if rows come in between the two statements, `ResponsesFit` keeps
`grown`. The bound on repeats is a count: a walk shows at most as many rows as
its last list has, and that list has at most the rows of the first, all of them
seen or below, and those that came in. `QueriesFollow` carries "not moved up"
from statement to statement; it is transitive (`OnlyDown`), holds for an
insertion at any place, and breaks only by an update (`UpdatePreserves`).

**Only model-checked.** Liveness (`OrdersSettle`, `CrashesDrain`,
`EventuallyFresh`, `TasksSettle`, `ShutdownEnds`, `ClusterSettles`,
`RequestsAnswered`, `ContainersStart`): fairness and ENABLED are out
of the prover's reach. So are facts by induction over data; no module here
needs one, and none declares a RECURSIVE operator. What is safety about these
properties is proved where there is a theorem for it:

| Liveness | Its safety half |
|---|---|
| `OrdersSettle` | nothing is lost, and who has nothing left to do is settled: `UndisturbedLosesNothing`, `EmptyQueuesMeanSettled` |
| `EventuallyFresh` | an old list does not come back: `OldListsGoForGood` |
| `TasksSettle` | a thread is at work for every task in the queue: `PoolInvariantHolds` |
| `ShutdownEnds` | calls of `shutDown` advance, and not for ever: `CallsOfShutDownAdvance` |
| `ContainersStart` | no circle of waiting transactions, no refusal half-way: `HoldersNeverWait` |
| `RequestsAnswered` | whoever waits is in a batch that is under way: `LoaderInvariantHolds` |
| `ClusterSettles` | no process goes back: `BootAdvances` |
| `CrashesDrain` | none of its own |

## 6. Not modelled, and why

* The rate limiter: `rateLimitConfig` passes a window and a maximum to
  express-rate-limit, which counts in the memory of each process. The limit is
  therefore one per worker and starts again with each restart; a model would be
  one of the library, whose counter the repository neither reads nor shares.
* The report of the health check: three flags, read in one step, that no lost
  connection clears (section 2, Bootstrap).
* Tests of a container that fail for ever: then it never starts. One failure is
  one `Die` of `Migration`.
* Passwords and the cryptography of tokens, validation, DTOs, error classes,
  controllers, Swagger, logging, configuration: stateless, one request at a time.
* The README also promises approval and cancellation of orders, notification of
  administrators and the creation of users; there is no code for them.
* `generateStrongPassword`: no caller, random characters.
* Timeouts of the HTTP server (`SERVER_TIMEOUT`) that cut connections.
* The primary's branch of `shutDown`: the primary registers no signal handlers.
* A page of users is read by two statements (ids, then rows with their roles).
  No operation of the program writes users or roles, so that the two agree.

## 7. Plan

Done: order pipeline, list cache, paging, worker threads, shutdown, start and
cluster with their common abstractions, user loader and
authorization, migration, with proofs.

What could follow:

* An abstract specification of the cache (a read returns a list that was
  current at some time since the last invalidation no call overlapped), which
  `ListCache` implements.
* For `CrashesDrain`, a measure over outboxes, queues and handlers that only
  faults and clients raise.
* A bound on the steps of a walk in `PagedList` and of a request in `UserLoader`.
