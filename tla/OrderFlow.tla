------------------------------ MODULE OrderFlow ------------------------------
(***************************************************************************)
(* The order-to-invoice pipeline: POST /orders in an HTTP worker writes    *)
(* the order and publishes domain events through RabbitMQ without awaiting *)
(* them; every node process (the cluster primary too) consumes the three   *)
(* queues, and its subscribers write the order and the invoice tables.     *)
(*                                                                         *)
(* One step of the model is the code between two awaits, or the moment a   *)
(* remote call takes effect in the database or in the broker.  Prices are  *)
(* integers in tenths of a cent, so that the rounding of the decimal(10,2) *)
(* columns shows.  A queue is a set: competing consumers and handlers that *)
(* run on after their first await give its order no meaning.               *)
(***************************************************************************)
EXTENDS Integers, FiniteSets

CONSTANTS
  Processes,   \* node processes: the cluster primary and its workers
  Workers,     \* the processes that listen for HTTP requests
  Nowhere,     \* stands for no process
  Orders,      \* one order per POST /orders call
  Amounts,     \* totalAmount values clients send, in tenths of a cent
  CentsLimit,  \* a decimal(10,2) column overflows at this many cents
  Faults,      \* which of FaultKinds the environment may inject
  MaxFaults    \* bound on the number of injected faults

FaultKinds == {"crash", "close", "broker"}

ASSUME FlowAssumption ==
  /\ Workers \subseteq Processes
  /\ Nowhere \notin Processes
  /\ Amounts \subseteq Int
  /\ CentsLimit \in Nat
  /\ Faults \subseteq FaultKinds
  /\ MaxFaults \in Nat

VARIABLES
  orders,    \* orders[o]: status column of the row, "NONE" while there is none
  amount,    \* amount[o]: the totalAmount of the request body
  invoices,  \* invoices[o]: number of invoice rows that refer to o
  notified,  \* orders whose failure the notification subscriber has logged
  stage,     \* stage[o]: how far the createOrder call has come
  at,        \* at[o]: the process that runs the call
  proc,      \* proc[p]: "down", "up", or "deaf" (running, its channel closed)
  outbox,    \* outbox[p]: publish calls of p that have not reached the broker
  ready,     \* messages the broker holds for delivery
  unacked,   \* unacked[p]: messages delivered to p whose ack has not arrived
  tasks,     \* subscriber handlers suspended at an await
  faults     \* number of faults so far

vars == <<orders, amount, invoices, notified, stage, at, proc, outbox, ready,
          unacked, tasks, faults>>

OrderStatus == {"PENDING", "COMPLETED", "CANCELLED"}

Events == [kind : {"status", "invoice", "failed"}, order : Orders]

Event(k, o) == [kind |-> k, order |-> o]

\* seen: the order row the handler has fetched, "unread" before it has.
Tasks == [proc : Processes, event : Events,
          seen : OrderStatus \cup {"NONE", "unread"}]

Stages == {"new", "received", "inserted", "completed", "answered", "failed",
           "rejected", "lost"}

\* What numeric(10,2) stores for a JavaScript number: half away from zero.
Cents(a) == IF a >= 0 THEN (a + 5) \div 10 ELSE -((5 - a) \div 10)

Overflows(a) == Cents(a) >= CentsLimit \/ Cents(a) <= -CentsLimit

TypeOK ==
  /\ orders \in [Orders -> OrderStatus \cup {"NONE"}]
  /\ amount \in [Orders -> Amounts \cup {0}]
  /\ invoices \in [Orders -> Nat]
  /\ notified \in SUBSET Orders
  /\ stage \in [Orders -> Stages]
  /\ at \in [Orders -> Processes \cup {Nowhere}]
  /\ proc \in [Processes -> {"down", "up", "deaf"}]
  /\ outbox \in [Processes -> SUBSET Events]
  /\ ready \in SUBSET Events
  /\ unacked \in [Processes -> SUBSET Events]
  /\ tasks \in SUBSET Tasks
  /\ faults \in Nat

Init ==
  /\ orders = [o \in Orders |-> "NONE"]
  /\ amount = [o \in Orders |-> 0]
  /\ invoices = [o \in Orders |-> 0]
  /\ notified = {}
  /\ stage = [o \in Orders |-> "new"]
  /\ at = [o \in Orders |-> Nowhere]
  /\ proc = [p \in Processes |-> "up"]
  /\ outbox = [p \in Processes |-> {}]
  /\ ready = {}
  /\ unacked = [p \in Processes |-> {}]
  /\ tasks = {}
  /\ faults = 0

rows == <<orders, invoices, notified>>
broker == <<ready, unacked>>
call == <<amount, at>>

-----------------------------------------------------------------------------
(* OrderService.createOrder *)

\* The request reaches a worker; the user is fetched, nothing is written.
Receive(o, p, a) ==
  /\ stage[o] = "new"
  /\ proc[p] # "down"
  /\ stage' = [stage EXCEPT ![o] = "received"]
  /\ at' = [at EXCEPT ![o] = p]
  /\ amount' = [amount EXCEPT ![o] = a]
  /\ UNCHANGED <<rows, proc, outbox, broker, tasks, faults>>

\* EventPublisherDecorator: the process of the call starts a publication for
\* each of these events, which nobody awaits.
Publish(o, kinds) ==
  outbox' = [outbox EXCEPT ![at[o]] = @ \cup {Event(k, o) : k \in kinds}]

\* Mutant: the status event is published right after the first save.
InsertOrderPublishing(o) ==
  /\ stage[o] = "received"
  /\ ~Overflows(amount[o])
  /\ stage' = [stage EXCEPT ![o] = "inserted"]
  /\ orders' = [orders EXCEPT ![o] = "PENDING"]
  /\ Publish(o, {"status"})
  /\ UNCHANGED <<call, invoices, notified, proc, broker, tasks, faults>>

\* First save: the row is PENDING, unless the column overflows and the call
\* is rejected with nothing written.
InsertOrder(o) ==
  /\ stage[o] = "received"
  /\ \/ /\ Overflows(amount[o])
        /\ stage' = [stage EXCEPT ![o] = "rejected"]
        /\ UNCHANGED orders
     \/ /\ ~Overflows(amount[o])
        /\ stage' = [stage EXCEPT ![o] = "inserted"]
        /\ orders' = [orders EXCEPT ![o] = "PENDING"]
  /\ UNCHANGED <<call, invoices, notified, proc, outbox, broker, tasks, faults>>

\* totalAmount <= 0: publish ORDER_FAILED without awaiting it, and answer.
FailOrder(o) ==
  /\ stage[o] = "inserted"
  /\ amount[o] <= 0
  /\ Publish(o, {"failed"})
  /\ stage' = [stage EXCEPT ![o] = "failed"]
  /\ UNCHANGED <<call, rows, proc, broker, tasks, faults>>

\* Mutant: the failure branch does not return, so the second save follows it.
CompleteOrderAnyway(o) ==
  /\ stage[o] \in {"inserted", "failed"}
  /\ orders' = [orders EXCEPT ![o] = "COMPLETED"]
  /\ stage' = [stage EXCEPT ![o] = "completed"]
  /\ UNCHANGED <<call, invoices, notified, proc, outbox, broker, tasks, faults>>

\* Second save: COMPLETED.
CompleteOrder(o) ==
  /\ stage[o] = "inserted"
  /\ amount[o] > 0
  /\ orders' = [orders EXCEPT ![o] = "COMPLETED"]
  /\ stage' = [stage EXCEPT ![o] = "completed"]
  /\ UNCHANGED <<call, invoices, notified, proc, outbox, broker, tasks, faults>>

\* Mutant: the second save is not awaited before the events are published.
PublishApprovalUnsaved(o) ==
  /\ stage[o] = "inserted" /\ amount[o] > 0
  /\ Publish(o, {"status", "invoice"})
  /\ stage' = [stage EXCEPT ![o] = "answered"]
  /\ UNCHANGED <<call, rows, proc, broker, tasks, faults>>

\* Mutant: the return value of handleOrderApprovalInvoiceGenerate has no
\* queueName, so the decorator publishes the status event alone.
PublishStatusOnly(o) ==
  /\ stage[o] = "completed"
  /\ Publish(o, {"status"})
  /\ stage' = [stage EXCEPT ![o] = "answered"]
  /\ UNCHANGED <<call, rows, proc, broker, tasks, faults>>

\* Start both publications, await neither, and answer SUCCESS.
PublishApproval(o) ==
  /\ stage[o] = "completed"
  /\ Publish(o, {"status", "invoice"})
  /\ stage' = [stage EXCEPT ![o] = "answered"]
  /\ UNCHANGED <<call, rows, proc, broker, tasks, faults>>

-----------------------------------------------------------------------------
(* RabbitMQInfrastructure *)

\* assertQueue has answered and sendToQueue reaches the broker.  The channel
\* answers in order, so the status event of an order precedes its invoice one.
Send(p, e) ==
  /\ proc[p] = "up"
  /\ e \in outbox[p]
  /\ e.kind = "invoice" => Event("status", e.order) \notin outbox[p]
  /\ outbox' = [outbox EXCEPT ![p] = @ \ {e}]
  /\ ready' = ready \cup {e}
  /\ UNCHANGED <<call, rows, stage, proc, unacked, tasks, faults>>

\* Does the handler await anything?  handleOrderFailed does not, and
\* handleInvoiceGeneration ignores an event without a positive amount.
Suspends(e) ==
  \/ e.kind = "status"
  \/ e.kind = "invoice" /\ amount[e.order] > 0

\* handleOrderFailed does nothing but log the failure.
Logged(e) == IF e.kind = "failed" THEN {e.order} ELSE {}

\* The task that runs the queue's subscriber.
Handler(p, e) == [proc |-> p, event |-> e, seen |-> "unread"]

\* The broker pushes a message: consume runs the handler up to its first
\* await and acks at once, so the handler outlives the acknowledgement.
Deliver(p, e) ==
  /\ proc[p] = "up"
  /\ e \in ready
  /\ ready' = ready \ {e}
  /\ unacked' = [unacked EXCEPT ![p] = @ \cup {e}]
  /\ tasks' = tasks \cup (IF Suspends(e) THEN {Handler(p, e)} ELSE {})
  /\ notified' = notified \cup Logged(e)
  /\ UNCHANGED <<call, orders, invoices, stage, proc, outbox, faults>>

\* The acknowledgement arrives and the broker forgets the message.
Ack(p, e) ==
  /\ e \in unacked[p]
  /\ unacked' = [unacked EXCEPT ![p] = @ \ {e}]
  /\ UNCHANGED <<call, rows, stage, proc, outbox, ready, tasks, faults>>

-----------------------------------------------------------------------------
(* OrderRabbitMQSubscriber and InvoiceRabbitMQSubscriber *)

\* findOneByOrFail: the handler holds a copy of the order row.
FindOrder(t) ==
  /\ t \in tasks
  /\ t.seen = "unread"
  /\ tasks' = (tasks \ {t}) \cup {[t EXCEPT !.seen = orders[t.event.order]]}
  /\ UNCHANGED <<call, rows, stage, proc, outbox, broker, faults>>

\* updateOrderStatus: save(order) writes back the copy it fetched.
UpdateOrderStatus(t) ==
  /\ t \in tasks
  /\ t.event.kind = "status"
  /\ t.seen # "unread"
  /\ orders' = [orders EXCEPT ![t.event.order] = t.seen]
  /\ tasks' = tasks \ {t}
  /\ UNCHANGED <<call, invoices, notified, stage, proc, outbox, broker, faults>>

\* Mutant: a save that succeeded is tried again.
GenerateInvoiceRetried(t) ==
  /\ t \in tasks
  /\ t.event.kind = "invoice"
  /\ t.seen # "unread"
  /\ invoices' = [invoices EXCEPT ![t.event.order] = @ + 1]
  /\ UNCHANGED <<call, orders, notified, stage, proc, outbox, broker, tasks, faults>>

\* Mutant: the invoice subscriber listens to both approval queues.
GenerateInvoiceForBoth(t) ==
  /\ t \in tasks
  /\ t.seen # "unread"
  /\ invoices' = [invoices EXCEPT ![t.event.order] = @ + 1]
  /\ tasks' = tasks \ {t}
  /\ UNCHANGED <<call, orders, notified, stage, proc, outbox, broker, faults>>

\* generateInvoice: save(invoice) inserts a PAID invoice, whatever invoices
\* the order already has.
GenerateInvoice(t) ==
  /\ t \in tasks
  /\ t.event.kind = "invoice"
  /\ t.seen # "unread"
  /\ invoices' = [invoices EXCEPT ![t.event.order] = @ + 1]
  /\ tasks' = tasks \ {t}
  /\ UNCHANGED <<call, orders, notified, stage, proc, outbox, broker, faults>>

-----------------------------------------------------------------------------
(* Faults, and what follows from them *)

\* Workers exit when the channel to their primary closes.
Fallen(S) == IF S \subseteq Workers THEN S ELSE Processes

\* Everything the processes in S hold in memory is gone.
Die(S) ==
  /\ stage' = [o \in Orders |->
                 IF at[o] \in S /\ stage[o] \in {"received", "inserted", "completed"}
                 THEN "lost" ELSE stage[o]]
  /\ outbox' = [p \in Processes |-> IF p \in S THEN {} ELSE outbox[p]]
  /\ tasks' = {t \in tasks : t.proc \notin S}
  /\ UNCHANGED <<call, rows>>

\* The broker puts back what the processes in S have not acknowledged.
Requeue(S) ==
  /\ ready' = ready \cup UNION {unacked[p] : p \in S}
  /\ unacked' = [p \in Processes |-> IF p \in S THEN {} ELSE unacked[p]]

Fault(kind) ==
  /\ kind \in Faults
  /\ faults < MaxFaults
  /\ faults' = faults + 1

Exit(S) ==
  /\ proc' = [p \in Processes |-> IF p \in S THEN "down" ELSE proc[p]]
  /\ Die(S)
  /\ Requeue(S)

\* A kill, or an exit(1) from the handlers of uncaughtException and
\* unhandledRejection in index.ts.
Crash(p) ==
  /\ Fault("crash")
  /\ proc[p] # "down"
  /\ Exit(Fallen({p}))

\* The broker closes the connection of p in the orderly way that amqplib does
\* not report as an error: the consumers are gone, nothing reconnects, and
\* the handlers run on.
CloseChannel(p) ==
  /\ Fault("close")
  /\ proc[p] = "up"
  /\ proc' = [proc EXCEPT ![p] = "deaf"]
  /\ Requeue({p})
  /\ UNCHANGED <<call, rows, stage, outbox, tasks>>

\* The broker restarts: the queues are durable, the messages were sent
\* without persistent and are gone, and every connection is closed.  In gone
\* the connection emits an error, which has no listener and ends the process.
RestartBroker(gone) ==
  /\ Fault("broker")
  /\ gone \subseteq {p \in Processes : proc[p] = "up"}
  /\ ready' = {}
  /\ unacked' = [p \in Processes |-> {}]
  /\ proc' = [p \in Processes |-> IF p \in Fallen(gone) THEN "down"
                                  ELSE IF proc[p] = "up" THEN "deaf" ELSE proc[p]]
  /\ Die(Fallen(gone))

\* On a closed channel assertQueue throws; nobody awaits the publication, so
\* the rejection is unhandled and the process exits.
SendFails(p) ==
  /\ proc[p] = "deaf"
  /\ outbox[p] # {}
  /\ Exit(Fallen({p}))
  /\ UNCHANGED faults

\* Mutant: a restarted process does not subscribe again.
RestartUnsubscribed(p) ==
  /\ proc[p] = "down"
  /\ p \in Workers => \A q \in Processes \ Workers : proc[q] # "down"
  /\ proc' = [proc EXCEPT ![p] = "deaf"]
  /\ UNCHANGED <<call, rows, stage, outbox, broker, tasks, faults>>

\* The primary (started anew by hand or by whatever supervises it) forks its
\* workers; a process connects and subscribes before it serves.
Restart(p) ==
  /\ proc[p] = "down"
  /\ p \in Workers => \A q \in Processes \ Workers : proc[q] # "down"
  /\ proc' = [proc EXCEPT ![p] = "up"]
  /\ UNCHANGED <<call, rows, stage, outbox, broker, tasks, faults>>

-----------------------------------------------------------------------------
Request(o) ==
  InsertOrder(o) \/ FailOrder(o) \/ CompleteOrder(o) \/ PublishApproval(o)

Handle(t) == FindOrder(t) \/ UpdateOrderStatus(t) \/ GenerateInvoice(t)

Transport(e) == \E p \in Processes : Send(p, e) \/ Deliver(p, e) \/ Ack(p, e)

Recover(p) == SendFails(p) \/ Restart(p)

Disturbance ==
  \/ \E p \in Processes : Crash(p) \/ CloseChannel(p)
  \/ \E gone \in SUBSET Processes : RestartBroker(gone)

Next ==
  \/ \E o \in Orders, p \in Workers, a \in Amounts : Receive(o, p, a)
  \/ \E o \in Orders : Request(o)
  \/ \E e \in Events : Transport(e)
  \/ \E t \in tasks : Handle(t)
  \/ \E p \in Processes : Recover(p)
  \/ Disturbance

Spec == Init /\ [][Next]_vars

\* Awaited calls are answered, the broker delivers and acknowledges, and the
\* supervisors restart what has exited.  Clients and faults owe nothing.
Fairness ==
  /\ \A o \in Orders : WF_vars(Request(o))
  /\ \A e \in Events : WF_vars(Transport(e))
  /\ WF_vars(\E t \in tasks : Handle(t))
  /\ \A p \in Processes : WF_vars(Recover(p))

FairSpec == Spec /\ Fairness

-----------------------------------------------------------------------------
(* Properties *)

\* A call's stage fixes what its row may hold: nothing before the first save,
\* PENDING until the second, COMPLETED after it, and only a positive amount
\* gets that far.  A call that a crash cut short leaves any of the three.
RowFollowsCall ==
  \A o \in Orders :
    /\ stage[o] \in {"new", "received", "rejected"} => orders[o] = "NONE"
    /\ stage[o] \in {"inserted", "failed"} => orders[o] = "PENDING"
    /\ stage[o] \in {"completed", "answered"} => orders[o] = "COMPLETED"
    /\ orders[o] = "COMPLETED" => amount[o] > 0
    /\ stage[o] # "new" => at[o] \in Workers
    /\ stage[o] \in {"received", "inserted", "completed"} => proc[at[o]] # "down"

Earned(e) == stage[e.order] = IF e.kind = "failed" THEN "failed" ELSE "answered"

\* Whatever crash, lost channel or broker restart intervenes, an event exists
\* only for a call that ran to its end: ORDER_FAILED for one that took the
\* failure branch, the approval events for one whose row is COMPLETED;
\* and a handler's copy of the row is that COMPLETED row.
EventsFollowCall ==
  /\ \A e \in ready : Earned(e)
  /\ \A p \in Processes : \A e \in outbox[p] \cup unacked[p] : Earned(e)
  /\ \A t \in tasks : /\ Earned(t.event)
                      /\ t.event.kind # "failed"
                      /\ t.seen \in {"unread", "COMPLETED"}
  /\ \A o \in Orders : invoices[o] > 0 => stage[o] = "answered"

\* A message is in one place: a publisher's socket, the broker's ready list,
\* or one consumer's unacknowledged list.
SingleCopy ==
  \A p, q \in Processes :
    /\ outbox[p] \cap (ready \cup unacked[q]) = {}
    /\ ready \cap unacked[p] = {}
    /\ p # q => outbox[p] \cap outbox[q] = {} /\ unacked[p] \cap unacked[q] = {}

\* A process without a channel owes no acknowledgement, one that is down
\* holds nothing at all, and only HTTP workers publish.
ProcessesHold ==
  /\ \A p \in Processes :
       /\ proc[p] # "up" => unacked[p] = {}
       /\ proc[p] = "down" => outbox[p] = {}
       /\ outbox[p] # {} => p \in Workers
  /\ \A t \in tasks : proc[t.proc] # "down"

InvoiceTasks(o) == {t \in tasks : t.event = Event("invoice", o)}

\* Is the invoice event of o still to be delivered?
Awaited(o) ==
  \/ stage[o] # "answered"
  \/ \E p \in Processes : Event("invoice", o) \in outbox[p]
  \/ Event("invoice", o) \in ready

\* The invoices of an order, the handlers that are about to insert one more
\* and the delivery still to come are together at most one, plus one for each
\* fault: only a fault makes the broker deliver a message again.
Account(o) ==
  invoices[o] + Cardinality(InvoiceTasks(o)) + (IF Awaited(o) THEN 1 ELSE 0)

InvoicesAccounted ==
  /\ IsFiniteSet(tasks)
  /\ \A o \in Orders : Account(o) <= 1 + faults

\* Inductive: what the theorems of OrderFlowProofs rest on.
FlowInvariant ==
  /\ TypeOK
  /\ RowFollowsCall
  /\ EventsFollowCall
  /\ SingleCopy
  /\ ProcessesHold
  /\ InvoicesAccounted

\* An invoice exists only for an order whose row is COMPLETED and whose
\* request had a positive amount, although the invoice is written by another
\* process than the order, from a message that may be delivered again.
InvoicedOnlyIfCompleted ==
  \A o \in Orders : invoices[o] > 0 => orders[o] = "COMPLETED" /\ amount[o] > 0

\* updateOrderStatus saves back a row it read earlier; no interleaving with
\* createOrder or with another delivery makes that save undo a completion.
CompletionIsFinal ==
  [][\A o \in Orders : orders[o] = "COMPLETED" => orders'[o] = "COMPLETED"]_vars

\* generateInvoice does not look for an invoice of the order, so a message
\* delivered twice is billed twice: once more for each fault, but no more.
DuplicatesBoundedByFaults ==
  \A o \in Orders : invoices[o] <= 1 + faults

\* As long as no fault has happened nothing is lost on the way, although no
\* publication is awaited and every message is acknowledged before its handler
\* ends: the invoice of an order is due in exactly one place (a call or an event
\* still to be delivered, one handler, or one row), and a failed order's event is
\* on its way or logged.
NothingIsLost ==
  faults = 0 =>
    /\ \A p \in Processes : proc[p] = "up"
    /\ \A o \in Orders :
         /\ stage[o] # "lost"
         /\ Account(o) = 1
         /\ stage[o] = "failed" =>
              \/ o \in notified
              \/ Event("failed", o) \in ready
              \/ \E p \in Processes : Event("failed", o) \in outbox[p]

\* The two tables are all the pipeline writes, and it writes them the way
\* OrderLedger says: place, complete, bill, at most one bill per disturbance
\* more than the one that is due.
Ledger == INSTANCE OrderLedger WITH status <- orders, disturbances <- faults

ImplementsLedger == Ledger!Spec

\* Unless a fault intervenes, every call that completes an order is followed by
\* exactly one invoice for it, and every failed one by a notification.
OrdersSettle ==
  \A o \in Orders :
    /\ stage[o] = "completed" ~>
         faults > 0 \/ (orders[o] = "COMPLETED" /\ invoices[o] = 1)
    /\ stage[o] = "inserted" /\ amount[o] <= 0 ~> faults > 0 \/ o \in notified

InFlight == ready \cup (UNION {outbox[p] \cup unacked[p] : p \in Processes})
                  \cup {t.event : t \in tasks}

\* After the last crash the queues empty: the restarted processes consume
\* what was requeued, every handler ends, no call stays half done, whichever
\* process has died and whatever it held.
CrashesDrain ==
  <>[](InFlight = {} /\ \A o \in Orders :
         stage[o] \in {"new", "answered", "failed", "rejected", "lost"})

\* README.md "Updates order status from PENDING to COMPLETED / Publishes an
\* event to trigger invoice generation": a completed order gets its invoice,
\* even if a process dies on the way.
CompletedOrdersAreInvoiced ==
  \A o \in Orders : orders[o] = "COMPLETED" ~> invoices[o] > 0
=============================================================================
