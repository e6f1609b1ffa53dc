--------------------------- MODULE OrderFlowProofs ---------------------------
(***************************************************************************)
(* Theorems about OrderFlow for every set of processes, orders and amounts *)
(* and every number of faults.  FlowInvariant is inductive: each of its    *)
(* conjuncts has a lemma with one step per action, and the theorems at the *)
(* end follow from it.                                                     *)
(***************************************************************************)
EXTENDS OrderFlow, FiniteSetTheorems, TLAPS

-----------------------------------------------------------------------------
(* Finite sets *)

\* A subset of a finite set is finite and no larger.
LEMMA SmallerSet ==
  ASSUME NEW S, NEW T \in SUBSET S, IsFiniteSet(S)
  PROVE  /\ IsFiniteSet(T)
         /\ Cardinality(T) \in Nat
         /\ Cardinality(S) \in Nat
         /\ Cardinality(T) <= Cardinality(S)
  BY FS_Subset, FS_CardinalityType

\* Adding an element to a finite set adds at most one to its cardinality.
LEMMA OneMore ==
  ASSUME NEW S, NEW x, IsFiniteSet(S)
  PROVE  /\ IsFiniteSet(S \cup {x})
         /\ Cardinality(S \cup {x}) \in Nat
         /\ Cardinality(S \cup {x}) <= Cardinality(S) + 1
<1>1. Cardinality(S) \in Nat
  BY FS_CardinalityType
<1>2. IsFiniteSet(S \cup {x})
  BY FS_AddElement
<1>3. Cardinality(S \cup {x}) \in {Cardinality(S), Cardinality(S) + 1}
  BY FS_AddElement
<1> QED
  BY <1>1, <1>2, <1>3

\* Removing an element takes one away.
LEMMA OneLess ==
  ASSUME NEW S, NEW x \in S, IsFiniteSet(S)
  PROVE  /\ IsFiniteSet(S \ {x})
         /\ Cardinality(S \ {x}) \in Nat
         /\ Cardinality(S \ {x}) = Cardinality(S) - 1
<1>1. IsFiniteSet(S \ {x}) /\ Cardinality(S \ {x}) = Cardinality(S) - 1
  BY FS_RemoveElement
<1> QED
  BY <1>1, FS_CardinalityType

\* Replacing an element by another does not make a set larger.
LEMMA Exchanged ==
  ASSUME NEW S, NEW x \in S, NEW y, IsFiniteSet(S)
  PROVE  /\ IsFiniteSet((S \ {x}) \cup {y})
         /\ Cardinality((S \ {x}) \cup {y}) <= Cardinality(S)
<1> DEFINE R == S \ {x}
<1>1. /\ IsFiniteSet(R)
      /\ Cardinality(R) \in Nat
      /\ Cardinality(R) = Cardinality(S) - 1
      /\ Cardinality(S) \in Nat
  BY OneLess, FS_CardinalityType
<1> HIDE DEF R
<1>2. /\ IsFiniteSet(R \cup {y})
      /\ Cardinality(R \cup {y}) \in Nat
      /\ Cardinality(R \cup {y}) <= Cardinality(R) + 1
  BY <1>1, OneMore
<1>3. IsFiniteSet(R \cup {y}) /\ Cardinality(R \cup {y}) <= Cardinality(S)
  BY <1>1, <1>2
<1> QED
  BY <1>3 DEF R

-----------------------------------------------------------------------------
(* The conjuncts of FlowInvariant, one lemma each *)

\* The events a call publishes are events.
LEMMA EventType ==
  ASSUME NEW o \in Orders
  PROVE  /\ Event("status", o) \in Events
         /\ Event("invoice", o) \in Events
         /\ Event("failed", o) \in Events
  BY DEF Event, Events

\* What the two outcomes of createOrder publish.
LEMMA Publication ==
  \A o : /\ {Event(k, o) : k \in {"failed"}} = {Event("failed", o)}
         /\ {Event(k, o) : k \in {"status", "invoice"}} =
              {Event("status", o), Event("invoice", o)}
  OBVIOUS

\* Every step keeps the variables in their types.
LEMMA TypeStep ==
  ASSUME TypeOK, [Next]_vars
  PROVE  TypeOK'
<1> USE FlowAssumption DEF TypeOK, Tasks, Stages, OrderStatus
<1>1. ASSUME NEW o \in Orders, NEW p \in Workers, NEW a \in Amounts, Receive(o, p, a)
      PROVE TypeOK'
  BY <1>1 DEF Receive, rows, broker
<1>2. ASSUME NEW o \in Orders, InsertOrder(o) PROVE TypeOK'
  BY <1>2 DEF InsertOrder, call, broker
<1>3. ASSUME NEW o \in Orders, FailOrder(o) PROVE TypeOK'
  <2>1. outbox' = [outbox EXCEPT ![at[o]] = @ \cup {Event("failed", o)}]
    BY <1>3, Publication DEF FailOrder, Publish
  <2> QED
    BY <1>3, <2>1, EventType DEF FailOrder, call, rows, broker
<1>4. ASSUME NEW o \in Orders, CompleteOrder(o) PROVE TypeOK'
  BY <1>4 DEF CompleteOrder, call, broker
<1>5. ASSUME NEW o \in Orders, PublishApproval(o) PROVE TypeOK'
  <2>1. outbox' = [outbox EXCEPT ![at[o]] =
                     @ \cup {Event("status", o), Event("invoice", o)}]
    BY <1>5, Publication DEF PublishApproval, Publish
  <2>2. {Event("status", o), Event("invoice", o)} \in SUBSET Events
    BY EventType
  <2>3. outbox' \in [Processes -> SUBSET Events]
    BY <2>1, <2>2
  <2>4. stage' \in [Orders -> Stages]
    BY <1>5 DEF PublishApproval
  <2> QED
    BY <1>5, <2>3, <2>4 DEF PublishApproval, call, rows, broker
<1>6. ASSUME NEW p \in Processes, NEW e \in Events, Send(p, e) PROVE TypeOK'
  BY <1>6 DEF Send, call, rows, Event
<1>7. ASSUME NEW p \in Processes, NEW e \in Events, Deliver(p, e) PROVE TypeOK'
  BY <1>7 DEF Deliver, Logged, call, Handler, Suspends, Events
<1>8. ASSUME NEW p \in Processes, NEW e \in Events, Ack(p, e) PROVE TypeOK'
  BY <1>8 DEF Ack, call, rows
<1>9. ASSUME NEW t \in tasks, FindOrder(t) PROVE TypeOK'
  BY <1>9 DEF FindOrder, call, rows, broker, Events
<1>10. ASSUME NEW t \in tasks, UpdateOrderStatus(t) PROVE TypeOK'
  BY <1>10 DEF UpdateOrderStatus, call, broker, Events
<1>11. ASSUME NEW t \in tasks, GenerateInvoice(t) PROVE TypeOK'
  BY <1>11 DEF GenerateInvoice, call, broker, Events
<1>12. ASSUME NEW p \in Processes, Crash(p) PROVE TypeOK'
  BY <1>12 DEF Crash, Fault, Exit, Die, Requeue, Fallen, call, rows
<1>13. ASSUME NEW p \in Processes, CloseChannel(p) PROVE TypeOK'
  BY <1>13 DEF CloseChannel, Fault, Requeue, call, rows
<1>14. ASSUME NEW gone \in SUBSET Processes, RestartBroker(gone) PROVE TypeOK'
  BY <1>14 DEF RestartBroker, Fault, Die, Fallen, call, rows
<1>15. ASSUME NEW p \in Processes, SendFails(p) PROVE TypeOK'
  BY <1>15 DEF SendFails, Exit, Die, Requeue, Fallen, call, rows
<1>16. ASSUME NEW p \in Processes, Restart(p) PROVE TypeOK'
  BY <1>16 DEF Restart, call, rows, broker
<1>17. CASE UNCHANGED vars
  BY <1>17 DEF vars
<1> QED
  BY <1>1, <1>2, <1>3, <1>4, <1>5, <1>6, <1>7, <1>8, <1>9, <1>10, <1>11,
     <1>12, <1>13, <1>14, <1>15, <1>16, <1>17
    DEF Next, Request, Transport, Handle, Recover, Disturbance

\* Only the call itself changes its row; the status handler writes COMPLETED
\* over COMPLETED.
LEMMA RowStep ==
  ASSUME TypeOK, RowFollowsCall, EventsFollowCall, ProcessesHold, [Next]_vars
  PROVE  RowFollowsCall'
<1> USE FlowAssumption DEF TypeOK, RowFollowsCall, Stages, OrderStatus,
           Events, Tasks
<1>1. ASSUME NEW o \in Orders, NEW p \in Workers, NEW a \in Amounts, Receive(o, p, a)
      PROVE RowFollowsCall'
  BY <1>1 DEF Receive, rows, broker
<1>2. ASSUME NEW o \in Orders, InsertOrder(o) PROVE RowFollowsCall'
  BY <1>2 DEF InsertOrder, call, broker
<1>3. ASSUME NEW o \in Orders, FailOrder(o) PROVE RowFollowsCall'
  BY <1>3, Publication DEF FailOrder, Publish, call, rows, broker, Event
<1>4. ASSUME NEW o \in Orders, CompleteOrder(o) PROVE RowFollowsCall'
  BY <1>4 DEF CompleteOrder, call, broker
<1>5. ASSUME NEW o \in Orders, PublishApproval(o) PROVE RowFollowsCall'
  BY <1>5, Publication DEF PublishApproval, Publish, call, rows, broker, Event
<1>6. ASSUME NEW p \in Processes, NEW e \in Events, Send(p, e)
      PROVE RowFollowsCall'
  BY <1>6 DEF Send, call, rows, Event
<1>7. ASSUME NEW p \in Processes, NEW e \in Events, Deliver(p, e)
      PROVE RowFollowsCall'
  BY <1>7 DEF Deliver, Logged, call, Handler, Suspends
<1>8. ASSUME NEW p \in Processes, NEW e \in Events, Ack(p, e)
      PROVE RowFollowsCall'
  BY <1>8 DEF Ack, call, rows
<1>9. ASSUME NEW t \in tasks, FindOrder(t) PROVE RowFollowsCall'
  BY <1>9 DEF FindOrder, call, rows, broker
<1>10. ASSUME NEW t \in tasks, UpdateOrderStatus(t) PROVE RowFollowsCall'
  BY <1>10 DEF UpdateOrderStatus, call, broker, EventsFollowCall, Earned
<1>11. ASSUME NEW t \in tasks, GenerateInvoice(t) PROVE RowFollowsCall'
  BY <1>11 DEF GenerateInvoice, call, broker
<1>12. ASSUME NEW p \in Processes, Crash(p) PROVE RowFollowsCall'
  BY <1>12 DEF Crash, Fault, Exit, Die, Requeue, Fallen, call, rows
<1>13. ASSUME NEW p \in Processes, CloseChannel(p) PROVE RowFollowsCall'
  BY <1>13 DEF CloseChannel, Fault, Requeue, call, rows
<1>14. ASSUME NEW gone \in SUBSET Processes, RestartBroker(gone)
       PROVE RowFollowsCall'
  BY <1>14 DEF RestartBroker, Fault, Die, Fallen, call, rows
<1>15. ASSUME NEW p \in Processes, SendFails(p) PROVE RowFollowsCall'
  BY <1>15 DEF SendFails, Exit, Die, Requeue, Fallen, call, rows
<1>16. ASSUME NEW p \in Processes, Restart(p) PROVE RowFollowsCall'
  BY <1>16 DEF Restart, call, rows, broker
<1>17. CASE UNCHANGED vars
  BY <1>17 DEF vars
<1> QED
  BY <1>1, <1>2, <1>3, <1>4, <1>5, <1>6, <1>7, <1>8, <1>9, <1>10, <1>11,
     <1>12, <1>13, <1>14, <1>15, <1>16, <1>17
    DEF Next, Request, Transport, Handle, Recover, Disturbance

\* Events are published when the call ends, and a call that has ended stays so.
LEMMA EventsStep ==
  ASSUME TypeOK, RowFollowsCall, EventsFollowCall, [Next]_vars
  PROVE  EventsFollowCall'
<1> USE FlowAssumption DEF TypeOK, RowFollowsCall, EventsFollowCall, Earned,
           Stages, OrderStatus, Events, Tasks
<1>1. ASSUME NEW o \in Orders, NEW p \in Workers, NEW a \in Amounts, Receive(o, p, a)
      PROVE EventsFollowCall'
  BY <1>1 DEF Receive, rows, broker
<1>2. ASSUME NEW o \in Orders, InsertOrder(o) PROVE EventsFollowCall'
  BY <1>2 DEF InsertOrder, call, broker
<1>3. ASSUME NEW o \in Orders, FailOrder(o) PROVE EventsFollowCall'
  BY <1>3, Publication DEF FailOrder, Publish, call, rows, broker, Event
<1>4. ASSUME NEW o \in Orders, CompleteOrder(o) PROVE EventsFollowCall'
  BY <1>4 DEF CompleteOrder, call, broker
<1>5. ASSUME NEW o \in Orders, PublishApproval(o) PROVE EventsFollowCall'
  BY <1>5, Publication DEF PublishApproval, Publish, call, rows, broker, Event
<1>6. ASSUME NEW p \in Processes, NEW e \in Events, Send(p, e)
      PROVE EventsFollowCall'
  BY <1>6 DEF Send, call, rows, Event
<1>7. ASSUME NEW p \in Processes, NEW e \in Events, Deliver(p, e)
      PROVE EventsFollowCall'
  BY <1>7 DEF Deliver, Logged, call, Handler, Suspends
<1>8. ASSUME NEW p \in Processes, NEW e \in Events, Ack(p, e)
      PROVE EventsFollowCall'
  BY <1>8 DEF Ack, call, rows
<1>9. ASSUME NEW t \in tasks, FindOrder(t) PROVE EventsFollowCall'
  BY <1>9 DEF FindOrder, call, rows, broker
<1>10. ASSUME NEW t \in tasks, UpdateOrderStatus(t) PROVE EventsFollowCall'
  BY <1>10 DEF UpdateOrderStatus, call, broker
<1>11. ASSUME NEW t \in tasks, GenerateInvoice(t) PROVE EventsFollowCall'
  BY <1>11 DEF GenerateInvoice, call, broker
<1>12. ASSUME NEW p \in Processes, Crash(p) PROVE EventsFollowCall'
  BY <1>12 DEF Crash, Fault, Exit, Die, Requeue, Fallen, call, rows
<1>13. ASSUME NEW p \in Processes, CloseChannel(p) PROVE EventsFollowCall'
  BY <1>13 DEF CloseChannel, Fault, Requeue, call, rows
<1>14. ASSUME NEW gone \in SUBSET Processes, RestartBroker(gone)
       PROVE EventsFollowCall'
  BY <1>14 DEF RestartBroker, Fault, Die, Fallen, call, rows
<1>15. ASSUME NEW p \in Processes, SendFails(p) PROVE EventsFollowCall'
  BY <1>15 DEF SendFails, Exit, Die, Requeue, Fallen, call, rows
<1>16. ASSUME NEW p \in Processes, Restart(p) PROVE EventsFollowCall'
  BY <1>16 DEF Restart, call, rows, broker
<1>17. CASE UNCHANGED vars
  BY <1>17 DEF vars
<1> QED
  BY <1>1, <1>2, <1>3, <1>4, <1>5, <1>6, <1>7, <1>8, <1>9, <1>10, <1>11,
     <1>12, <1>13, <1>14, <1>15, <1>16, <1>17
    DEF Next, Request, Transport, Handle, Recover, Disturbance

\* Messages move from place to place, and what is published is new.
LEMMA CopyStep ==
  ASSUME TypeOK, RowFollowsCall, EventsFollowCall, SingleCopy, ProcessesHold, [Next]_vars
  PROVE  SingleCopy'
<1> USE FlowAssumption DEF TypeOK, SingleCopy
<1>1. ASSUME NEW o \in Orders, NEW p \in Workers, NEW a \in Amounts, Receive(o, p, a)
      PROVE SingleCopy'
  BY <1>1 DEF Receive, rows, broker
<1>2. ASSUME NEW o \in Orders, InsertOrder(o) PROVE SingleCopy'
  BY <1>2 DEF InsertOrder, call, broker
<1>3. ASSUME NEW o \in Orders, FailOrder(o) PROVE SingleCopy'
  BY <1>3, Publication DEF FailOrder, Publish, call, rows, broker, Event, EventsFollowCall, Earned,
     Events
<1>4. ASSUME NEW o \in Orders, CompleteOrder(o) PROVE SingleCopy'
  BY <1>4 DEF CompleteOrder, call, broker
<1>5. ASSUME NEW o \in Orders, PublishApproval(o) PROVE SingleCopy'
  BY <1>5, Publication DEF PublishApproval, Publish, call, rows, broker, Event, EventsFollowCall,
     Earned, Events
<1>6. ASSUME NEW p \in Processes, NEW e \in Events, Send(p, e) PROVE SingleCopy'
  BY <1>6 DEF Send, call, rows, Event
<1>7. ASSUME NEW p \in Processes, NEW e \in Events, Deliver(p, e)
      PROVE SingleCopy'
  BY <1>7 DEF Deliver, Logged, call, Handler, Suspends
<1>8. ASSUME NEW p \in Processes, NEW e \in Events, Ack(p, e) PROVE SingleCopy'
  BY <1>8 DEF Ack, call, rows
<1>9. ASSUME NEW t \in tasks, FindOrder(t) PROVE SingleCopy'
  BY <1>9 DEF FindOrder, call, rows, broker
<1>10. ASSUME NEW t \in tasks, UpdateOrderStatus(t) PROVE SingleCopy'
  BY <1>10 DEF UpdateOrderStatus, call, broker
<1>11. ASSUME NEW t \in tasks, GenerateInvoice(t) PROVE SingleCopy'
  BY <1>11 DEF GenerateInvoice, call, broker
<1>12. ASSUME NEW p \in Processes, Crash(p) PROVE SingleCopy'
  BY <1>12 DEF Crash, Fault, Exit, Die, Requeue, Fallen, call, rows
<1>13. ASSUME NEW p \in Processes, CloseChannel(p) PROVE SingleCopy'
  BY <1>13 DEF CloseChannel, Fault, Requeue, call, rows
<1>14. ASSUME NEW gone \in SUBSET Processes, RestartBroker(gone) PROVE SingleCopy'
  BY <1>14 DEF RestartBroker, Fault, Die, Fallen, call, rows
<1>15. ASSUME NEW p \in Processes, SendFails(p) PROVE SingleCopy'
  BY <1>15 DEF SendFails, Exit, Die, Requeue, Fallen, call, rows
<1>16. ASSUME NEW p \in Processes, Restart(p) PROVE SingleCopy'
  BY <1>16 DEF Restart, call, rows, broker
<1>17. CASE UNCHANGED vars
  BY <1>17 DEF vars
<1> QED
  BY <1>1, <1>2, <1>3, <1>4, <1>5, <1>6, <1>7, <1>8, <1>9, <1>10, <1>11,
     <1>12, <1>13, <1>14, <1>15, <1>16, <1>17
    DEF Next, Request, Transport, Handle, Recover, Disturbance

\* What a process holds goes with its channel and with the process.
LEMMA HoldStep ==
  ASSUME TypeOK, RowFollowsCall, ProcessesHold, [Next]_vars
  PROVE  ProcessesHold'
<1> USE FlowAssumption DEF TypeOK, ProcessesHold, Tasks
<1>1. ASSUME NEW o \in Orders, NEW p \in Workers, NEW a \in Amounts, Receive(o, p, a)
      PROVE ProcessesHold'
  BY <1>1 DEF Receive, rows, broker
<1>2. ASSUME NEW o \in Orders, InsertOrder(o) PROVE ProcessesHold'
  BY <1>2 DEF InsertOrder, call, broker
<1>3. ASSUME NEW o \in Orders, FailOrder(o) PROVE ProcessesHold'
  BY <1>3, Publication, EventType DEF FailOrder, Publish, call, rows, broker, RowFollowsCall
<1>4. ASSUME NEW o \in Orders, CompleteOrder(o) PROVE ProcessesHold'
  BY <1>4 DEF CompleteOrder, call, broker
<1>5. ASSUME NEW o \in Orders, PublishApproval(o) PROVE ProcessesHold'
  BY <1>5, Publication, EventType DEF PublishApproval, Publish, call, rows, broker, RowFollowsCall
<1>6. ASSUME NEW p \in Processes, NEW e \in Events, Send(p, e)
      PROVE ProcessesHold'
  BY <1>6 DEF Send, call, rows, Event
<1>7. ASSUME NEW p \in Processes, NEW e \in Events, Deliver(p, e)
      PROVE ProcessesHold'
  BY <1>7 DEF Deliver, Logged, call, Handler, Suspends
<1>8. ASSUME NEW p \in Processes, NEW e \in Events, Ack(p, e) PROVE ProcessesHold'
  BY <1>8 DEF Ack, call, rows
<1>9. ASSUME NEW t \in tasks, FindOrder(t) PROVE ProcessesHold'
  BY <1>9 DEF FindOrder, call, rows, broker
<1>10. ASSUME NEW t \in tasks, UpdateOrderStatus(t) PROVE ProcessesHold'
  BY <1>10 DEF UpdateOrderStatus, call, broker
<1>11. ASSUME NEW t \in tasks, GenerateInvoice(t) PROVE ProcessesHold'
  BY <1>11 DEF GenerateInvoice, call, broker
<1>12. ASSUME NEW p \in Processes, Crash(p) PROVE ProcessesHold'
  BY <1>12 DEF Crash, Fault, Exit, Die, Requeue, Fallen, call, rows
<1>13. ASSUME NEW p \in Processes, CloseChannel(p) PROVE ProcessesHold'
  BY <1>13 DEF CloseChannel, Fault, Requeue, call, rows
<1>14. ASSUME NEW gone \in SUBSET Processes, RestartBroker(gone)
       PROVE ProcessesHold'
  BY <1>14 DEF RestartBroker, Fault, Die, Fallen, call, rows
<1>15. ASSUME NEW p \in Processes, SendFails(p) PROVE ProcessesHold'
  BY <1>15 DEF SendFails, Exit, Die, Requeue, Fallen, call, rows
<1>16. ASSUME NEW p \in Processes, Restart(p) PROVE ProcessesHold'
  BY <1>16 DEF Restart, call, rows, broker
<1>17. CASE UNCHANGED vars
  BY <1>17 DEF vars
<1> QED
  BY <1>1, <1>2, <1>3, <1>4, <1>5, <1>6, <1>7, <1>8, <1>9, <1>10, <1>11,
     <1>12, <1>13, <1>14, <1>15, <1>16, <1>17
    DEF Next, Request, Transport, Handle, Recover, Disturbance

\* A step that starts no handler and inserts no invoice keeps an order within
\* its account, if it is a fault or brings no delivery back.
LEMMA AccountKept ==
  ASSUME TypeOK, TypeOK', InvoicesAccounted, NEW o \in Orders,
         tasks' \subseteq tasks, invoices' = invoices,
         \/ faults' = faults /\ (Awaited(o)' => Awaited(o))
         \/ faults' = faults + 1
  PROVE  Account(o)' <= 1 + faults'
<1>1. /\ IsFiniteSet(InvoiceTasks(o))
      /\ Cardinality(InvoiceTasks(o)) \in Nat
  BY SmallerSet DEF InvoicesAccounted, InvoiceTasks
<1>2. InvoiceTasks(o)' \subseteq InvoiceTasks(o)
  BY DEF InvoiceTasks
<1>3. /\ Cardinality(InvoiceTasks(o)') <= Cardinality(InvoiceTasks(o))
      /\ Cardinality(InvoiceTasks(o)') \in Nat
  BY <1>1, <1>2, SmallerSet
<1>4. /\ invoices[o] \in Nat
      /\ faults \in Nat
      /\ Account(o) <= 1 + faults
  BY DEF TypeOK, InvoicesAccounted
<1> QED
  BY <1>1, <1>3, <1>4 DEF Account

\* A delivery turns the awaited delivery into a handler.
LEMMA DeliverAccounted ==
  ASSUME TypeOK, EventsFollowCall, SingleCopy, InvoicesAccounted, NEW o \in Orders,
         NEW p \in Processes, NEW e \in Events, Deliver(p, e)
  PROVE  Account(o)' <= 1 + faults'
<1> DEFINE t == Handler(p, e)
<1>1. /\ IsFiniteSet(InvoiceTasks(o))
      /\ Cardinality(InvoiceTasks(o)) \in Nat
  BY SmallerSet DEF InvoicesAccounted, InvoiceTasks
<1>2. /\ invoices[o] \in Nat
      /\ faults \in Nat
      /\ Account(o) <= 1 + faults
      /\ invoices' = invoices
      /\ faults' = faults
  BY DEF TypeOK, InvoicesAccounted, Deliver, Logged
<1>3. CASE e = Event("invoice", o)
  <2>1. Awaited(o)
    BY <1>3 DEF Deliver, Logged, Awaited
  <2>2. ~Awaited(o)'
    <3>1. stage'[o] = "answered"
      BY <1>3 DEF Deliver, Logged, EventsFollowCall, Earned, Event
    <3> QED
      BY <1>3, <3>1 DEF Deliver, Logged, Awaited, SingleCopy, TypeOK
  <2>3. InvoiceTasks(o)' \subseteq InvoiceTasks(o) \cup {t}
    BY DEF InvoiceTasks, Deliver, Logged
  <2>4. /\ Cardinality(InvoiceTasks(o)') \in Nat
        /\ Cardinality(InvoiceTasks(o)') <= Cardinality(InvoiceTasks(o)) + 1
    <3> HIDE DEF t
    <3>1. /\ IsFiniteSet(InvoiceTasks(o) \cup {t})
          /\ Cardinality(InvoiceTasks(o) \cup {t}) <= Cardinality(InvoiceTasks(o)) + 1
      BY <1>1, OneMore
    <3>2. /\ Cardinality(InvoiceTasks(o)') \in Nat
          /\ Cardinality(InvoiceTasks(o)') <= Cardinality(InvoiceTasks(o) \cup {t})
          /\ Cardinality(InvoiceTasks(o) \cup {t}) \in Nat
      BY <2>3, <3>1, SmallerSet
    <3> QED
      BY <1>1, <3>1, <3>2
  <2> QED
    BY <1>1, <1>2, <2>1, <2>2, <2>4 DEF Account
<1>4. CASE e # Event("invoice", o)
  <2>1. InvoiceTasks(o)' = InvoiceTasks(o)
    BY <1>4 DEF InvoiceTasks, Deliver, Logged, Handler
  <2>2. Awaited(o)' => Awaited(o)
    BY DEF Deliver, Logged, Awaited
  <2> QED
    BY <1>1, <1>2, <2>1, <2>2 DEF Account
<1> QED
  BY <1>3, <1>4

\* Fetching the row changes a handler, not the number of handlers.
LEMMA FindOrderAccounted ==
  ASSUME TypeOK, InvoicesAccounted, NEW o \in Orders, NEW t \in tasks, FindOrder(t)
  PROVE  Account(o)' <= 1 + faults'
<1> DEFINE u == [t EXCEPT !.seen = orders[t.event.order]]
           T == InvoiceTasks(o)
<1>1. IsFiniteSet(T) /\ Cardinality(T) \in Nat
  BY SmallerSet DEF InvoicesAccounted, InvoiceTasks
<1>2. /\ invoices[o] \in Nat
      /\ faults \in Nat
      /\ Account(o) <= 1 + faults
      /\ invoices' = invoices
      /\ faults' = faults
      /\ Awaited(o)' = Awaited(o)
  BY DEF TypeOK, InvoicesAccounted, FindOrder, rows, broker, Awaited
<1>3. IF t \in T THEN InvoiceTasks(o)' \subseteq (T \ {t}) \cup {u}
                 ELSE InvoiceTasks(o)' \subseteq T
  BY DEF InvoiceTasks, FindOrder, TypeOK, Tasks
<1>4. Cardinality(InvoiceTasks(o)') \in Nat /\ Cardinality(InvoiceTasks(o)') <= Cardinality(T)
  <2> HIDE DEF T, u
  <2>1. CASE t \in T
    <3>1. /\ IsFiniteSet((T \ {t}) \cup {u})
          /\ Cardinality((T \ {t}) \cup {u}) <= Cardinality(T)
      BY <1>1, <2>1, Exchanged
    <3> DEFINE R == (T \ {t}) \cup {u}
    <3> HIDE DEF R
    <3>2. /\ Cardinality(R) \in Nat
          /\ Cardinality(InvoiceTasks(o)') \in Nat
          /\ Cardinality(InvoiceTasks(o)') <= Cardinality(R)
      BY <1>3, <2>1, <3>1, SmallerSet DEF R
    <3> QED
      BY <1>1, <3>1, <3>2 DEF R
  <2>2. CASE t \notin T
    BY <1>1, <1>3, <2>2, SmallerSet
  <2> QED
    BY <2>1, <2>2
<1> QED
  BY <1>1, <1>2, <1>4 DEF Account

\* Inserting the invoice turns a handler into an invoice.
LEMMA GenerateInvoiceAccounted ==
  ASSUME TypeOK, InvoicesAccounted, NEW o \in Orders, NEW t \in tasks, GenerateInvoice(t)
  PROVE  Account(o)' <= 1 + faults'
<1> DEFINE T == InvoiceTasks(o)
<1>1. IsFiniteSet(T) /\ Cardinality(T) \in Nat
  BY SmallerSet DEF InvoicesAccounted, InvoiceTasks
<1>2. /\ invoices[o] \in Nat
      /\ faults \in Nat
      /\ Account(o) <= 1 + faults
      /\ faults' = faults
      /\ Awaited(o)' = Awaited(o)
  BY DEF TypeOK, InvoicesAccounted, GenerateInvoice, call, broker, Awaited
<1>3. InvoiceTasks(o)' = T \ {t}
  BY DEF InvoiceTasks, GenerateInvoice
<1>4. Cardinality(InvoiceTasks(o)') = Cardinality(T) - (IF t \in T THEN 1 ELSE 0)
  <2> HIDE DEF T
  <2>1. CASE t \in T
    BY <1>1, <1>3, <2>1, OneLess
  <2>2. CASE t \notin T
    <3>1. T \ {t} = T
      BY <2>2
    <3> QED
      BY <1>1, <1>3, <2>2, <3>1
  <2> QED
    BY <2>1, <2>2
<1>5. t \in T <=> t.event.order = o
  BY DEF InvoiceTasks, GenerateInvoice, TypeOK, Tasks, Events, Event
<1>6. invoices'[o] = invoices[o] + (IF t \in T THEN 1 ELSE 0)
  BY <1>5 DEF GenerateInvoice, TypeOK
<1> QED
  BY <1>1, <1>2, <1>4, <1>6 DEF Account

\* Every step keeps every order within its account.
LEMMA AccountStep ==
  ASSUME TypeOK, TypeOK', EventsFollowCall, SingleCopy, ProcessesHold,
         InvoicesAccounted, NEW q \in Orders, [Next]_vars
  PROVE  Account(q)' <= 1 + faults'
<1> USE FlowAssumption DEF TypeOK
<1>1. ASSUME NEW o \in Orders, NEW p \in Workers, NEW a \in Amounts, Receive(o, p, a)
      PROVE Account(q)' <= 1 + faults'
  <2>1. Awaited(q)' => Awaited(q)
    BY <1>1 DEF Receive, rows, broker, Awaited
  <2> QED
    BY <1>1, <2>1, AccountKept DEF Receive, rows, broker
<1>2. ASSUME NEW o \in Orders, InsertOrder(o) PROVE Account(q)' <= 1 + faults'
  <2>1. Awaited(q)' => Awaited(q)
    BY <1>2 DEF InsertOrder, call, broker, Awaited
  <2> QED
    BY <1>2, <2>1, AccountKept DEF InsertOrder, call, broker
<1>3. ASSUME NEW o \in Orders, FailOrder(o) PROVE Account(q)' <= 1 + faults'
  <2>1. Awaited(q)' => Awaited(q)
    BY <1>3, Publication DEF FailOrder, Publish, call, rows, broker, Event, Awaited
  <2> QED
    BY <1>3, Publication, <2>1, AccountKept DEF FailOrder, Publish, call, rows, broker, Event
<1>4. ASSUME NEW o \in Orders, CompleteOrder(o) PROVE Account(q)' <= 1 + faults'
  <2>1. Awaited(q)' => Awaited(q)
    BY <1>4 DEF CompleteOrder, call, broker, Awaited
  <2> QED
    BY <1>4, <2>1, AccountKept DEF CompleteOrder, call, broker
<1>5. ASSUME NEW o \in Orders, PublishApproval(o) PROVE Account(q)' <= 1 + faults'
  <2>1. Awaited(q)' => Awaited(q)
    BY <1>5, Publication DEF PublishApproval, Publish, call, rows, broker, Event, Awaited
  <2> QED
    BY <1>5, Publication, <2>1, AccountKept DEF PublishApproval, Publish, call, rows, broker, Event
<1>6. ASSUME NEW p \in Processes, NEW e \in Events, Send(p, e)
      PROVE Account(q)' <= 1 + faults'
  <2>1. Awaited(q)' => Awaited(q)
    BY <1>6 DEF Send, call, rows, Event, Awaited
  <2> QED
    BY <1>6, <2>1, AccountKept DEF Send, call, rows, Event
<1>7. ASSUME NEW p \in Processes, NEW e \in Events, Deliver(p, e)
      PROVE Account(q)' <= 1 + faults'
  BY <1>7, DeliverAccounted
<1>8. ASSUME NEW p \in Processes, NEW e \in Events, Ack(p, e)
      PROVE Account(q)' <= 1 + faults'
  <2>1. Awaited(q)' => Awaited(q)
    BY <1>8 DEF Ack, call, rows, Awaited
  <2> QED
    BY <1>8, <2>1, AccountKept DEF Ack, call, rows
<1>9. ASSUME NEW t \in tasks, FindOrder(t) PROVE Account(q)' <= 1 + faults'
  BY <1>9, FindOrderAccounted
<1>10. ASSUME NEW t \in tasks, UpdateOrderStatus(t)
       PROVE Account(q)' <= 1 + faults'
  <2>1. Awaited(q)' => Awaited(q)
    BY <1>10 DEF UpdateOrderStatus, call, broker, Awaited
  <2> QED
    BY <1>10, <2>1, AccountKept DEF UpdateOrderStatus, call, broker
<1>11. ASSUME NEW t \in tasks, GenerateInvoice(t) PROVE Account(q)' <= 1 + faults'
  BY <1>11, GenerateInvoiceAccounted
<1>12. ASSUME NEW p \in Processes, Crash(p) PROVE Account(q)' <= 1 + faults'
  BY <1>12, AccountKept DEF Crash, Fault, Exit, Die, Requeue, Fallen, call, rows
<1>13. ASSUME NEW p \in Processes, CloseChannel(p)
       PROVE Account(q)' <= 1 + faults'
  BY <1>13, AccountKept DEF CloseChannel, Fault, Requeue, call, rows
<1>14. ASSUME NEW gone \in SUBSET Processes, RestartBroker(gone)
       PROVE Account(q)' <= 1 + faults'
  BY <1>14, AccountKept DEF RestartBroker, Fault, Die, Fallen, call, rows
<1>15. ASSUME NEW p \in Processes, SendFails(p) PROVE Account(q)' <= 1 + faults'
  <2>1. Awaited(q)' => Awaited(q)
    BY <1>15 DEF SendFails, Exit, Die, Requeue, Fallen, call, rows, Awaited,
       ProcessesHold
  <2> QED
    BY <1>15, <2>1, AccountKept DEF SendFails, Exit, Die, Requeue, Fallen,
       call, rows
<1>16. ASSUME NEW p \in Processes, Restart(p) PROVE Account(q)' <= 1 + faults'
  <2>1. Awaited(q)' => Awaited(q)
    BY <1>16 DEF Restart, call, rows, broker, Awaited
  <2> QED
    BY <1>16, <2>1, AccountKept DEF Restart, call, rows, broker
<1>17. CASE UNCHANGED vars
  <2>1. Awaited(q)' = Awaited(q)
    BY <1>17 DEF vars, Awaited
  <2> QED
    BY <1>17, <2>1, AccountKept DEF vars
<1> QED
  BY <1>1, <1>2, <1>3, <1>4, <1>5, <1>6, <1>7, <1>8, <1>9, <1>10, <1>11,
     <1>12, <1>13, <1>14, <1>15, <1>16, <1>17
    DEF Next, Request, Transport, Handle, Recover, Disturbance

\* Handlers are started one at a time.
LEMMA TasksStayFinite ==
  ASSUME IsFiniteSet(tasks), [Next]_vars
  PROVE  IsFiniteSet(tasks')
<1>1. \E x : tasks' \subseteq tasks \cup {x}
  BY DEF Next, vars, Request, Transport, Handle, Recover, Disturbance,
         Receive, InsertOrder, FailOrder, CompleteOrder, PublishApproval, Send,
         Deliver, Ack, FindOrder, UpdateOrderStatus, GenerateInvoice, Crash,
         CloseChannel, RestartBroker, SendFails, Restart, Exit, Die
<1>2. PICK x : tasks' \subseteq tasks \cup {x}
  BY <1>1
<1>3. IsFiniteSet(tasks \cup {x})
  BY OneMore
<1> QED
  BY <1>2, <1>3, SmallerSet

-----------------------------------------------------------------------------
(* The inductive invariant *)

\* Nothing has happened yet: every part holds.
LEMMA FlowInit ==
  ASSUME Init
  PROVE  FlowInvariant
<1> USE FlowAssumption DEF Init
<1>1. TypeOK
  BY DEF TypeOK, Stages
<1>2. RowFollowsCall
  BY DEF RowFollowsCall
<1>3. EventsFollowCall
  BY DEF EventsFollowCall
<1>4. SingleCopy /\ ProcessesHold
  BY DEF SingleCopy, ProcessesHold
<1>5. InvoicesAccounted
  <2>1. ASSUME NEW o \in Orders PROVE Account(o) <= 1 + faults
    <3>1. InvoiceTasks(o) = {}
      BY DEF InvoiceTasks
    <3> QED
      BY <3>1, FS_EmptySet DEF Account, Awaited
  <2> QED
    BY <2>1, FS_EmptySet DEF InvoicesAccounted
<1> QED
  BY <1>1, <1>2, <1>3, <1>4, <1>5 DEF FlowInvariant

\* The parts are inductive together.
LEMMA FlowStep ==
  ASSUME FlowInvariant, [Next]_vars
  PROVE  FlowInvariant'
<1> USE DEF FlowInvariant
<1>1. TypeOK'
  BY TypeStep
<1>2. RowFollowsCall'
  BY RowStep
<1>3. EventsFollowCall'
  BY EventsStep
<1>4. SingleCopy'
  BY CopyStep
<1>5. ProcessesHold'
  BY HoldStep
<1>6. InvoicesAccounted'
  BY <1>1, AccountStep, TasksStayFinite DEF InvoicesAccounted
<1> QED
  BY <1>1, <1>2, <1>3, <1>4, <1>5, <1>6

\* The invariant holds in every reachable state, whatever crashes, closes or
\* restarts.
THEOREM FlowInvariantHolds == Spec => []FlowInvariant
  BY FlowInit, FlowStep, PTL DEF Spec

-----------------------------------------------------------------------------
(* The results *)

\* Every variable stays in its type.
THEOREM TypeCorrect == Spec => []TypeOK
<1>1. FlowInvariant => TypeOK
  BY DEF FlowInvariant
<1> QED
  BY <1>1, FlowInvariantHolds, PTL

\* No order is billed before its row says COMPLETED, and none without a
\* positive amount.
THEOREM BillingFollowsCompletion == Spec => []InvoicedOnlyIfCompleted
<1>1. FlowInvariant => InvoicedOnlyIfCompleted
  BY DEF FlowInvariant, InvoicedOnlyIfCompleted, EventsFollowCall, RowFollowsCall
<1> QED
  BY <1>1, FlowInvariantHolds, PTL

\* An order has at most one invoice more than there have been faults.
THEOREM DuplicatesAreBounded == Spec => []DuplicatesBoundedByFaults
<1>1. ASSUME FlowInvariant, NEW o \in Orders PROVE invoices[o] <= 1 + faults
  <2>1. IsFiniteSet(InvoiceTasks(o)) /\ Cardinality(InvoiceTasks(o)) \in Nat
    BY <1>1, SmallerSet DEF FlowInvariant, InvoicesAccounted, InvoiceTasks
  <2> QED
    BY <1>1, <2>1 DEF FlowInvariant, TypeOK, InvoicesAccounted, Account
<1>2. FlowInvariant => DuplicatesBoundedByFaults
  BY <1>1 DEF DuplicatesBoundedByFaults
<1> QED
  BY <1>2, FlowInvariantHolds, PTL

\* No step takes a row out of COMPLETED.
THEOREM CompletionStays == Spec => CompletionIsFinal
<1>1. ASSUME FlowInvariant, [Next]_vars
      PROVE  \A o \in Orders : orders[o] = "COMPLETED" => orders'[o] = "COMPLETED"
  <2> USE <1>1 DEF FlowInvariant, TypeOK
  <2>1. ASSUME NEW t \in tasks, UpdateOrderStatus(t)
        PROVE  \A o \in Orders : orders[o] = "COMPLETED" => orders'[o] = "COMPLETED"
    BY <2>1 DEF UpdateOrderStatus, EventsFollowCall
  <2>2. ASSUME NEW x \in Orders, InsertOrder(x) \/ CompleteOrder(x)
        PROVE  \A o \in Orders : orders[o] = "COMPLETED" => orders'[o] = "COMPLETED"
    BY <2>2 DEF InsertOrder, CompleteOrder, RowFollowsCall
  <2>3. CASE UNCHANGED orders
    BY <2>3
  <2> QED
    BY <1>1, <2>1, <2>2, <2>3
       DEF Next, vars, Request, Transport, Handle, Recover, Disturbance, Receive,
           FailOrder, PublishApproval, Publish, Send, Deliver, Logged, Ack, FindOrder,
           GenerateInvoice, Crash, CloseChannel, RestartBroker, SendFails,
           Restart, Exit, Die, rows
<1> QED
  BY <1>1, FlowInvariantHolds, PTL DEF Spec, CompletionIsFinal

\* The pipeline implements OrderLedger: each step of it is a step of the
\* ledger, or one the ledger does not see.
THEOREM FlowImplementsLedger == Spec => ImplementsLedger
<1>1. Init => Ledger!Init
  BY DEF Init, Ledger!Init
<1>2. ASSUME FlowInvariant, [Next]_vars
      PROVE  [Ledger!Next]_(Ledger!ledgerVars)
  <2> USE <1>2 DEF FlowInvariant, TypeOK, Ledger!Next, Ledger!ledgerVars
  <2>1. ASSUME NEW o \in Orders, InsertOrder(o)
        PROVE  [Ledger!Next]_(Ledger!ledgerVars)
    BY <2>1 DEF InsertOrder, RowFollowsCall, Ledger!Place
  <2>2. ASSUME NEW o \in Orders, CompleteOrder(o)
        PROVE  [Ledger!Next]_(Ledger!ledgerVars)
    BY <2>2 DEF CompleteOrder, RowFollowsCall, Ledger!Complete
  <2>3. ASSUME NEW t \in tasks, UpdateOrderStatus(t)
        PROVE  [Ledger!Next]_(Ledger!ledgerVars)
    <3>1. orders' = orders
      BY <2>3 DEF UpdateOrderStatus, EventsFollowCall, Earned, RowFollowsCall,
                  Tasks, Events
    <3> QED
      BY <2>3, <3>1 DEF UpdateOrderStatus
  <2>4. ASSUME NEW t \in tasks, GenerateInvoice(t)
        PROVE  [Ledger!Next]_(Ledger!ledgerVars)
    <3> DEFINE o == t.event.order
    <3>1. o \in Orders /\ orders[o] = "COMPLETED"
      BY <2>4 DEF GenerateInvoice, EventsFollowCall, Earned, RowFollowsCall,
                  Tasks, Events
    <3>2. t \in InvoiceTasks(o) /\ IsFiniteSet(InvoiceTasks(o))
      BY <2>4, SmallerSet DEF GenerateInvoice, InvoiceTasks, InvoicesAccounted,
                              Tasks, Events, Event
    <3>3. Cardinality(InvoiceTasks(o)) \in Nat /\ Cardinality(InvoiceTasks(o)) # 0
      BY <3>2, FS_EmptySet, FS_CardinalityType
    <3>4. invoices[o] <= faults
      BY <3>1, <3>3 DEF InvoicesAccounted, Account
    <3> QED
      BY <2>4, <3>1, <3>4 DEF GenerateInvoice, Ledger!Bill
  <2>5. ASSUME Disturbance
        PROVE  [Ledger!Next]_(Ledger!ledgerVars)
    BY <2>5 DEF Disturbance, Crash, CloseChannel, RestartBroker, Fault, Exit,
                Die, rows, Ledger!Disturb
  <2>6. CASE UNCHANGED <<orders, invoices, faults>>
    BY <2>6
  <2> QED
    BY <1>2, <2>1, <2>2, <2>3, <2>4, <2>5, <2>6
       DEF Next, vars, Request, Transport, Handle, Recover, Receive, FailOrder,
           PublishApproval, Publish, Send, Deliver, Logged, Ack, FindOrder, SendFails, Restart,
           Exit, Die, rows
<1> QED
  BY <1>1, <1>2, FlowInvariantHolds, PTL DEF Spec, ImplementsLedger, Ledger!Spec
-----------------------------------------------------------------------------
(* Without faults nothing is lost *)

\* Is the invoice of o still to come, under way, or written?
Kept(o) == Awaited(o) \/ InvoiceTasks(o) # {} \/ invoices[o] > 0

\* Is the failure of o, if it has failed, on its way or logged?
FailureKept(o) ==
  stage[o] = "failed" =>
    \/ o \in notified
    \/ Event("failed", o) \in ready
    \/ \E p \in Processes : Event("failed", o) \in outbox[p]

\* NothingIsLost without its upper bound, which InvoicesAccounted gives.
Undisturbed ==
  faults = 0 =>
    /\ \A p \in Processes : proc[p] = "up"
    /\ \A o \in Orders : stage[o] # "lost" /\ Kept(o) /\ FailureKept(o)

\* No step takes a fault back.
LEMMA FaultsGrow ==
  ASSUME TypeOK, [Next]_vars
  PROVE  faults' \in {faults, faults + 1}
<1>1. CASE UNCHANGED faults
  BY <1>1 DEF TypeOK
<1>2. CASE Disturbance
  BY <1>2 DEF Disturbance, Crash, CloseChannel, RestartBroker, Fault, TypeOK
<1> QED
  BY <1>1, <1>2 DEF Next, vars, Request, Transport, Handle, Recover,
       Receive, InsertOrder, FailOrder, CompleteOrder, PublishApproval, Send,
       Deliver, Ack, FindOrder, UpdateOrderStatus, GenerateInvoice, SendFails,
       Restart

\* Nothing forgets an invoice that is due: the last event of a call puts it in
\* an outbox, its delivery starts a handler because an approved amount is
\* positive, and the handler ends in a row.
LEMMA InvoiceKept ==
  ASSUME TypeOK, RowFollowsCall, EventsFollowCall, Undisturbed,
         NEW q \in Orders, [Next]_vars, faults' = 0
  PROVE  Kept(q)'
<1> USE FlowAssumption DEF TypeOK
<1>1. /\ faults = 0
      /\ Kept(q)
      /\ \A p \in Processes : proc[p] = "up"
  BY FaultsGrow DEF Undisturbed, TypeOK
<1>2. ASSUME tasks' = tasks, invoices' = invoices, Awaited(q) => Awaited(q)'
      PROVE  Kept(q)'
  BY <1>1, <1>2 DEF Kept, InvoiceTasks
<1>3. ASSUME NEW o \in Orders, NEW p \in Workers, NEW a \in Amounts, Receive(o, p, a)
      PROVE Kept(q)'
  BY <1>2, <1>3 DEF Receive, rows, broker, Awaited
<1>4. ASSUME NEW o \in Orders, InsertOrder(o) PROVE Kept(q)'
  BY <1>2, <1>4 DEF InsertOrder, call, broker, Awaited
<1>5. ASSUME NEW o \in Orders, FailOrder(o) PROVE Kept(q)'
  BY <1>2, <1>5, Publication DEF FailOrder, Publish, call, rows, broker, Awaited
<1>6. ASSUME NEW o \in Orders, CompleteOrder(o) PROVE Kept(q)'
  BY <1>2, <1>6 DEF CompleteOrder, call, broker, Awaited
<1>7. ASSUME NEW o \in Orders, PublishApproval(o) PROVE Kept(q)'
  <2>1. at[o] \in Processes
    BY <1>7 DEF PublishApproval, RowFollowsCall
  <2>2. outbox' = [outbox EXCEPT ![at[o]] =
                     @ \cup {Event("status", o), Event("invoice", o)}]
    BY <1>7, Publication DEF PublishApproval, Publish
  <2>3. Awaited(q) => Awaited(q)'
    BY <1>7, <2>1, <2>2 DEF PublishApproval, rows, broker, Awaited
  <2> QED
    BY <1>2, <1>7, <2>3 DEF PublishApproval, rows
<1>8. ASSUME NEW p \in Processes, NEW e \in Events, Send(p, e) PROVE Kept(q)'
  BY <1>2, <1>8 DEF Send, call, rows, Awaited
<1>9. ASSUME NEW p \in Processes, NEW e \in Events, Deliver(p, e) PROVE Kept(q)'
  <2> USE <1>9 DEF Deliver
  <2>1. CASE e = Event("invoice", q)
    <3>1. amount[q] > 0
      BY <2>1 DEF EventsFollowCall, Earned, Event, RowFollowsCall
    <3>2. Suspends(e)
      BY <2>1, <3>1 DEF Suspends, Event
    <3>3. Handler(p, e) \in InvoiceTasks(q)'
      BY <2>1, <3>2 DEF InvoiceTasks, Handler
    <3> QED
      BY <3>3 DEF Kept
  <2>2. CASE e # Event("invoice", q)
    <3>1. Awaited(q) => Awaited(q)'
      BY <2>2 DEF Awaited
    <3>2. InvoiceTasks(q) \subseteq InvoiceTasks(q)'
      BY DEF InvoiceTasks
    <3> QED
      BY <1>1, <3>1, <3>2 DEF Kept
  <2> QED
    BY <2>1, <2>2
<1>10. ASSUME NEW p \in Processes, NEW e \in Events, Ack(p, e) PROVE Kept(q)'
  BY <1>2, <1>10 DEF Ack, call, rows, Awaited
<1>11. ASSUME NEW t \in tasks, FindOrder(t) PROVE Kept(q)'
  <2> DEFINE u == [t EXCEPT !.seen = orders[t.event.order]]
  <2>1. u \in tasks' /\ u.event = t.event
    BY <1>11 DEF FindOrder, Tasks
  <2>2. InvoiceTasks(q) # {} => InvoiceTasks(q)' # {}
    BY <1>11, <2>1 DEF FindOrder, InvoiceTasks
  <2> QED
    BY <1>1, <1>11, <2>2 DEF FindOrder, call, rows, broker, Kept, Awaited
<1>12. ASSUME NEW t \in tasks, UpdateOrderStatus(t) PROVE Kept(q)'
  <2>1. InvoiceTasks(q)' = InvoiceTasks(q)
    BY <1>12 DEF UpdateOrderStatus, InvoiceTasks, Event
  <2> QED
    BY <1>1, <1>12, <2>1 DEF UpdateOrderStatus, call, broker, Kept, Awaited
<1>13. ASSUME NEW t \in tasks, GenerateInvoice(t) PROVE Kept(q)'
  <2> USE <1>13 DEF GenerateInvoice
  <2>1. CASE t.event.order = q
    BY <2>1 DEF Kept
  <2>2. CASE t.event.order # q
    <3>1. InvoiceTasks(q)' = InvoiceTasks(q)
      BY <2>2 DEF InvoiceTasks, Event
    <3> QED
      BY <1>1, <2>2, <3>1 DEF Kept, call, broker, Awaited
  <2> QED
    BY <2>1, <2>2
<1>14. CASE UNCHANGED vars
  BY <1>2, <1>14 DEF vars, Awaited
<1>15. ~Disturbance
  BY <1>1 DEF Disturbance, Crash, CloseChannel, RestartBroker, Fault
<1>16. ASSUME NEW p \in Processes PROVE ~Recover(p)
  BY <1>1 DEF Recover, SendFails, Restart
<1> QED
  BY <1>3, <1>4, <1>5, <1>6, <1>7, <1>8, <1>9, <1>10, <1>11, <1>12, <1>13,
     <1>14, <1>15, <1>16 DEF Next, Request, Transport, Handle

\* Nothing forgets a failure: its event is published, sent and logged.
LEMMA FailureStaysKept ==
  ASSUME TypeOK, RowFollowsCall, Undisturbed, NEW q \in Orders, [Next]_vars,
         faults' = 0
  PROVE  FailureKept(q)'
<1> USE FlowAssumption DEF TypeOK
<1>1. /\ faults = 0
      /\ FailureKept(q)
      /\ \A p \in Processes : proc[p] = "up"
  BY FaultsGrow DEF Undisturbed
<1>2. ASSUME stage' = stage, notified' = notified, outbox' = outbox, ready' = ready
      PROVE  FailureKept(q)'
  BY <1>1, <1>2 DEF FailureKept
<1>3. ASSUME NEW o \in Orders, NEW p \in Workers, NEW a \in Amounts, Receive(o, p, a)
      PROVE FailureKept(q)'
  BY <1>1, <1>3 DEF Receive, rows, broker, FailureKept
<1>4. ASSUME NEW o \in Orders, InsertOrder(o) \/ CompleteOrder(o) PROVE FailureKept(q)'
  BY <1>1, <1>4 DEF InsertOrder, CompleteOrder, broker, FailureKept
<1>5. ASSUME NEW o \in Orders, FailOrder(o) PROVE FailureKept(q)'
  <2>1. at[o] \in Processes
    BY <1>5 DEF FailOrder, RowFollowsCall
  <2>2. outbox' = [outbox EXCEPT ![at[o]] = @ \cup {Event("failed", o)}]
    BY <1>5, Publication DEF FailOrder, Publish
  <2> QED
    BY <1>1, <1>5, <2>1, <2>2 DEF FailOrder, rows, broker, FailureKept
<1>6. ASSUME NEW o \in Orders, PublishApproval(o) PROVE FailureKept(q)'
  <2>1. at[o] \in Processes
    BY <1>6 DEF PublishApproval, RowFollowsCall
  <2>2. outbox' = [outbox EXCEPT ![at[o]] =
                     @ \cup {Event("status", o), Event("invoice", o)}]
    BY <1>6, Publication DEF PublishApproval, Publish
  <2> QED
    BY <1>1, <1>6, <2>1, <2>2 DEF PublishApproval, rows, broker, FailureKept
<1>7. ASSUME NEW p \in Processes, NEW e \in Events, Send(p, e) PROVE FailureKept(q)'
  BY <1>1, <1>7 DEF Send, rows, FailureKept
<1>8. ASSUME NEW p \in Processes, NEW e \in Events, Deliver(p, e) PROVE FailureKept(q)'
  BY <1>1, <1>8 DEF Deliver, Logged, Event, FailureKept
<1>9. ASSUME NEW p \in Processes, NEW e \in Events, Ack(p, e) PROVE FailureKept(q)'
  BY <1>2, <1>9 DEF Ack, rows
<1>10. ASSUME NEW t \in tasks, Handle(t) PROVE FailureKept(q)'
  BY <1>2, <1>10 DEF Handle, FindOrder, UpdateOrderStatus, GenerateInvoice, rows, broker
<1>11. CASE UNCHANGED vars
  BY <1>2, <1>11 DEF vars
<1>12. ~Disturbance
  BY <1>1 DEF Disturbance, Crash, CloseChannel, RestartBroker, Fault
<1>13. ASSUME NEW p \in Processes PROVE ~Recover(p)
  BY <1>1 DEF Recover, SendFails, Restart
<1> QED
  BY <1>3, <1>4, <1>5, <1>6, <1>7, <1>8, <1>9, <1>10, <1>11, <1>12, <1>13
     DEF Next, Request, Transport

\* Before the first fault no process leaves "up" and no call is lost.
LEMMA UndisturbedStep ==
  ASSUME FlowInvariant, Undisturbed, [Next]_vars
  PROVE  Undisturbed'
<1> SUFFICES ASSUME faults' = 0
             PROVE  /\ \A p \in Processes : proc'[p] = "up"
                    /\ \A o \in Orders : stage'[o] # "lost" /\ Kept(o)' /\ FailureKept(o)'
  BY DEF Undisturbed
<1> USE DEF FlowInvariant
<1>1. /\ faults = 0
      /\ \A p \in Processes : proc[p] = "up"
      /\ \A o \in Orders : stage[o] # "lost"
  BY FaultsGrow DEF Undisturbed, TypeOK
<1>2. ~Disturbance /\ \A p \in Processes : ~Recover(p)
  BY <1>1 DEF Disturbance, Crash, CloseChannel, RestartBroker, Fault, Recover,
              SendFails, Restart
<1>3. proc' = proc
  BY <1>2 DEF Next, vars, Request, Transport, Handle, Receive, InsertOrder,
       FailOrder, CompleteOrder, PublishApproval, Send, Deliver, Ack, FindOrder,
       UpdateOrderStatus, GenerateInvoice
<1>4. \A o \in Orders : stage'[o] # "lost"
  BY <1>1, <1>2 DEF TypeOK, Next, vars, Request, Transport, Handle, Receive,
       InsertOrder, FailOrder, CompleteOrder, PublishApproval, Send, Deliver, Ack,
       FindOrder, UpdateOrderStatus, GenerateInvoice
<1>5. \A o \in Orders : Kept(o)' /\ FailureKept(o)'
  BY InvoiceKept, FailureStaysKept
<1> QED
  BY <1>1, <1>3, <1>4, <1>5

\* Before the first fault every invoice and every failure is where it should
\* be, although nothing is awaited or acknowledged late.
THEOREM UndisturbedLosesNothing == Spec => []NothingIsLost
<1>1. Init => Undisturbed
  BY DEF Init, Undisturbed, Kept, FailureKept, Awaited
<1>2. FlowInvariant /\ Undisturbed => NothingIsLost
  <2> SUFFICES ASSUME FlowInvariant, Undisturbed, faults = 0, NEW o \in Orders
               PROVE  Account(o) = 1
    BY DEF NothingIsLost, Undisturbed, FailureKept
  <2>1. /\ IsFiniteSet(InvoiceTasks(o))
        /\ Cardinality(InvoiceTasks(o)) \in Nat
        /\ Cardinality(InvoiceTasks(o)) = 0 => InvoiceTasks(o) = {}
    BY SmallerSet, FS_EmptySet DEF FlowInvariant, InvoicesAccounted, InvoiceTasks
  <2>2. Account(o) <= 1 /\ invoices[o] \in Nat /\ Kept(o)
    BY DEF FlowInvariant, InvoicesAccounted, TypeOK, Undisturbed
  <2> QED
    BY <2>1, <2>2 DEF Account, Kept
<1> QED
  BY <1>1, <1>2, FlowInvariantHolds, UndisturbedStep, PTL DEF Spec

\* Once nothing is in flight, every order that was answered with success has
\* exactly one invoice and every order that failed has been logged.
Settled ==
  faults = 0 /\ InFlight = {} =>
    \A o \in Orders :
      /\ stage[o] = "answered" => orders[o] = "COMPLETED" /\ invoices[o] = 1
      /\ stage[o] = "failed" => o \in notified

\* What OrdersSettle says will come is what holds when the queues are empty:
\* no invoice is missing or doubled, and no failure goes unnoticed.
THEOREM EmptyQueuesMeanSettled == Spec => []Settled
<1>1. FlowInvariant /\ NothingIsLost => Settled
  <2> SUFFICES ASSUME FlowInvariant, NothingIsLost, faults = 0, InFlight = {},
                      NEW o \in Orders
               PROVE  /\ stage[o] = "answered" => orders[o] = "COMPLETED" /\ invoices[o] = 1
                      /\ stage[o] = "failed" => o \in notified
    BY DEF Settled
  <2>1. /\ tasks = {}
        /\ ready = {}
        /\ \A p \in Processes : outbox[p] = {}
    BY DEF InFlight
  <2>2. ASSUME stage[o] = "answered"
        PROVE  orders[o] = "COMPLETED" /\ invoices[o] = 1
    <3>1. ~Awaited(o) /\ InvoiceTasks(o) = {}
      BY <2>1, <2>2 DEF Awaited, InvoiceTasks
    <3>2. Account(o) = invoices[o]
      BY <3>1, FS_EmptySet DEF Account, FlowInvariant, TypeOK
    <3> QED
      BY <2>2, <3>2 DEF NothingIsLost, FlowInvariant, RowFollowsCall
  <2>3. stage[o] = "failed" => o \in notified
    BY <2>1 DEF NothingIsLost
  <2> QED
    BY <2>2, <2>3
<1> QED
  BY <1>1, FlowInvariantHolds, UndisturbedLosesNothing, PTL

=============================================================================
