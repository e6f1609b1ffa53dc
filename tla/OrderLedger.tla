----------------------------- MODULE OrderLedger -----------------------------
(***************************************************************************)
(* What the order-to-invoice pipeline promises about the two tables it     *)
(* writes, with processes, messages and the broker left out: an order is   *)
(* placed, perhaps completed, and only then billed; each disturbance of    *)
(* the running system (a crash, a lost channel, a broker restart) can      *)
(* cause at most one more invoice for an order than it should have.        *)
(* OrderFlow implements this specification.                                *)
(***************************************************************************)
EXTENDS Naturals

CONSTANTS
  Orders       \* the orders that may ever be placed

VARIABLES
  status,      \* status[o]: the order's status column, "NONE" without a row
  invoices,    \* invoices[o]: how many invoice rows refer to the order
  disturbances \* how many disturbances there have been so far

ledgerVars == <<status, invoices, disturbances>>

Init ==
  /\ status = [o \in Orders |-> "NONE"]
  /\ invoices = [o \in Orders |-> 0]
  /\ disturbances = 0

Place(o) ==
  /\ status[o] = "NONE"
  /\ status' = [status EXCEPT ![o] = "PENDING"]
  /\ UNCHANGED <<invoices, disturbances>>

Complete(o) ==
  /\ status[o] = "PENDING"
  /\ status' = [status EXCEPT ![o] = "COMPLETED"]
  /\ UNCHANGED <<invoices, disturbances>>

Bill(o) ==
  /\ status[o] = "COMPLETED"
  /\ invoices[o] <= disturbances
  /\ invoices' = [invoices EXCEPT ![o] = @ + 1]
  /\ UNCHANGED <<status, disturbances>>

Disturb ==
  /\ disturbances' = disturbances + 1
  /\ UNCHANGED <<status, invoices>>

Next ==
  \/ \E o \in Orders : Place(o) \/ Complete(o) \/ Bill(o)
  \/ Disturb

Spec == Init /\ [][Next]_ledgerVars
=============================================================================
