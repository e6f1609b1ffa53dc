\* Two orders that share one worker and the primary, and a crash.
SPECIFICATION FairSpec
CONSTANTS
  primary = primary
  w1 = w1
  w2 = w2
  o1 = o1
  o2 = o2
  Processes = {primary, w1}
  Workers = {w1}
  Nowhere = Nowhere
  Orders = {o1, o2}
  Amounts = {0, 4}
  CentsLimit = 1000
  Faults = {"crash"}
  MaxFaults = 1
CHECK_DEADLOCK FALSE
INVARIANTS
  InvoicedOnlyIfCompleted
  NothingIsLost
PROPERTIES
  CompletionIsFinal
  OrdersSettle
  CrashesDrain
