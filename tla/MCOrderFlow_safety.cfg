\* Every kind of fault, twice, around one order among three processes.
SPECIFICATION Spec
CONSTANTS
  primary = primary
  w1 = w1
  w2 = w2
  o1 = o1
  o2 = o2
  Processes = {primary, w1, w2}
  Workers = {w1, w2}
  Nowhere = Nowhere
  Orders = {o1}
  Amounts <- MCAmounts
  CentsLimit = 1000
  Faults = {"crash", "close", "broker"}
  MaxFaults = 2
SYMMETRY WorkerSymmetry
CHECK_DEADLOCK FALSE
INVARIANTS
  FlowInvariant
  DuplicatesBoundedByFaults
PROPERTIES
  ImplementsLedger
