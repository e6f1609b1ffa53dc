\* Two callers, a task without an executor, and a thread that dies.
SPECIFICATION FairSpec
CONSTANTS
  c1 = c1
  c2 = c2
  Clients = {c1, c2}
  Calls = 3
  NumThreads = 2
  Rejected <- OneRejected
  Nothing = Nothing
  MaxErrors = 1
CHECK_DEADLOCK FALSE
INVARIANTS
  PoolInvariant
  SerialUseIsSound
PROPERTIES
  ImplementsPromises
  TasksSettle
