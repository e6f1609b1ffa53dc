\* Three faults and two signals at any time in the life of two workers.
SPECIFICATION FairSpec
CONSTANTS
  primary = primary
  w1 = w1
  w2 = w2
  Primary = primary
  Workers = {w1, w2}
  MaxFaults = 3
  MaxSignals = 2
CHECK_DEADLOCK FALSE
INVARIANTS
  BootInvariant
  EachQueueOnce
  CapacityKept
PROPERTIES
  ImplementsWorkerLife
  ClusterSettles
