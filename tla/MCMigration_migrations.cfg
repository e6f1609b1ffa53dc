\* Two containers and two operators, one of whose processes may die.
SPECIFICATION FairSpec
CONSTANTS
  c1 = c1
  c2 = c2
  o1 = o1
  o2 = o2
  Containers = {c1, c2}
  Operators = {o1, o2}
  MaxFaults = 1
CHECK_DEADLOCK FALSE
INVARIANTS
  MigrationInvariant
  AllOrNothing
  AloneSucceeds
PROPERTIES
  ContainersStart
