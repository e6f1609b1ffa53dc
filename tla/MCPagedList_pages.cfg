\* Two walks at once through two pages of up to three rows, one call of which fails.
SPECIFICATION Spec
CONSTANTS
  c1 = c1
  c2 = c2
  x1 = x1
  x2 = x2
  x3 = x3
  Clients = {c1, c2}
  Rows = {x1, x2, x3}
  Limit = 2
  MaxPage = 2
  MaxUpdates = 1
  MaxFails = 1
  Nothing = Nothing
SYMMETRY Symmetry
CHECK_DEADLOCK FALSE
INVARIANTS
  PagingInvariant
  NothingSkipped
  QueriedWalksAreSteady
  RepeatsBounded
