\* Two list calls and an invalidation, one of them cut short.
SPECIFICATION FairSpec
CONSTANTS
  r1 = r1
  r2 = r2
  h1 = h1
  h2 = h2
  Readers = {r1,r2}
  Handlers = {h1}
  Queries = {q}
  Asked = {"orders","invoices","roles"}
  Nothing = Nothing
  MaxWrites = 1
  MaxAbandons = 1
CHECK_DEADLOCK FALSE
INVARIANTS
  CacheInvariant
  QuietInvalidationWorks
  OwnListServed
PROPERTIES
  OldListsDieOut
  EventuallyFresh
