\* An order list and an invoice list asked for with the same query.
SPECIFICATION Spec
CONSTANTS
  r1 = r1
  r2 = r2
  h1 = h1
  h2 = h2
  Readers = {r1}
  Handlers = {h1}
  Queries = {q}
  Asked = {"orders", "invoices", "roles"}
  Nothing = Nothing
  MaxWrites = 1
  MaxAbandons = 0
CHECK_DEADLOCK FALSE
INVARIANTS
  AskedListServed
