\* A crash between the second save and the publication.
SPECIFICATION FairSpec
CONSTANTS
  primary = primary
  w1 = w1
  w2 = w2
  o1 = o1
  o2 = o2
  Processes = {primary, w1}
  Workers = {w1}
  Nowhere = Nowhere
  Orders = {o1}
  Amounts = {1000}
  CentsLimit = 1000
  Faults = {"crash"}
  MaxFaults = 1
CHECK_DEADLOCK FALSE
PROPERTIES
  CompletedOrdersAreInvoiced
