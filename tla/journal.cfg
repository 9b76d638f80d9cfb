SPECIFICATION FairSpec
CONSTANTS
  p1 = p1
  p2 = p2
  x1 = x1
  x2 = x2
  x3 = x3
  None = None
  Coordinators = {p1, p2}
  Txns = {x1, x2, x3}
  OwnerOf <- Owners
  RowCount = 2
PROPERTY ImplementsAtomicJournal
CHECK_DEADLOCK FALSE
