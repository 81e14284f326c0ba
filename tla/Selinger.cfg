CONSTANTS
  NumTables = 3
  Catalog <- MCCatalog
  Joins <- MCJoins
  Frac = 4
SPECIFICATION Spec
INVARIANTS NothingLost BestReturned Delivered
CHECK_DEADLOCK FALSE
