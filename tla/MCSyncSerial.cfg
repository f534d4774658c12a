SPECIFICATION FairSpec
CONSTANTS
  r1 = r1  r2 = r2  r3 = r3  c1 = c1  c2 = c2  a1 = a1  a2 = a2  k1 = k1
  Requests = {r1, r2}
  Clients = {c1, c2}
  Assets = {a1, a2}
  Categories = {k1}
  CategoryOf <- MCCategoryOf
  LastDay = 2
  None = None
  Undated = Undated
  MovementIds = {1, 2}
  Positions <- TwoPositions
  Movements <- TwoMovements
  Faults = FALSE
  LossyFetch = FALSE
  Serial = TRUE
INVARIANTS NoDuplicateTransactions MarkedDaysComplete
PROPERTY AskedDaysGetSynced
CHECK_DEADLOCK FALSE
