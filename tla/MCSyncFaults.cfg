SPECIFICATION Spec
CONSTANTS
  r1 = r1  r2 = r2  r3 = r3  c1 = c1  c2 = c2  a1 = a1  a2 = a2  k1 = k1
  Requests = {r1, r2}
  Clients = {c1}
  Assets = {a1, a2}
  Categories = {k1}
  CategoryOf <- MCCategoryOf
  LastDay = 2
  None = None
  Undated = Undated
  MovementIds = {1, 2}
  Positions <- MCPositions
  Movements <- MCMovements
  Faults = TRUE
  LossyFetch = TRUE
  Serial = FALSE
SYMMETRY Symmetry
INVARIANTS TypeOK ForeignKeysHold MarkedDaysStored SyncedMeansMarked InsertedOncePerRequest
PROPERTY ImplementsContract
CHECK_DEADLOCK FALSE
