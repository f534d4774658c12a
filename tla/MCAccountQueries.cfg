\* One report, of one account or of both, against two syncs that run one after
\* the other; calls may fail and the process may crash, but fetches are complete.
SPECIFICATION QuerySpec
CONSTANTS
  r1 = r1  r2 = r2  c1 = c1  c2 = c2  a1 = a1  a2 = a2  k1 = k1  k2 = k2
  Requests = {r1, r2}
  Clients = {c1, c2}
  Assets = {a1, a2}
  Categories = {k1, k2}
  DefaultCategory = DefaultCategory
  ReportQueries <- MCReportQueries
  CategoryOf <- MCCategoryOf
  LastDay = 1
  None = None
  Undated = Undated
  MovementIds = {1}
  Positions <- MCPositions
  Movements <- MCMovements
  Faults = TRUE
  LossyFetch = FALSE
  Serial = TRUE
INVARIANTS LaterReadsSeeMore DefaultCategoryIsNew MarkedDaysReported
CHECK_DEADLOCK FALSE
