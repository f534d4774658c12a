\* Three requests of any kind about at most two schedules.
SPECIFICATION Spec
CONSTANTS
  r1 = r1  r2 = r2  r3 = r3  t = t  u = u
  Requests = {r1, r2, r3}
  MaxId = 2
  Fields = {"cron_time", "active"}
  Values = {t, u}
  Defaults <- MCDefaults
  Absent = Absent
  None = None
INVARIANTS LostUpdateNeedsOverlap DeletedOnce
PROPERTY ImplementsStore
SYMMETRY Symmetry
CHECK_DEADLOCK FALSE
