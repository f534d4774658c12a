SPECIFICATION Spec
CONSTANTS
  Calls = {t1, t2, t3}
  Schedules = {s1}
  None = None
  MaxJobs = 1
INVARIANT ExistingTaskDeleted
CHECK_DEADLOCK FALSE
