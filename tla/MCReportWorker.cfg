SPECIFICATION FairSpec
CONSTANTS
  Calls = {t1, t2, t3}
  Schedules = {s1}
  None = None
  MaxJobs = 1
INVARIANTS CancelledOnce TwoTasksNeedOverlap TaskLostToInvalid
PROPERTIES CancelledTasksRest CallsReturn ScheduledReportsRun
CHECK_DEADLOCK FALSE
