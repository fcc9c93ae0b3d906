SPECIFICATION LiveSpec
CONSTANTS
  a = a  b = b  d = d  r = r
  c1 = c1  c2 = c2  c3 = c3
  None = None
  TaskIds <- MCTaskIds
  Coros = {c1, c2}
  InitialPlans <- Either
  Replans <- Recovery
  MaxAttempts = 2
  MaxConcurrent = 2
  MaxFailures = 3
  MaxRestarts = 0
  LeaseOverrun = FALSE
  CommitWindow = FALSE
PROPERTIES GoalSettles
CHECK_DEADLOCK FALSE
