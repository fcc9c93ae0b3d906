SPECIFICATION Spec
CONSTANTS
  a = a  b = b  d = d  r = r
  c1 = c1  c2 = c2  c3 = c3
  None = None
  TaskIds <- MCTaskIds
  Coros = {c1, c2}
  InitialPlans <- Either
  Replans <- Recovery
  MaxAttempts = 2
  MaxConcurrent = 2
  MaxFailures = 4
  MaxRestarts = 1
  LeaseOverrun = FALSE
  CommitWindow = TRUE
SYMMETRY CoroSymmetry
INVARIANTS LeaseDiscipline DependencyOrder RetryBudget AnswerIsDone
PROPERTIES RunsTheGraph
CHECK_DEADLOCK FALSE
