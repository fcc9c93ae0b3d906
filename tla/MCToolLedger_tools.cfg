SPECIFICATION FairSpec
CONSTANTS
  merge = merge  mergeRespelled = mergeRespelled  comment = comment
  merging = merging  commenting = commenting
  None = None  Orphan = Orphan  Outside = Outside
  Calls = {merge, mergeRespelled, comment}
  Actions = {merging, commenting}
  ActionOf <- MCActionOf
  Irreversible = {merging}
  MaxRuns = 3
  MaxTurns = 1
  MaxCrashes = 1
  LeaseOverrun = TRUE
INVARIANTS ApprovedFirst CompletedOnce ReplayIsTrue
PROPERTIES DecidedTaskResumes
CHECK_DEADLOCK FALSE
