SPECIFICATION FairSpec
CONSTANTS
  merge = merge  read = read  pr = pr  None = None
  Urls = {pr}
  WriteTools = {merge}
  Cap <- MCCap
  Read = read
  MaxTurns = 2
  MaxCalls = 2
  MaxRuns = 2
INVARIANTS AcceptedIsHonest WriteCap TranscriptPaired
PROPERTIES RunEnds
CHECK_DEADLOCK FALSE
