SPECIFICATION CallSpec
CONSTANTS
  gpt = gpt  mini = mini  llama = llama  gone = gone
  operator = operator  coder = coder
  c1 = c1  c2 = c2
  Roles = {operator, coder}
  Models = {gpt, mini, llama, gone}
  Available = {gpt, llama}
  Defaults <- MCDefaults
  Superseded <- MCSuperseded
  OldFiles <- MCOldFiles
  NoFile = NoFile  NotLoaded = NotLoaded  NoModel = NoModel
  Keyed = {gpt, mini, llama}
  Fallbacks <- MCFallbacks
  Calls = {c1, c2}
  Cooldowns = {1, 3}
  MaxEdits = 1
INVARIANTS NothingLeftUntried ErrorExplains ServedIsSaved
PROPERTIES OnlyTimeHeals
SYMMETRY MCSymmetry
CHECK_DEADLOCK FALSE
