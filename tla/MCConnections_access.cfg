SPECIFICATION Spec
CONSTANTS
  alice = alice  c1 = c1  c2 = c2  c3 = c3
  None = None  Legacy = Legacy
  Users = {alice}
  Calls = {c1, c2}
  LeaseOverrun = TRUE
  MaxTokens = 3
  MaxConnects = 2
  MaxCrashes = 1
SYMMETRY CallSymmetry
INVARIANTS LeaseIsItsHolders ActiveIsRefreshable
PROPERTIES HandsOutLiveTokens
CHECK_DEADLOCK FALSE
