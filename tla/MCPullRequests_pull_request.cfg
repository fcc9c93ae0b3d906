SPECIFICATION Spec
CONSTANTS
  c1 = c1  c2 = c2
  None = None
  Calls = {c1, c2}
  Paths <- MCPaths
  Workflows = {"ci.yml"}
  SameName <- MCSameName
  Requests <- MCRequests
  MaxPrs = 3
  MaxMishaps = 1
SYMMETRY CallSymmetry
INVARIANTS OnePr MergeIsReported
PROPERTIES RefusalIsClean FreshPrIsWhole
CHECK_DEADLOCK FALSE
