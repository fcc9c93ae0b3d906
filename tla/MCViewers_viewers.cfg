SPECIFICATION FairSpec
CONSTANTS
  ann = ann  bob = bob  v1 = v1  v2 = v2  t1 = t1  t2 = t2
  Subs = {ann, bob}
  FirstEmail <- MCFirstEmail
  Tabs = {t1, t2}
  MaxSessions = 2
  MaxReassigned = 1
  Streams = {v1}
  Capacity = 1
  MaxEvents = 2
  MaxVerdicts = 2
  MaxCrashes = 1
INVARIANTS WatchesItsOwn NoSilentEnd
PROPERTIES StreamEnds
CHECK_DEADLOCK FALSE
