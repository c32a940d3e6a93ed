CONSTANTS
  Watched = {"f","g"}
  MaxEntries = 2
  MaxCache = 1
  HotCount = 1
  MaxScans = 2
  MaxWraps = 1
  MaxLoads = 1
SPECIFICATION Spec
INVARIANTS EntrySafety ChangeIsQueued
PROPERTIES QueuedIsScanned UnloadEnds
CHECK_DEADLOCK FALSE
