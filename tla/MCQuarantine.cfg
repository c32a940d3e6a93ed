SPECIFICATION QuaSpec
CONSTANTS
  f1 = f1  f2 = f2  f3 = f3  scan = scan  defen = defen  Null = Null
  Paths = {f1, f2, f3}
  Finders = {scan, defen}
  Capacity = 2
  CopyFails = TRUE
  MaxFound = 3
  MaxCommands = 2
  MaxCrashes = 1
SYMMETRY Interchangeable
CONSTRAINT Followed
INVARIANTS RowSafety
PROPERTIES RemovedHasCopy
CHECK_DEADLOCK FALSE
