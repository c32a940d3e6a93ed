SPECIFICATION TableSpec
CONSTANTS
  Calls = {c1, c2}
  Fds = {f1, f2}
  Inodes = {i1, i2}
  Entries = {e1, e2, e3}
  MaxCnt = 2
  None = None
SYMMETRY Interchangeable
INVARIANTS TableSafety DirtyIsNoted ExitFrees
CHECK_DEADLOCK FALSE
