SPECIFICATION LiveSpec
CONSTANTS
  f1 = f1  f2 = f2  d1 = d1  d2 = d2  b1 = b1  b2 = b2
  None = None
  Workers = {w1, w2}
  Threads = {t1, t2}
  Files = {f1, f2}
  Folders = {d1, d2}
  FolderOf <- TwoFolders
  Blocks = {b1, b2}
  MaxKey = 2
  KeyOf <- OwnKeys
  Bad = {b2}
  MaxTime = 1
  MaxLooks = 3
  MaxJobs = 2
  MaxChanges = 1
INVARIANTS CacheSafety
PROPERTIES DiskKeepsEntries StatusSettles
CHECK_DEADLOCK FALSE
