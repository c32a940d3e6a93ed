SPECIFICATION FairSpec
CONSTANTS
  MaxThreads = 2
  MaxFiles = 2
  PoolSize = 2
  CreateFails = TRUE
  MaxJobs = 2
  MaxResizes = 2
  MaxStops = 1
  ResizeAndStop = FALSE
INVARIANTS WorkersSafety FinishedAccounts
PROPERTIES EndOrStuck
CHECK_DEADLOCK FALSE
