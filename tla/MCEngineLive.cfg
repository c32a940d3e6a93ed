\* One worker: does a walk, and a job, come to its end?
CONSTANTS
  f1 = f1
  f2 = f2
  f3 = f3
  ThreadCount = 1
  MAX_FILE_POOL = 2
  Files = {f1, f2, f3}
  Infected = {f1, f3}
  NoFile = NoFile
  Trees <- MCTrees
  MaxJobs = 2
  MaxStops = 1
SPECIFICATION FairEngineSpec
PROPERTIES WalkEnds EndOrStuck
CHECK_DEADLOCK FALSE
