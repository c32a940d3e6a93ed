\* Two jobs, one Stop: safety and the refinement.
CONSTANTS
  f1 = f1
  f2 = f2
  f3 = f3
  ThreadCount = 2
  MAX_FILE_POOL = 2
  Files = {f1, f2, f3}
  Infected = {f1, f3}
  NoFile = NoFile
  Trees <- MCTrees
  MaxJobs = 2
  MaxStops = 1
SPECIFICATION EngineSpec
INVARIANTS PoolSafety EndSafety ReportSafety NoDealDuringRelease
PROPERTIES ImplementsScanJob NoAppendDuringScanUnlessStopped
CHECK_DEADLOCK FALSE
