CONSTANTS
  Producers = {"command", "usb"}
  MaxTasks = 2
  MaxWakes = 1
SPECIFICATION FairTasksSpec
INVARIANTS TasksSafety StopHitsItsTask
PROPERTIES UsesScanJob QueueUntilTorn QueuedIsDoneOrMissed
CHECK_DEADLOCK FALSE
