CONSTANTS
  Workers = {w1, w2}
  Tasks = {t1, t2, t3}
  NoTask = NoTask
  MaxWakes = 1
SPECIFICATION Spec
INVARIANTS QueueSafety
PROPERTIES WorkedOrMissed
CHECK_DEADLOCK FALSE
