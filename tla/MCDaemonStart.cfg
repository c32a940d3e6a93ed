\* Two watchers, two ends, lsof or none.
CONSTANTS
  Watchers = {"GLTX", "ZDFY"}
  MaxStarts = 6
  MaxEnds = 2
SPECIFICATION Spec
INVARIANTS AloneKeepsAll
PROPERTIES ServedOrUnheard
CHECK_DEADLOCK FALSE
