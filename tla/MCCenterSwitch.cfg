CONSTANTS
  Messages = {m1, m2}
  Hashes = {1, 2}
  NoHash = NoHash
  MaxWakes = 1
  Centers = {"a", "b"}
  CenterLists <- MCCenterLists
  MaxCenters = 2
SPECIFICATION SwitchSpec
INVARIANTS SwitchSafety
PROPERTIES SwitchEndsOrStuck DaemonEndsOrStuck
CHECK_DEADLOCK FALSE
