\* Local mode: the caches may not show yet what the last attempt created.
SPECIFICATION WorkflowSpec
CONSTANTS
  two = two
  one = one
  legacy = legacy
  ta = ta
  tb = tb
  NoData = NoData
  Empty = Empty
  Data <- MCData
  TaskNames <- MCTaskNames
  Convertible <- MCConvertible
  Needs <- MCNeeds
  Setups <- MCSetups
  Intrusions <- OutsideTheWindow
  CacheLags = TRUE
  MaxEdits = 0
  MaxFaults = 0
INVARIANTS
  NothingIsLeftBehind
CHECK_DEADLOCK FALSE
