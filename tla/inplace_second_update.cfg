\* Nothing fails and the cache is in step.
SPECIFICATION FairRecoverySpec
CONSTANTS
  Timeout = 1
  MaxTime = 2
  MaxUpdates = 2
  MaxFaults = 0
  CacheLags = FALSE
PROPERTIES
  LaterUpdateHasABudget
CHECK_DEADLOCK FALSE
