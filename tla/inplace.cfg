\* Two updates, a cache that lags and two faults.
SPECIFICATION FairRecoverySpec
CONSTANTS
  Timeout = 2
  MaxTime = 4
  MaxUpdates = 2
  MaxFaults = 2
  CacheLags = TRUE
INVARIANTS
  RecoveryTypeOK
  OneCyclePerUpdate
PROPERTIES
  FirstStalledUpdateIsCycled
CHECK_DEADLOCK FALSE
