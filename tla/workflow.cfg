\* External mode: everything is read through a direct client.
SPECIFICATION FairWorkflowSpec
CONSTANTS
  two = two
  one = one
  legacy = legacy
  ta = ta
  tb = tb
  NoData = NoData
  Empty = Empty
  Data <- MCData
  TaskNames <- MCTaskNames
  Convertible <- MCConvertible
  Needs <- MCNeeds
  Setups <- MCSetups
  Intrusions <- OutsideTheWindow
  CacheLags = FALSE
  MaxEdits = 2
  MaxFaults = 2
INVARIANTS
  WorkflowTypeOK
  NativeWorkflowHasItsTasks
  OneFormOfWorkflow
  NothingIsLeftBehind
PROPERTIES
  OthersTasksAreLeftAlone
  WorkflowIsCreated
  RemovalEnds
CHECK_DEADLOCK FALSE
