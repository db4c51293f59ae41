\* External mode, nothing fails: a machine that never got Hardware is deleted.
SPECIFICATION FairSpec
CONSTANTS
  m1 = m1
  m2 = m2
  h1 = h1
  h2 = h2
  None = None
  Eligible <- AllEligible
  Rank <- SameRank
  Machines <- MCMachines
  Hardware <- MCHardware
  BMC <- OnlyFirst
  Retirable = {}
  External = TRUE
  OwnerRefs = FALSE
  MachineCacheLags = FALSE
  HardwareCacheLags = FALSE
  FaultPoints <- NoFaults
  MaxFaults = 0
  MaxBirths = 1
PROPERTIES
  EveryDeletedMachineGoes
CHECK_DEADLOCK FALSE
