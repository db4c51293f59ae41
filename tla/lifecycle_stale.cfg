\* Local mode, both caches lag, and two machines want the only Hardware.
SPECIFICATION Spec
CONSTANTS
  m1 = m1
  m2 = m2
  h1 = h1
  h2 = h2
  None = None
  Eligible <- AllEligible
  Rank <- SameRank
  Machines <- MCMachines
  Hardware <- OnlyFirst
  BMC <- OnlyFirst
  Retirable = {}
  External = FALSE
  OwnerRefs = TRUE
  MachineCacheLags = TRUE
  HardwareCacheLags = TRUE
  FaultPoints <- NoFaults
  MaxFaults = 0
  MaxBirths = 1
SYMMETRY MachineSymmetry
PROPERTIES
  OwnershipPassesThroughNone
CHECK_DEADLOCK FALSE
