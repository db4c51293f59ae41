\* Local mode: Hardware is read from an informer cache that lags behind.
SPECIFICATION Spec
CONSTANTS
  m1 = m1
  m2 = m2
  h1 = h1
  h2 = h2
  None = None
  Eligible <- AllEligible
  Rank <- SameRank
  Machines <- MCMachines
  Hardware <- MCHardware
  BMC <- OnlyFirst
  Retirable <- OnlyFirst
  External = FALSE
  OwnerRefs = TRUE
  MachineCacheLags = FALSE
  HardwareCacheLags = TRUE
  FaultPoints <- NoFaults
  MaxFaults = 0
  MaxBirths = 1
SYMMETRY MachineSymmetry
INVARIANTS
  RecordedHardwareIsOwned
  FreeHardwareIsClean
  ReadyMachineIsImaged
  FreeHardwareIsOff
PROPERTIES
  ReadyMachineIsNotReimaged
  HardwareReleasedBeforeMachineGoes
CHECK_DEADLOCK FALSE
