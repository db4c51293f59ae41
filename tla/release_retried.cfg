\* The controller stops after it has given Hardware back and before it has
\* removed the finalizer of the machine.
SPECIFICATION Spec
CONSTANTS
  m1 = m1
  m2 = m2
  h1 = h1
  h2 = h2
  None = None
  Eligible <- AllEligible
  Rank <- SameRank
  Machines <- MCMachines
  Hardware <- MCHardware
  BMC <- OnlyFirst
  Retirable = {}
  External = FALSE
  OwnerRefs = TRUE
  MachineCacheLags = FALSE
  HardwareCacheLags = FALSE
  FaultPoints <- FaultsAfterRelease
  MaxFaults = 1
  MaxBirths = 1
SYMMETRY MachineSymmetry
INVARIANTS
  FreeHardwareIsClean
CHECK_DEADLOCK FALSE
