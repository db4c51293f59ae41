\* Nothing fails and no cache lags; the machine is deleted during its first
\* Reconcile.
SPECIFICATION Spec
CONSTANTS
  m1 = m1
  m2 = m2
  h1 = h1
  h2 = h2
  None = None
  Eligible <- AllEligible
  Rank <- SameRank
  Machines <- MCMachines
  Hardware <- MCHardware
  BMC <- OnlyFirst
  Retirable = {}
  External = FALSE
  OwnerRefs = TRUE
  MachineCacheLags = FALSE
  HardwareCacheLags = FALSE
  FaultPoints <- NoFaults
  MaxFaults = 0
  MaxBirths = 1
SYMMETRY MachineSymmetry
INVARIANTS
  OwnerExists
CHECK_DEADLOCK FALSE
