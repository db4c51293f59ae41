\* Three machines want the only Hardware, and a cache of TinkerbellMachines that
\* lags shows one as being deleted that is gone.
SPECIFICATION Spec
CONSTANTS
  m1 = m1
  m2 = m2
  h1 = h1
  h2 = h2
  None = None
  Eligible <- AllEligible
  Rank <- SameRank
  Machines = {m1, m2, m3}
  Hardware <- OnlyFirst
  BMC = {}
  Retirable = {}
  External = FALSE
  OwnerRefs = TRUE
  MachineCacheLags = TRUE
  HardwareCacheLags = FALSE
  FaultPoints <- NoFaults
  MaxFaults = 0
  MaxBirths = 1
SYMMETRY MachineSymmetry
INVARIANT
  ReadyMachineIsImaged
CHECK_DEADLOCK FALSE
