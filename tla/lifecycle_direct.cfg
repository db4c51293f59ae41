\* External mode: Hardware is read and written through a direct client, and
\* nothing on the Tinkerbell cluster has an owner reference.
SPECIFICATION FairSpec
CONSTANTS
  m1 = m1
  m2 = m2
  h1 = h1
  h2 = h2
  None = None
  Eligible <- AllEligible
  Rank <- SameRank
  Machines <- MCMachines
  Hardware <- MCHardware
  BMC <- OnlyFirst
  Retirable <- OnlyFirst
  External = TRUE
  OwnerRefs = FALSE
  MachineCacheLags = FALSE
  HardwareCacheLags = FALSE
  FaultPoints <- FaultsButAfterRelease
  MaxFaults = 1
  MaxBirths = 1
INVARIANTS
  TypeOK
  OneHardwarePerMachine
  RecordedHardwareIsOwned
  FreeHardwareIsClean
  ReadyMachineIsImaged
  FreeHardwareIsOff
PROPERTIES
  OwnershipPassesThroughNone
  ReadyMachineIsNotReimaged
  HardwareReleasedBeforeMachineGoes
  ImplementsLease
  DeletedMachineGoes
  MachineGetsReady
CHECK_DEADLOCK FALSE
