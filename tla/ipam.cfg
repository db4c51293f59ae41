\* Two machines that want the same Hardware, two pools, a fault anywhere.  The
\* pool does not change while a first Reconcile is under way.
SPECIFICATION FairIPAMSpec
CONSTANTS
  m1 = m1
  m2 = m2
  h1 = h1
  p1 = p1
  p2 = p2
  a1 = a1
  a2 = a2
  None = None
  Machines <- MCMachines
  Hardware <- MCHardware
  Pools <- MCPools
  Addresses <- MCAddresses
  Offers <- MCOffers
  Edits <- MCPools
  EditsInFlight = FALSE
  External = FALSE
  FaultPoints <- AllFaults
  MaxFaults = 2
INVARIANTS
  IPAMTypeOK
  ReservedAddressIsClaimed
  DeletionFindsTheClaim
  FreeHardwareHasNoAddress
PROPERTIES
  ClaimIsReleasedBeforeMachineGoes
  ReleasedMachineGoes
  RunningMachineKeepsItsAddress
CHECK_DEADLOCK FALSE
