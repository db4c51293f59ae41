\* Nothing fails: the pool is edited between the claim and the patch that
\* records the Hardware.
SPECIFICATION IPAMSpec
CONSTANTS
  m1 = m1
  m2 = m2
  h1 = h1
  p1 = p1
  p2 = p2
  a1 = a1
  a2 = a2
  None = None
  Machines <- MCMachines
  Hardware <- MCHardware
  Pools <- MCPools
  Addresses <- MCAddresses
  Offers <- MCOffers
  Edits <- AnyPool
  EditsInFlight = TRUE
  External = FALSE
  FaultPoints <- NoFaults
  MaxFaults = 0
INVARIANTS
  DeletionFindsTheClaim
CHECK_DEADLOCK FALSE
