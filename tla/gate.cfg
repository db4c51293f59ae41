\* Caches that lag one by one, a Cluster that is paused once, a failed call.
SPECIFICATION FairGateSpec
CONSTANTS
  m1 = m1
  a = a
  b = b
  NoHost = NoHost
  Machines <- OneMachine
  Hosts <- MCHosts
  Ports <- MCPorts
  ClusterEndpoints <- MCClusterEndpoints
  UserClusters <- MCUserClusters
  EditsInFlight = FALSE
  MaxPauses = 1
  MaxFaults = 1
INVARIANTS
  GateTypeOK
  NoLostWakeup
PROPERTIES
  ReadyEndpointIsKept
  MachineProceeds
CHECK_DEADLOCK FALSE
