\* Users edit the Cluster's endpoint at any time; no call fails.
SPECIFICATION GateSpec
CONSTANTS
  m1 = m1
  a = a
  b = b
  NoHost = NoHost
  Machines <- OneMachine
  Hosts <- MCHosts
  Ports <- MCPorts
  ClusterEndpoints <- MCClusterEndpoints
  UserClusters <- MCUserClusters
  EditsInFlight = TRUE
  MaxPauses = 0
  MaxFaults = 0
PROPERTY
  ReadyEndpointIsKept
CHECK_DEADLOCK FALSE
