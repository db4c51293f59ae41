----------------------------- MODULE MCClusterGate -----------------------------
(* Small instances of ClusterGate. *)
EXTENDS ClusterGate

CONSTANTS m1, a, b

OneMachine == {m1}
MCHosts == {a, b}
MCPorts == {443}
Ep(h, p) == [host |-> h, port |-> p]
\* A Cluster without endpoint and with one; a TinkerbellCluster, with the label
\* and without, that names a host alone, and a port alone.
MCClusterEndpoints == {NoEndpoint, Ep(a, 443)}
MCUserClusters == [labelled : BOOLEAN, endpoint : {Ep(b, 0), Ep(NoHost, 443)}]
===============================================================================
