------------------------------ MODULE ClusterGate ------------------------------
(***************************************************************************)
(* What a TinkerbellMachine waits for before it is provisioned, and what   *)
(* wakes it.  The TinkerbellCluster controller                             *)
(* (src/controller/cluster/tinkerbellcluster.go) gives a TinkerbellCluster *)
(* its control plane endpoint and marks it ready.  The machine controller  *)
(* (src/controller/machine/tinkerbellmachine.go) lets a machine pass when  *)
(* its Machine, its bootstrap data and its cluster are ready; otherwise it *)
(* returns, and most of these returns put nothing back into the queue: an  *)
(* event has to.                                                           *)
(*                                                                         *)
(* Both read informer caches, one per kind, which change before their      *)
(* events are handled.  One Cluster; a Machine and a TinkerbellMachine     *)
(* share a name here.  A patch is one request: the helper sends spec and   *)
(* status apart.  The patch of the paused condition, which changes nothing *)
(* anybody here reads, is left out.                                        *)
(***************************************************************************)
EXTENDS Naturals

CONSTANTS
  Machines,
  Hosts, NoHost,
  Ports,             \* port 0 is no port
  ClusterEndpoints,  \* what users put into the Cluster
  UserClusters,      \* the TinkerbellClusters users create
  EditsInFlight,     \* users may edit the Cluster's endpoint while a copy of the
                     \* TinkerbellCluster is out of date
  MaxPauses,         \* bound on how often the Cluster is paused
  MaxFaults          \* bound on failed calls

KubernetesAPIPort == 6443
Endpoint == [host : Hosts \cup {NoHost}, port : Ports \cup {0, KubernetesAPIPort}]
NoEndpoint == [host |-> NoHost, port |-> 0]
Valid(e) == e.host # NoHost /\ e.port # 0

ASSUME EndpointAssumption ==
  /\ NoHost \notin Hosts
  /\ Ports \subseteq Nat
  /\ ClusterEndpoints \subseteq Endpoint
  /\ UserClusters \subseteq [labelled : BOOLEAN, endpoint : Endpoint]
  /\ EditsInFlight \in BOOLEAN
ASSUME GateBounds == MaxPauses \in Nat /\ MaxFaults \in Nat

VARIABLES
  cluster,   \* the Cluster
  tc,        \* the TinkerbellCluster
  linked,    \* the TinkerbellMachines with an owner reference to their Machine
  secret,    \* the bootstrap data of a Machine: no name, a name, the Secret
  seen,      \* the caches of cluster, tc, linked, secret
  events,    \* cached changes of cluster and tc whose handlers have not run
  woken,     \* the machines that other changes not handled yet name
  queue,     \* the machines in the work queue
  pc,        \* the next look of a machine's worker
  passed,    \* the machines that have been let through
  tcQueued,  \* the TinkerbellCluster is in its controller's queue
  tcPc,      \* the next call of its worker
  tcRead,    \* the TinkerbellCluster as it has read it
  found,     \* and the Cluster it has found
  pauses, faults

objects == <<cluster, tc, linked, secret>>
machineWorker == <<pc, passed>>
clusterWorker == <<tcPc, tcRead, found>>
bounds == <<pauses, faults>>
vars == <<objects, seen, events, woken, queue, machineWorker, tcQueued, clusterWorker, bounds>>

ClusterRec == [exists : BOOLEAN, paused : BOOLEAN, provisioned : BOOLEAN,
               endpoint : Endpoint]
NoCluster == [exists |-> FALSE, paused |-> FALSE, provisioned |-> FALSE,
              endpoint |-> NoEndpoint]
TinkerbellClusterRec == [labelled : BOOLEAN, owned : BOOLEAN, ready : BOOLEAN,
                         endpoint : Endpoint]
NoTinkerbellCluster == [labelled |-> FALSE, owned |-> FALSE, ready |-> FALSE,
                        endpoint |-> NoEndpoint]
Secrets == {"none", "named", "filled"}
World == [cluster : ClusterRec, tc : TinkerbellClusterRec,
          linked : SUBSET Machines, named : SUBSET Machines]

\* What the informers watch: of the bootstrap data, only its name.
Now == [cluster |-> cluster, tc |-> tc, linked |-> linked,
        named |-> {m \in Machines : secret[m] # "none"}]

-------------------------------------------------------------------------------
GateInit ==
  /\ cluster = NoCluster
  /\ tc \in {[labelled |-> u.labelled, owned |-> FALSE, ready |-> FALSE,
              endpoint |-> u.endpoint] : u \in UserClusters}
  /\ linked = {}
  /\ secret = [m \in Machines |-> "none"]
  /\ seen = Now
  /\ events = {} /\ woken = {}
  /\ queue = Machines
  /\ pc = [m \in Machines |-> "idle"]
  /\ passed = {}
  /\ tcQueued = TRUE
  /\ tcPc = "idle" /\ tcRead = NoTinkerbellCluster /\ found = NoCluster
  /\ pauses = 0 /\ faults = 0

\* A slip: an endpoint the Cluster has goes before the TinkerbellCluster's.
EndpointOfCluster(own, c) ==
  LET Or(a, b, none) == IF a # none THEN a ELSE b
  IN [host |-> Or(c.host, own.host, NoHost),
      port |-> Or(Or(c.port, own.port, 0), KubernetesAPIPort, 0)]

\* A slip: no default for the port.
EndpointWithoutDefault(own, c) ==
  LET Or(a, b, none) == IF a # none THEN a ELSE b
  IN IF Valid(own) THEN own
     ELSE IF Valid(c) THEN c
     ELSE [host |-> Or(c.host, own.host, NoHost), port |-> Or(c.port, own.port, 0)]

\* A slip: what the TinkerbellCluster has of an endpoint is not looked at.
EndpointOfClusterOnly(own, c) ==
  IF Valid(own) THEN own
  ELSE [host |-> c.host, port |-> IF c.port = 0 THEN KubernetesAPIPort ELSE c.port]

\* controlPlaneEndpoint: a valid one, the TinkerbellCluster's own first, else
\* one put together from both, the Cluster's parts first.
ControlPlaneEndpoint(own, c) ==
  LET Or(a, b, none) == IF a # none THEN a ELSE b
  IN IF Valid(own) THEN own
     ELSE IF Valid(c) THEN c
     ELSE [host |-> Or(c.host, own.host, NoHost),
           port |-> Or(Or(c.port, own.port, 0), KubernetesAPIPort, 0)]

-------------------------------------------------------------------------------
(* The TinkerbellCluster controller. *)

\* Reconcile returns: what it has read is gone.
ReturnCluster == tcPc' = "idle" /\ tcRead' = NoTinkerbellCluster /\ found' = NoCluster

\* newReconcileContext: the TinkerbellCluster is read.
StartCluster ==
  /\ tcPc = "idle" /\ tcQueued
  /\ tcQueued' = FALSE
  /\ tcRead' = seen.tc
  /\ tcPc' = "getCluster"
  /\ UNCHANGED <<objects, seen, events, woken, queue, machineWorker, found, bounds>>

\* GetOwnerCluster, else findClusterOwnerByLabelAndAdopt, which returns neither
\* Cluster nor error when the label is missing or the cache does not have the
\* Cluster: the worker is done, and so it is with a paused one.
GetCluster ==
  /\ tcPc = "getCluster"
  /\ LET cached == seen.cluster.exists /\ (tcRead.owned \/ tcRead.labelled) IN
     \/ /\ ~cached \/ (tcRead.owned /\ seen.cluster.paused)
        /\ ReturnCluster
     \/ /\ cached /\ ~(tcRead.owned /\ seen.cluster.paused)
        /\ found' = seen.cluster
        /\ tcPc' = IF tcRead.owned THEN "setReady" ELSE "adopt"
        /\ UNCHANGED tcRead
  /\ UNCHANGED <<objects, seen, events, woken, queue, machineWorker, tcQueued, bounds>>

\* The owner reference is patched in.
Adopt ==
  /\ tcPc = "adopt"
  /\ tc' = [tc EXCEPT !.owned = TRUE]
  /\ IF found.paused THEN ReturnCluster ELSE tcPc' = "setReady" /\ UNCHANGED <<tcRead, found>>
  /\ UNCHANGED <<cluster, linked, secret, seen, events, woken, queue, machineWorker,
                 tcQueued, bounds>>

\* What the merge patch from the endpoint read to e makes of the current one.
Merged(read, e, current) ==
  [host |-> IF e.host = read.host THEN current.host ELSE e.host,
   port |-> IF e.port = read.port THEN current.port ELSE e.port]

\* reconcile: without host an error, which puts the key back; else endpoint
\* and ready are patched in, as far as they differ from what was read.
SetReady ==
  /\ tcPc = "setReady"
  /\ LET e == ControlPlaneEndpoint(tcRead.endpoint, found.endpoint) IN
     IF e.host = NoHost
     THEN tcQueued' = TRUE /\ UNCHANGED tc
     ELSE /\ tc' = [tc EXCEPT !.ready = TRUE, !.endpoint = Merged(tcRead.endpoint, e, @)]
          /\ UNCHANGED tcQueued
  /\ ReturnCluster
  /\ UNCHANGED <<cluster, linked, secret, seen, events, woken, queue, machineWorker, bounds>>

ClusterFault ==
  /\ tcPc # "idle" /\ faults < MaxFaults
  /\ faults' = faults + 1
  /\ ReturnCluster /\ tcQueued' = TRUE
  /\ UNCHANGED <<objects, seen, events, woken, queue, machineWorker, pauses>>

-------------------------------------------------------------------------------
(* The machine controller, up to scope.Reconcile. *)

Goto(m, step) == pc' = [pc EXCEPT ![m] = step]

\* The queue hands out a key that nobody works on.
StartMachine(m) ==
  /\ pc[m] = "idle" /\ m \in queue
  /\ queue' = queue \ {m}
  /\ Goto(m, IF m \in seen.linked THEN "getCluster" ELSE "idle")
  /\ UNCHANGED <<objects, seen, events, woken, passed, tcQueued, clusterWorker, bounds>>

\* Paused, or isMachineReady names a reason: nothing is put back.
LookAtCluster(m) ==
  /\ pc[m] = "getCluster"
  /\ Goto(m, IF (seen.cluster.exists /\ seen.cluster.paused) \/ m \notin seen.named
              THEN "idle" ELSE "getSecret")
  /\ UNCHANGED <<objects, seen, events, woken, queue, passed, tcQueued, clusterWorker, bounds>>

\* A slip: a Secret that is not there is no error.
GetSecretQuietly(m) ==
  /\ pc[m] = "getSecret"
  /\ Goto(m, IF secret[m] = "filled" THEN "getReady" ELSE "idle")
  /\ UNCHANGED <<objects, seen, events, woken, queue, passed, tcQueued, clusterWorker, bounds>>

\* getReadyBootstrapCloudConfig: what is missing is an error, and the key goes
\* back.  Secrets are not watched.
GetSecret(m) ==
  /\ pc[m] = "getSecret"
  /\ IF secret[m] = "filled"
     THEN Goto(m, "getReady") /\ UNCHANGED queue
     ELSE Goto(m, "idle") /\ queue' = queue \cup {m}
  /\ UNCHANGED <<objects, seen, events, woken, passed, tcQueued, clusterWorker, bounds>>

\* getReadyTinkerbellCluster: without Cluster an error, not ready no error.
GetReady(m) ==
  /\ pc[m] = "getReady"
  /\ Goto(m, "idle")
  /\ queue' = IF seen.cluster.exists THEN queue ELSE queue \cup {m}
  /\ passed' = IF seen.cluster.exists /\ seen.tc.ready THEN passed \cup {m} ELSE passed
  /\ UNCHANGED <<objects, seen, events, woken, tcQueued, clusterWorker, bounds>>

MachineFault(m) ==
  /\ pc[m] # "idle" /\ faults < MaxFaults
  /\ faults' = faults + 1
  /\ Goto(m, "idle") /\ queue' = queue \cup {m}
  /\ UNCHANGED <<objects, seen, events, woken, passed, tcQueued, clusterWorker, pauses>>

-------------------------------------------------------------------------------
(* Caches and events. *)

\* The caches of TinkerbellMachines and of Machines: their events name the
\* machine (For, MachineToInfrastructureMapFunc).
SyncTinkerbellMachines ==
  /\ seen.linked # linked
  /\ seen' = [seen EXCEPT !.linked = linked]
  /\ woken' = woken \cup (linked \ seen.linked)
  /\ UNCHANGED <<objects, events, queue, machineWorker, tcQueued, clusterWorker, bounds>>

SyncMachines ==
  /\ seen.named # Now.named
  /\ seen' = [seen EXCEPT !.named = Now.named]
  /\ woken' = woken \cup (Now.named \ seen.named)
  /\ UNCHANGED <<objects, events, queue, machineWorker, tcQueued, clusterWorker, bounds>>

\* The Cluster's: only a change of paused or provisioned is an event
\* (ClusterPausedTransitionsOrInfrastructureProvisioned).
SyncCluster ==
  /\ seen.cluster # cluster
  /\ seen' = [seen EXCEPT !.cluster = cluster]
  /\ events' = IF \/ seen.cluster.exists /\ seen.cluster.paused # cluster.paused
                  \/ seen.cluster.exists /\ cluster.provisioned /\ ~seen.cluster.provisioned
               THEN events \cup {"cluster"} ELSE events
  /\ UNCHANGED <<objects, woken, queue, machineWorker, tcQueued, clusterWorker, bounds>>

SyncTinkerbellCluster ==
  /\ seen.tc # tc
  /\ seen' = [seen EXCEPT !.tc = tc]
  /\ events' = events \cup {"tc"}
  /\ UNCHANGED <<objects, woken, queue, machineWorker, tcQueued, clusterWorker, bounds>>

HandleMachine(m) ==
  /\ m \in woken
  /\ woken' = woken \ {m}
  /\ queue' = queue \cup {m}
  /\ UNCHANGED <<objects, seen, events, machineWorker, tcQueued, clusterWorker, bounds>>

\* A Cluster wakes its TinkerbellCluster and its TinkerbellMachines.
HandleCluster ==
  /\ "cluster" \in events
  /\ events' = events \ {"cluster"}
  /\ tcQueued' = TRUE
  /\ queue' = Machines
  /\ UNCHANGED <<objects, seen, woken, machineWorker, clusterWorker, bounds>>

\* A TinkerbellCluster wakes itself and, when its owner is found, the machines
\* (TinkerbellClusterToTinkerbellMachines).
HandleTinkerbellCluster ==
  /\ "tc" \in events
  /\ events' = events \ {"tc"}
  /\ tcQueued' = TRUE
  /\ queue' = IF seen.tc.owned /\ seen.cluster.exists THEN Machines ELSE queue
  /\ UNCHANGED <<objects, seen, woken, machineWorker, clusterWorker, bounds>>

Quiet ==
  /\ events = {} /\ woken = {} /\ queue = {} /\ ~tcQueued /\ tcPc = "idle"
  /\ \A m \in Machines : pc[m] = "idle"

\* The informers' resync hands everything out again: main.go leaves
\* Cache.SyncPeriod unset (its --sync-period is never read), and the library's
\* default is ten hours.
Resync ==
  /\ Quiet /\ seen = Now
  /\ tcQueued' = TRUE /\ queue' = Machines
  /\ UNCHANGED <<objects, seen, events, woken, machineWorker, clusterWorker, bounds>>

-------------------------------------------------------------------------------
(* Users and Cluster API. *)

untouched == <<seen, events, woken, queue, machineWorker, tcQueued, clusterWorker, faults>>

CreateCluster ==
  /\ ~cluster.exists
  /\ cluster' \in {[NoCluster EXCEPT !.exists = TRUE, !.endpoint = e] : e \in ClusterEndpoints}
  /\ UNCHANGED <<tc, linked, secret, pauses, untouched>>

\* A user gives the Cluster its endpoint late.  Nothing in the code says when;
\* without EditsInFlight users do it before anybody has named a host, or when
\* the TinkerbellCluster is ready and no copy of it is out of date.
SetClusterEndpoint ==
  /\ cluster.exists /\ cluster.endpoint = NoEndpoint
  /\ \/ EditsInFlight
     \/ tc.endpoint.host = NoHost
     \/ tc.ready /\ seen.tc = tc /\ tcPc = "idle"
  /\ cluster' \in {[cluster EXCEPT !.endpoint = e] : e \in ClusterEndpoints \ {NoEndpoint}}
  /\ UNCHANGED <<tc, linked, secret, pauses, untouched>>

\* Cluster API sees the infrastructure ready, and takes over its endpoint.
ProvisionCluster ==
  /\ cluster.exists /\ tc.ready /\ ~cluster.provisioned
  /\ cluster' = [cluster EXCEPT !.provisioned = TRUE,
                                !.endpoint = IF Valid(@) THEN @ ELSE tc.endpoint]
  /\ UNCHANGED <<tc, linked, secret, pauses, untouched>>

\* Cluster API sets the owner reference, and with it the label.
OwnTinkerbellCluster ==
  /\ cluster.exists /\ ~tc.owned
  /\ tc' = [tc EXCEPT !.owned = TRUE, !.labelled = TRUE]
  /\ UNCHANGED <<cluster, linked, secret, pauses, untouched>>

Pause ==
  /\ cluster.exists /\ ~cluster.paused /\ pauses < MaxPauses
  /\ cluster' = [cluster EXCEPT !.paused = TRUE]
  /\ pauses' = pauses + 1
  /\ UNCHANGED <<tc, linked, secret, untouched>>

Unpause ==
  /\ cluster.paused
  /\ cluster' = [cluster EXCEPT !.paused = FALSE]
  /\ UNCHANGED <<tc, linked, secret, pauses, untouched>>

Link(m) ==
  /\ m \notin linked
  /\ linked' = linked \cup {m}
  /\ UNCHANGED <<cluster, tc, secret, pauses, untouched>>

Bootstrap(m) ==
  /\ secret[m] # "filled"
  /\ secret' = [secret EXCEPT ![m] = IF @ = "none" THEN "named" ELSE "filled"]
  /\ UNCHANGED <<cluster, tc, linked, pauses, untouched>>

-------------------------------------------------------------------------------
ClusterController == StartCluster \/ GetCluster \/ Adopt \/ SetReady
MachineController(m) ==
  StartMachine(m) \/ LookAtCluster(m) \/ GetSecret(m) \/ GetReady(m)
Informers ==
  \/ SyncTinkerbellMachines \/ SyncMachines \/ SyncCluster \/ SyncTinkerbellCluster
  \/ HandleCluster \/ HandleTinkerbellCluster
CAPI == CreateCluster \/ SetClusterEndpoint \/ ProvisionCluster \/ OwnTinkerbellCluster
        \/ Pause \/ Unpause

GateNext ==
  \/ ClusterController \/ ClusterFault \/ Informers \/ Resync \/ CAPI
  \/ \E m \in Machines :
       MachineController(m) \/ MachineFault(m) \/ HandleMachine(m) \/ Link(m) \/ Bootstrap(m)

GateSpec == GateInit /\ [][GateNext]_vars

\* Work queues and informers make progress, the default resync comes round.
\* What users and Cluster API do need not happen.
FairGateSpec ==
  /\ GateSpec
  /\ WF_vars(ClusterController)
  /\ \A m \in Machines : WF_vars(MachineController(m)) /\ WF_vars(HandleMachine(m))
  /\ WF_vars(SyncTinkerbellMachines) /\ WF_vars(SyncMachines)
  /\ WF_vars(SyncCluster) /\ WF_vars(SyncTinkerbellCluster)
  /\ WF_vars(HandleCluster) /\ WF_vars(HandleTinkerbellCluster)
  /\ WF_vars(Resync)

-------------------------------------------------------------------------------
(* Properties *)

\* Every variable holds values of its kind, and a TinkerbellCluster that is
\* ready has a host and a port.
GateTypeOK ==
  /\ cluster \in ClusterRec /\ tc \in TinkerbellClusterRec
  /\ linked \subseteq Machines /\ secret \in [Machines -> Secrets]
  /\ seen \in World
  /\ events \subseteq {"cluster", "tc"} /\ woken \subseteq Machines
  /\ queue \subseteq Machines /\ passed \subseteq Machines
  /\ pc \in [Machines -> {"idle", "getCluster", "getSecret", "getReady"}]
  /\ tcQueued \in BOOLEAN
  /\ tcPc \in {"idle", "getCluster", "adopt", "setReady"}
  /\ tcRead \in TinkerbellClusterRec /\ found \in ClusterRec
  /\ pauses \in 0..MaxPauses /\ faults \in 0..MaxFaults
  /\ tc.ready => Valid(tc.endpoint)

\* No wakeup is lost, without the help of a resync: a machine that is
\* not queued, not worked on and not about to be queued by an event has, in
\* what the caches show, a reason to wait (Reconcile returns without error,
\* SetupWithManager's watches).
NoLostWakeup ==
  \A m \in Machines \ passed :
    m \notin queue /\ m \notin woken /\ pc[m] = "idle" /\ events = {}
      => \/ m \notin seen.linked \/ m \notin seen.named
         \/ seen.cluster.paused
         \/ ~seen.tc.ready

\* The endpoint of a TinkerbellCluster that is ready never changes: "If the
\* ControlPlaneEndpoint on tinkCluster is already configured, return it"
\* (controlPlaneEndpoint).  With old copies of both objects it is put together
\* again, to the same endpoint as long as users do not edit the Cluster's
\* meanwhile.
ReadyEndpointIsKept ==
  [][tc.ready => tc'.ready /\ tc'.endpoint = tc.endpoint]_vars

\* A machine with everything in place, whose TinkerbellCluster names its Cluster,
\* is let through, unless the Cluster is paused again.
MachineProceeds ==
  \A m \in Machines :
    /\ m \in linked /\ secret[m] = "filled" /\ cluster.exists /\ ~cluster.paused
    /\ tc.owned \/ tc.labelled
    /\ cluster.endpoint.host # NoHost \/ tc.endpoint.host # NoHost
    ~> m \in passed \/ cluster.paused
===============================================================================
