--------------------------- MODULE ClusterGateProofs ---------------------------
(***************************************************************************)
(* Type correctness of ClusterGate and that no wakeup of a machine is      *)
(* lost, for any machines, endpoints and bounds; and, for users who do not *)
(* edit the Cluster's endpoint while copies are out of date, that the      *)
(* endpoint of a ready TinkerbellCluster is kept.                          *)
(***************************************************************************)
EXTENDS ClusterGate, TLAPS

\* What the copies say of the objects they were made from.  None of it is
\* undone: a Cluster that exists goes on existing, an owner reference and the
\* ready flag stay, and neither a host nor a port is taken back.
Covers(new, old) == /\ old.host # NoHost => new.host # NoHost
                    /\ old.port # 0 => new.port # 0

CopiesAgree ==
  /\ cluster.paused => cluster.exists
  /\ seen.cluster.paused => seen.cluster.exists
  /\ seen.cluster.exists => cluster.exists
  /\ tcPc \in {"adopt", "setReady"} => seen.cluster.exists
  /\ tcPc = "setReady" => tc.owned
  /\ seen.tc.owned \/ tcRead.owned => tc.owned
  /\ seen.tc.ready => tc.ready /\ seen.tc.owned
  /\ tc.ready => tc.owned /\ seen.cluster.exists
  /\ Covers(tc.endpoint, seen.tc.endpoint) /\ Covers(tc.endpoint, tcRead.endpoint)

GateInv == GateTypeOK /\ CopiesAgree

\* controlPlaneEndpoint: what it puts together is an endpoint, and valid as soon
\* as either object names a host.
LEMMA EndpointIsValid ==
  ASSUME NEW own \in Endpoint, NEW c \in Endpoint
  PROVE  /\ ControlPlaneEndpoint(own, c) \in Endpoint
         /\ ControlPlaneEndpoint(own, c).host # NoHost => Valid(ControlPlaneEndpoint(own, c))
<1>1. CASE Valid(own)
  BY <1>1 DEF ControlPlaneEndpoint
<1>2. CASE ~Valid(own) /\ Valid(c)
  BY <1>2 DEF ControlPlaneEndpoint
<1>3. CASE ~Valid(own) /\ ~Valid(c)
  <2> DEFINE host == IF c.host # NoHost THEN c.host ELSE own.host
             port == IF c.port # 0 THEN c.port ELSE own.port
  <2>1. ControlPlaneEndpoint(own, c) = [host |-> host, port |-> IF port # 0 THEN port ELSE KubernetesAPIPort]
    BY <1>3 DEF ControlPlaneEndpoint
  <2>2. host \in Hosts \cup {NoHost} /\ port \in Ports \cup {0, KubernetesAPIPort}
    BY DEF Endpoint
  <2>3. KubernetesAPIPort # 0
    BY DEF KubernetesAPIPort
  <2> QED BY <2>1, <2>2, <2>3 DEF Endpoint, Valid
<1> QED BY <1>1, <1>2, <1>3

LEMMA NowIsAWorld ==
  ASSUME GateTypeOK
  PROVE  Now \in World
BY DEF GateTypeOK, Now, World

LEMMA NothingRead ==
  /\ NoTinkerbellCluster \in TinkerbellClusterRec
  /\ ~NoTinkerbellCluster.owned
  /\ NoTinkerbellCluster.endpoint.host = NoHost /\ NoTinkerbellCluster.endpoint.port = 0
  /\ NoCluster \in ClusterRec
BY DEF NoTinkerbellCluster, TinkerbellClusterRec, NoCluster, ClusterRec, NoEndpoint, Endpoint

\* SetReady's patch: what it leaves of a valid endpoint is covered by what there
\* is, so the outcome is valid, and nothing is taken back.
LEMMA MergedIsValid ==
  ASSUME NEW old \in Endpoint, NEW e \in Endpoint, NEW current \in Endpoint,
         Covers(current, old), e.host # NoHost, Valid(e)
  PROVE  /\ Merged(old, e, current) \in Endpoint
         /\ Valid(Merged(old, e, current))
         /\ Covers(Merged(old, e, current), current)
BY DEF Merged, Endpoint, Valid, Covers

LEMMA MergedIntoItsBase ==
  ASSUME NEW e \in Endpoint, NEW current \in Endpoint
  PROVE  Merged(current, e, current) = e
BY DEF Merged, Endpoint

LEMMA MergedIntoItself ==
  ASSUME NEW old \in Endpoint, NEW current \in Endpoint
  PROVE  Merged(old, current, current) = current
BY DEF Merged, Endpoint

LEMMA InitInv == GateInit => GateInv
<1> SUFFICES ASSUME GateInit PROVE GateInv
  OBVIOUS
<1>1. NoEndpoint \in Endpoint /\ ~Valid(NoEndpoint)
  BY DEF NoEndpoint, Endpoint, Valid
<1>2. NoCluster \in ClusterRec /\ ~NoCluster.exists /\ ~NoCluster.paused
  BY <1>1 DEF NoCluster, ClusterRec
<1>3. tc \in TinkerbellClusterRec /\ ~tc.owned /\ ~tc.ready
  <2>1. PICK u \in UserClusters : tc = [labelled |-> u.labelled, owned |-> FALSE,
                                        ready |-> FALSE, endpoint |-> u.endpoint]
    BY DEF GateInit
  <2>2. u.labelled \in BOOLEAN /\ u.endpoint \in Endpoint
    BY EndpointAssumption
  <2> QED BY <2>1, <2>2 DEF TinkerbellClusterRec
<1>4. seen = [cluster |-> NoCluster, tc |-> tc, linked |-> {}, named |-> {}]
  BY DEF GateInit, Now
<1>5. seen \in World
  BY <1>2, <1>3, <1>4 DEF World
<1>6. GateTypeOK
  BY <1>2, <1>3, <1>5, NothingRead, GateBounds DEF GateInit, GateTypeOK, Secrets
<1>7. CopiesAgree
  BY <1>2, <1>3, <1>4, NothingRead DEF GateInit, CopiesAgree, Covers
<1> QED BY <1>6, <1>7 DEF GateInv

-------------------------------------------------------------------------------
(* Types *)

LEMMA ClusterControllerKeepsTypes ==
  ASSUME GateInv, ClusterController \/ ClusterFault
  PROVE  GateTypeOK'
<1> USE DEF GateInv, GateTypeOK, machineWorker, clusterWorker, bounds, objects
<1>1. CASE StartCluster
  BY <1>1 DEF StartCluster, World
<1>2. CASE GetCluster
  BY <1>2, NothingRead DEF GetCluster, ReturnCluster, World
<1>3. CASE Adopt
  <2>1. tc' \in TinkerbellClusterRec /\ tc'.ready = tc.ready /\ tc'.endpoint = tc.endpoint
    BY <1>3 DEF Adopt, TinkerbellClusterRec
  <2> QED BY <1>3, <2>1, NothingRead DEF Adopt, ReturnCluster, Valid
<1>4. CASE SetReady
  <2> DEFINE e == ControlPlaneEndpoint(tcRead.endpoint, found.endpoint)
  <2>1. e \in Endpoint /\ (e.host # NoHost => Valid(e))
    BY EndpointIsValid DEF TinkerbellClusterRec, ClusterRec
  <2>2. CASE e.host = NoHost
    BY <1>4, <2>2, NothingRead DEF SetReady, ReturnCluster
  <2>3. CASE e.host # NoHost
    <3> DEFINE merged == Merged(tcRead.endpoint, e, tc.endpoint)
    <3>1. tc' = [tc EXCEPT !.ready = TRUE, !.endpoint = merged]
      BY <1>4, <2>3 DEF SetReady
    <3>2. merged \in Endpoint /\ Valid(merged)
      BY <2>1, <2>3, MergedIsValid DEF TinkerbellClusterRec, CopiesAgree
    <3> HIDE DEF merged, e
    <3>3. tc' \in TinkerbellClusterRec /\ Valid(tc'.endpoint)
      BY <3>1, <3>2 DEF TinkerbellClusterRec
    <3> QED BY <1>4, <3>3, NothingRead DEF SetReady, ReturnCluster
  <2> QED BY <2>2, <2>3
<1>5. CASE ClusterFault
  BY <1>5, NothingRead, GateBounds DEF ClusterFault, ReturnCluster
<1> QED BY <1>1, <1>2, <1>3, <1>4, <1>5 DEF ClusterController

LEMMA MachineControllerKeepsTypes ==
  ASSUME GateInv, NEW m \in Machines, MachineController(m) \/ MachineFault(m)
  PROVE  GateTypeOK'
<1> USE DEF GateInv, GateTypeOK, clusterWorker, bounds, objects, Goto
<1>1. CASE StartMachine(m)
  BY <1>1 DEF StartMachine, machineWorker
<1>2. CASE LookAtCluster(m)
  BY <1>2 DEF LookAtCluster
<1>3. CASE GetSecret(m)
  BY <1>3 DEF GetSecret
<1>4. CASE GetReady(m)
  BY <1>4 DEF GetReady
<1>5. CASE MachineFault(m)
  BY <1>5, GateBounds DEF MachineFault
<1> QED BY <1>1, <1>2, <1>3, <1>4, <1>5 DEF MachineController

LEMMA InformersKeepTypes ==
  ASSUME GateInv, Informers \/ Resync \/ \E m \in Machines : HandleMachine(m)
  PROVE  GateTypeOK'
<1> USE DEF GateInv, GateTypeOK, machineWorker, clusterWorker, bounds, objects
<1>1. CASE SyncTinkerbellMachines \/ SyncMachines
  BY <1>1, NowIsAWorld DEF SyncTinkerbellMachines, SyncMachines, World
<1>2. CASE SyncCluster
  BY <1>2 DEF SyncCluster, World
<1>3. CASE SyncTinkerbellCluster
  BY <1>3 DEF SyncTinkerbellCluster, World
<1>4. CASE HandleCluster \/ HandleTinkerbellCluster
  BY <1>4 DEF HandleCluster, HandleTinkerbellCluster
<1>5. CASE Resync \/ \E m \in Machines : HandleMachine(m)
  BY <1>5 DEF Resync, HandleMachine
<1> QED BY <1>1, <1>2, <1>3, <1>4, <1>5 DEF Informers

\* The changes of objects that are nobody's return or event.
LEMMA OthersKeepTypes ==
  ASSUME GateInv, CAPI \/ \E m \in Machines : Link(m) \/ Bootstrap(m)
  PROVE  GateTypeOK'
<1> USE DEF GateInv, GateTypeOK, machineWorker, clusterWorker, untouched
<1>1. CASE CreateCluster
  <2>1. PICK e \in ClusterEndpoints : cluster' = [NoCluster EXCEPT !.exists = TRUE, !.endpoint = e]
    BY <1>1 DEF CreateCluster
  <2>2. cluster' \in ClusterRec
    BY <2>1, EndpointAssumption DEF ClusterRec, NoCluster
  <2> QED BY <1>1, <2>2 DEF CreateCluster
<1>2. CASE SetClusterEndpoint
  <2>1. cluster' \in ClusterRec
    BY <1>2, EndpointAssumption DEF SetClusterEndpoint, ClusterRec
  <2> QED BY <1>2, <2>1 DEF SetClusterEndpoint
<1>3. CASE ProvisionCluster
  <2>1. cluster' \in ClusterRec
    BY <1>3 DEF ProvisionCluster, ClusterRec, TinkerbellClusterRec
  <2> QED BY <1>3, <2>1 DEF ProvisionCluster
<1>4. CASE OwnTinkerbellCluster
  <2>1. tc' \in TinkerbellClusterRec /\ tc'.ready = tc.ready /\ tc'.endpoint = tc.endpoint
    BY <1>4 DEF OwnTinkerbellCluster, TinkerbellClusterRec
  <2> QED BY <1>4, <2>1 DEF OwnTinkerbellCluster, Valid
<1>5. CASE Pause \/ Unpause
  <2>1. cluster' \in ClusterRec
    BY <1>5 DEF Pause, Unpause, ClusterRec
  <2> QED BY <1>5, <2>1, GateBounds DEF Pause, Unpause
<1>6. CASE \E m \in Machines : Link(m) \/ Bootstrap(m)
  <2> PICK m \in Machines : Link(m) \/ Bootstrap(m)
    BY <1>6
  <2>1. linked' \subseteq Machines /\ secret' \in [Machines -> Secrets]
    BY DEF Link, Bootstrap, Secrets
  <2> QED BY <2>1 DEF Link, Bootstrap
<1> QED BY <1>1, <1>2, <1>3, <1>4, <1>5, <1>6 DEF CAPI

LEMMA StepKeepsTypes ==
  ASSUME GateInv, [GateNext]_vars
  PROVE  GateTypeOK'
<1>1. CASE UNCHANGED vars
  BY <1>1 DEF GateInv, GateTypeOK, vars, objects, machineWorker, clusterWorker, bounds
<1>2. CASE GateNext
  BY <1>2, ClusterControllerKeepsTypes, MachineControllerKeepsTypes, InformersKeepTypes,
     OthersKeepTypes DEF GateNext
<1> QED BY <1>1, <1>2

-------------------------------------------------------------------------------
(* Copies *)

\* Only GetCluster, Adopt, SetReady and the caches touch what CopiesAgree
\* relates; a worker's step to setReady finds the owner reference in what it
\* has read, or writes it.
LEMMA ClusterControllerKeepsCopies ==
  ASSUME GateInv, ClusterController \/ ClusterFault
  PROVE  CopiesAgree'
<1> USE DEF GateInv, GateTypeOK, CopiesAgree, objects
<1>1. CASE StartCluster
  BY <1>1 DEF StartCluster
<1>2. CASE GetCluster
  BY <1>2, NothingRead DEF GetCluster, ReturnCluster, Covers
<1>3. CASE Adopt
  <2>1. tc'.owned /\ tc'.ready = tc.ready /\ tc'.endpoint = tc.endpoint
    BY <1>3 DEF Adopt, TinkerbellClusterRec
  <2> QED BY <1>3, <2>1, NothingRead DEF Adopt, ReturnCluster, Covers
<1>4. CASE SetReady
  <2> DEFINE e == ControlPlaneEndpoint(tcRead.endpoint, found.endpoint)
  <2>1. e \in Endpoint /\ (e.host # NoHost => Valid(e))
    BY EndpointIsValid DEF TinkerbellClusterRec, ClusterRec
  <2>2. tc'.owned = tc.owned /\ (tc.ready => tc'.ready)
    BY <1>4 DEF SetReady, TinkerbellClusterRec
  <2>3. Covers(tc'.endpoint, tc.endpoint)
    <3>1. CASE e.host = NoHost
      BY <1>4, <3>1 DEF SetReady, Covers
    <3>2. CASE e.host # NoHost
      <4> DEFINE merged == Merged(tcRead.endpoint, e, tc.endpoint)
      <4>1. Covers(merged, tc.endpoint)
        BY <2>1, <3>2, MergedIsValid DEF TinkerbellClusterRec
      <4>2. tc'.endpoint = merged
        BY <1>4, <3>2 DEF SetReady, TinkerbellClusterRec
      <4> QED BY <4>1, <4>2
    <3> QED BY <3>1, <3>2
  <2>4. UNCHANGED <<cluster, seen>> /\ tcPc = "setReady" /\ tcPc' = "idle"
        /\ tcRead' = NoTinkerbellCluster
    BY <1>4 DEF SetReady, ReturnCluster
  <2> HIDE DEF e
  <2> QED BY <2>2, <2>3, <2>4, NothingRead DEF Covers
<1>5. CASE ClusterFault
  BY <1>5, NothingRead DEF ClusterFault, ReturnCluster, Covers
<1> QED BY <1>1, <1>2, <1>3, <1>4, <1>5 DEF ClusterController

LEMMA MachineControllerKeepsCopies ==
  ASSUME GateInv, NEW m \in Machines, MachineController(m) \/ MachineFault(m)
  PROVE  CopiesAgree'
BY DEF GateInv, CopiesAgree, MachineController, MachineFault, StartMachine,
       LookAtCluster, GetSecret, GetReady, objects, clusterWorker

LEMMA InformersKeepCopies ==
  ASSUME GateInv, Informers \/ Resync \/ \E m \in Machines : HandleMachine(m)
  PROVE  CopiesAgree'
<1> USE DEF GateInv, GateTypeOK, CopiesAgree, objects, clusterWorker
<1>1. CASE SyncTinkerbellMachines \/ SyncMachines
  BY <1>1 DEF SyncTinkerbellMachines, SyncMachines, World
<1>2. CASE SyncCluster
  BY <1>2 DEF SyncCluster, World
<1>3. CASE SyncTinkerbellCluster
  BY <1>3 DEF SyncTinkerbellCluster, World, Covers
<1>4. CASE \/ HandleCluster \/ HandleTinkerbellCluster \/ Resync
           \/ \E m \in Machines : HandleMachine(m)
  BY <1>4 DEF HandleCluster, HandleTinkerbellCluster, Resync, HandleMachine
<1> QED BY <1>1, <1>2, <1>3, <1>4 DEF Informers

LEMMA OthersKeepCopies ==
  ASSUME GateInv, CAPI \/ \E m \in Machines : Link(m) \/ Bootstrap(m)
  PROVE  CopiesAgree'
<1> USE DEF GateInv, GateTypeOK, CopiesAgree, untouched, clusterWorker
<1>1. CASE CreateCluster
  <2>1. cluster'.exists
    BY <1>1 DEF CreateCluster, NoCluster
  <2> QED BY <1>1, <2>1 DEF CreateCluster
<1>2. CASE SetClusterEndpoint \/ ProvisionCluster \/ Pause \/ Unpause
  <2>1. ASSUME SetClusterEndpoint PROVE cluster'.exists
    <3>1. PICK e \in ClusterEndpoints : cluster' = [cluster EXCEPT !.endpoint = e]
      BY <2>1 DEF SetClusterEndpoint
    <3> QED BY <2>1, <3>1 DEF SetClusterEndpoint, ClusterRec
  <2>2. ASSUME ProvisionCluster \/ Pause \/ Unpause PROVE cluster'.exists
    BY <2>2 DEF ProvisionCluster, Pause, Unpause, ClusterRec
  <2> QED BY <1>2, <2>1, <2>2 DEF SetClusterEndpoint, ProvisionCluster, Pause, Unpause
<1>3. CASE OwnTinkerbellCluster
  <2>1. tc'.owned /\ tc'.ready = tc.ready /\ tc'.endpoint = tc.endpoint
    BY <1>3 DEF OwnTinkerbellCluster, TinkerbellClusterRec
  <2> QED BY <1>3, <2>1 DEF OwnTinkerbellCluster
<1>4. CASE \E m \in Machines : Link(m) \/ Bootstrap(m)
  BY <1>4 DEF Link, Bootstrap
<1> QED BY <1>1, <1>2, <1>3, <1>4 DEF CAPI

LEMMA StepKeepsInv == GateInv /\ [GateNext]_vars => GateInv'
<1> SUFFICES ASSUME GateInv, [GateNext]_vars PROVE GateInv'
  OBVIOUS
<1>1. CopiesAgree'
  <2>1. CASE UNCHANGED vars
    BY <2>1 DEF GateInv, CopiesAgree, vars, objects, clusterWorker
  <2>2. CASE GateNext
    BY <2>2, ClusterControllerKeepsCopies, MachineControllerKeepsCopies,
       InformersKeepCopies, OthersKeepCopies DEF GateNext
  <2> QED BY <2>1, <2>2
<1> QED BY <1>1, StepKeepsTypes DEF GateInv

THEOREM GateInvariant == GateSpec => []GateInv
BY InitInv, StepKeepsInv, PTL DEF GateSpec

\* A TinkerbellCluster that is ready has a valid endpoint, whatever parts of it
\* users put where and however old the copies are it is put together from
\* (controlPlaneEndpoint); and every variable keeps its kind.
THEOREM GateTypeCorrect == GateSpec => []GateTypeOK
<1>1. GateInv => GateTypeOK
  BY DEF GateInv
<1> QED BY <1>1, GateInvariant, PTL

-------------------------------------------------------------------------------
(* Wakeups *)

\* A return that puts nothing back is taken for a reason the caches show, and
\* the reason is gone only by a step that leaves a key or an event.
LEMMA StepKeepsWakeups ==
  ASSUME GateInv, NoLostWakeup, [GateNext]_vars
  PROVE  NoLostWakeup'
<1> USE DEF NoLostWakeup
<1>1. CASE UNCHANGED vars
  BY <1>1 DEF vars, objects, machineWorker, clusterWorker, bounds
<1>2. CASE ClusterController \/ ClusterFault
  <2>1. UNCHANGED <<pc, passed, queue, events, woken, seen>>
    BY <1>2 DEF ClusterController, ClusterFault, StartCluster, GetCluster, Adopt, SetReady,
                machineWorker
  <2> QED BY <2>1
<1>3. ASSUME NEW m \in Machines, MachineController(m) \/ MachineFault(m)
      PROVE  NoLostWakeup'
  <2> USE DEF Goto
  <2> SUFFICES ASSUME NEW x \in Machines, x \notin passed', x \notin queue', x \notin woken', pc'[x] = "idle",
                      events' = {}
               PROVE  x \notin seen.linked \/ x \notin seen.named
                        \/ seen.cluster.paused \/ ~seen.tc.ready
    BY <1>3 DEF MachineController, StartMachine, LookAtCluster, GetSecret, GetReady,
                MachineFault
  <2>1. pc \in [Machines -> {"idle", "getCluster", "getSecret", "getReady"}]
    BY DEF GateInv, GateTypeOK
  <2>2. CASE x # m
    <3>1. /\ pc[x] = "idle" /\ x \notin queue /\ x \notin passed
          /\ x \notin woken /\ events = {}
      BY <1>3, <2>1, <2>2 DEF MachineController, StartMachine, LookAtCluster, GetSecret,
                              GetReady, MachineFault, machineWorker
    <3> QED BY <3>1
  <2>3. CASE x = m
    <3>1. CASE StartMachine(m)
      BY <3>1, <2>1, <2>3 DEF StartMachine
    <3>2. CASE LookAtCluster(m)
      BY <3>2, <2>1, <2>3 DEF LookAtCluster
    <3>3. CASE GetSecret(m)
      BY <3>3, <2>1, <2>3 DEF GetSecret
    <3>4. CASE GetReady(m)
      BY <3>4, <2>1, <2>3 DEF GetReady
    <3>5. CASE MachineFault(m)
      BY <3>5, <2>1, <2>3 DEF MachineFault
    <3> QED BY <1>3, <3>1, <3>2, <3>3, <3>4, <3>5 DEF MachineController
  <2> QED BY <2>2, <2>3
<1>4. CASE SyncTinkerbellMachines \/ SyncMachines
  <2>1. /\ seen'.linked \subseteq seen.linked \cup woken'
        /\ seen'.named \subseteq seen.named \cup woken'
        /\ seen'.cluster = seen.cluster /\ seen'.tc = seen.tc
    BY <1>4 DEF SyncTinkerbellMachines, SyncMachines, GateInv, GateTypeOK, World
  <2>2. woken \subseteq woken' /\ UNCHANGED <<pc, passed, queue, events>>
    BY <1>4 DEF SyncTinkerbellMachines, SyncMachines, machineWorker
  <2> QED BY <2>1, <2>2
<1>5. CASE SyncCluster
  <2>1. /\ seen'.linked = seen.linked /\ seen'.named = seen.named
        /\ seen'.cluster = cluster /\ seen'.tc = seen.tc
    BY <1>5 DEF SyncCluster, GateInv, GateTypeOK, World
  <2>2. events' = {} => events = {} /\ (seen.cluster.paused => cluster.paused)
    BY <1>5 DEF SyncCluster, GateInv, CopiesAgree, GateTypeOK, ClusterRec, World
  <2> QED BY <1>5, <2>1, <2>2 DEF SyncCluster, machineWorker
<1>6. CASE SyncTinkerbellCluster
  BY <1>6 DEF SyncTinkerbellCluster
<1>7. CASE HandleCluster \/ Resync
  BY <1>7 DEF HandleCluster, Resync
<1>8. CASE HandleTinkerbellCluster
  <2>1. seen.tc.ready => seen.tc.owned /\ seen.cluster.exists
    BY DEF GateInv, CopiesAgree
  <2> QED BY <1>8, <2>1 DEF HandleTinkerbellCluster, machineWorker
<1>9. CASE \E m \in Machines : HandleMachine(m)
  BY <1>9 DEF HandleMachine, machineWorker
<1>10. CASE CAPI \/ \E m \in Machines : Link(m) \/ Bootstrap(m)
  <2>1. UNCHANGED <<seen, events, woken, queue, pc, passed>>
    BY <1>10 DEF CAPI, CreateCluster, SetClusterEndpoint, ProvisionCluster,
                OwnTinkerbellCluster, Pause, Unpause, Link, Bootstrap, untouched, machineWorker
  <2> QED BY <2>1
<1> QED BY <1>1, <1>2, <1>3, <1>4, <1>5, <1>6, <1>7, <1>8, <1>9, <1>10
        DEF GateNext, Informers

\* No wakeup is lost: for any number of machines, with caches however far
\* behind, a machine that nothing will wake has, in what the caches show, a
\* reason to wait.
THEOREM WakeupsAreKept == GateSpec => []NoLostWakeup
<1>1. GateInit => NoLostWakeup
  BY DEF GateInit, NoLostWakeup
<1>2. GateInv /\ NoLostWakeup /\ [GateNext]_vars => NoLostWakeup'
  BY StepKeepsWakeups
<1> QED BY <1>1, <1>2, GateInvariant, PTL DEF GateSpec

-------------------------------------------------------------------------------
(* Endpoints *)

\* The endpoints that a Reconcile of the TinkerbellCluster under way, or one
\* that starts now, may put together: of the TinkerbellCluster, of the Cluster.
Ours == {seen.tc.endpoint} \cup (IF tcPc = "idle" THEN {} ELSE {tcRead.endpoint})

Theirs ==
  (IF cluster.exists THEN {cluster.endpoint} ELSE {})
  \cup (IF seen.cluster.exists THEN {seen.cluster.endpoint} ELSE {})
  \cup (IF tcPc \in {"adopt", "setReady"} THEN {found.endpoint} ELSE {})

\* Before ready, all of them make the same endpoint or none; after, the one
\* there is.
EndpointsAgree ==
  /\ ~tc.ready =>
       /\ \A o \in Ours : o = tc.endpoint
       /\ \A c, d \in Theirs :
            \/ ControlPlaneEndpoint(tc.endpoint, c).host = NoHost
            \/ ControlPlaneEndpoint(tc.endpoint, d).host = NoHost
            \/ ControlPlaneEndpoint(tc.endpoint, c) = ControlPlaneEndpoint(tc.endpoint, d)
  /\ tc.ready =>
       \A o \in Ours :
         \/ o = tc.endpoint
         \/ \A c \in Theirs : \/ ControlPlaneEndpoint(o, c).host = NoHost
                              \/ ControlPlaneEndpoint(o, c) = tc.endpoint
  /\ cluster.endpoint = NoEndpoint => \A c \in Theirs : c = NoEndpoint

LEMMA OwnEndpointFirst ==
  ASSUME NEW own \in Endpoint, NEW c \in Endpoint
  PROVE  /\ Valid(own) => ControlPlaneEndpoint(own, c) = own
         /\ ~Valid(own) /\ Valid(c) => ControlPlaneEndpoint(own, c) = c
BY DEF ControlPlaneEndpoint

LEMMA NobodyNamesAHost ==
  ASSUME NEW own \in Endpoint, own.host = NoHost
  PROVE  ControlPlaneEndpoint(own, NoEndpoint).host = NoHost
BY DEF ControlPlaneEndpoint, NoEndpoint, Valid

LEMMA EndpointTypes ==
  ASSUME GateInv
  PROVE  /\ Ours \subseteq Endpoint /\ Theirs \subseteq Endpoint
         /\ tc.endpoint \in Endpoint /\ cluster.endpoint \in Endpoint
         /\ tcRead.endpoint \in Endpoint /\ found.endpoint \in Endpoint
BY DEF GateInv, GateTypeOK, World, TinkerbellClusterRec, ClusterRec, Ours, Theirs

\* Nothing is lost by looking at less, or at the TinkerbellCluster as it is.
LEMMA FewerCopies ==
  ASSUME EndpointsAgree,
         tc'.ready = tc.ready, tc'.endpoint = tc.endpoint,
         cluster'.endpoint = cluster.endpoint,
         Ours' \subseteq Ours \cup {tc.endpoint}, Theirs' \subseteq Theirs
  PROVE  EndpointsAgree'
<1>1. CASE tc.ready
  BY <1>1 DEF EndpointsAgree
<1>2. CASE ~tc.ready
  <2>1. \A o \in Ours' : o = tc'.endpoint
    BY <1>2 DEF EndpointsAgree
  <2> QED BY <1>2, <2>1 DEF EndpointsAgree
<1> QED BY <1>1, <1>2

LEMMA SetReadyKeepsEndpoints ==
  ASSUME GateInv, EndpointsAgree, SetReady
  PROVE  EndpointsAgree' /\ (tc.ready => tc'.ready /\ tc'.endpoint = tc.endpoint)
<1> DEFINE e == ControlPlaneEndpoint(tcRead.endpoint, found.endpoint)
<1>1. /\ tcRead.endpoint \in Ours /\ found.endpoint \in Theirs
      /\ Ours' = {seen.tc.endpoint} /\ Theirs' \subseteq Theirs
      /\ cluster' = cluster /\ seen.tc.endpoint \in Ours
  BY DEF SetReady, ReturnCluster, Ours, Theirs
<1>2. tc \in TinkerbellClusterRec /\ e \in Endpoint
  BY EndpointIsValid, EndpointTypes DEF GateInv, GateTypeOK
<1>3. CASE e.host = NoHost
  <2>1. tc' = tc
    BY <1>3 DEF SetReady
  <2> HIDE DEF e
  <2> QED BY <1>1, <2>1, FewerCopies
<1>4. CASE e.host # NoHost
  <2>1. tc'.ready /\ tc'.endpoint = Merged(tcRead.endpoint, e, tc.endpoint)
    BY <1>2, <1>4 DEF SetReady, TinkerbellClusterRec
  <2>2. CASE tc.ready
    <3>1. Valid(tc.endpoint)
      BY <2>2 DEF GateInv, GateTypeOK
    <3>2. tcRead.endpoint = tc.endpoint => e = tc.endpoint
      BY <3>1, OwnEndpointFirst, EndpointTypes
    <3>3. e = tc.endpoint
      BY <1>1, <1>4, <2>2, <3>2 DEF EndpointsAgree
    <3> HIDE DEF e
    <3>4. tc'.endpoint = tc.endpoint
      BY <2>1, <3>3, MergedIntoItself, EndpointTypes
    <3> QED BY <1>1, <2>1, <2>2, <3>4, FewerCopies
  <2>3. CASE ~tc.ready
    <3>1. tcRead.endpoint = tc.endpoint /\ seen.tc.endpoint = tc.endpoint
      BY <1>1, <2>3 DEF EndpointsAgree
    <3>2. tc'.endpoint = e
      BY <1>2, <2>1, <3>1, MergedIntoItsBase, EndpointTypes
    <3>3. \A c \in Theirs : \/ ControlPlaneEndpoint(tc.endpoint, c).host = NoHost
                            \/ ControlPlaneEndpoint(tc.endpoint, c) = e
      BY <1>1, <1>4, <2>3, <3>1 DEF EndpointsAgree
    <3>4. cluster'.endpoint = NoEndpoint => \A c \in Theirs' : c = NoEndpoint
      BY <1>1 DEF EndpointsAgree
    <3> HIDE DEF e
    <3> QED BY <1>1, <2>1, <2>3, <3>1, <3>2, <3>3, <3>4 DEF EndpointsAgree
  <2> QED BY <2>2, <2>3
<1> QED BY <1>3, <1>4

\* A user's endpoint comes when nobody has named a host, so that nothing has been
\* put together, or when every copy of the TinkerbellCluster is up to date.
LEMMA SetClusterEndpointKeepsEndpoints ==
  ASSUME ~EditsInFlight, GateInv, EndpointsAgree, SetClusterEndpoint
  PROVE  EndpointsAgree'
<1>1. PICK e \in ClusterEndpoints \ {NoEndpoint} : cluster' = [cluster EXCEPT !.endpoint = e]
  BY DEF SetClusterEndpoint
<1>2. e \in Endpoint /\ e # NoEndpoint /\ cluster'.endpoint = e /\ cluster'.exists
  BY <1>1, EndpointAssumption DEF GateInv, GateTypeOK, ClusterRec, SetClusterEndpoint
<1>3. UNCHANGED <<tc, seen, tcPc, tcRead, found>>
  BY DEF SetClusterEndpoint, untouched, clusterWorker
<1>4. Ours' = Ours /\ Theirs' \subseteq Theirs \cup {e}
  BY <1>2, <1>3 DEF Ours, Theirs
<1>5. \A c \in Theirs : c = NoEndpoint
  BY DEF EndpointsAgree, SetClusterEndpoint
<1>6. CASE tc.ready /\ seen.tc = tc /\ tcPc = "idle"
  <2>1. \A o \in Ours : o = tc.endpoint
    BY <1>6 DEF Ours
  <2> QED BY <1>2, <1>3, <1>4, <1>6, <2>1 DEF EndpointsAgree
<1>7. CASE tc.endpoint.host = NoHost
  <2>1. ~tc.ready
    BY <1>7 DEF GateInv, GateTypeOK, Valid
  <2>2. \A c \in Theirs : ControlPlaneEndpoint(tc.endpoint, c).host = NoHost
    BY <1>5, <1>7, NobodyNamesAHost, EndpointTypes
  <2> QED BY <1>2, <1>3, <1>4, <2>1, <2>2 DEF EndpointsAgree
<1> QED BY <1>6, <1>7 DEF SetClusterEndpoint

\* Cluster API takes over the endpoint the TinkerbellCluster has.
LEMMA ProvisionClusterKeepsEndpoints ==
  ASSUME GateInv, EndpointsAgree, ProvisionCluster
  PROVE  EndpointsAgree'
<1>1. /\ cluster.exists /\ tc.ready /\ Valid(tc.endpoint)
      /\ cluster'.endpoint = (IF Valid(cluster.endpoint) THEN cluster.endpoint ELSE tc.endpoint)
      /\ cluster'.exists
  BY DEF ProvisionCluster, GateInv, GateTypeOK, ClusterRec
<1>2. UNCHANGED <<tc, seen, tcPc, tcRead, found>>
  BY DEF ProvisionCluster, untouched, clusterWorker
<1>3. Ours' = Ours /\ Theirs' \subseteq Theirs \cup {cluster'.endpoint}
  BY <1>1, <1>2 DEF Ours, Theirs
<1>4. cluster.endpoint \in Theirs
  BY <1>1 DEF Theirs
<1>5. CASE Valid(cluster.endpoint)
  BY <1>1, <1>2, <1>3, <1>4, <1>5, FewerCopies
<1>6. CASE ~Valid(cluster.endpoint)
  <2>1. ASSUME NEW o \in Ours, o # tc.endpoint
        PROVE  ControlPlaneEndpoint(o, tc.endpoint) = tc.endpoint
    <3>1. ~Valid(o)
      <4>1. Valid(o) => ControlPlaneEndpoint(o, cluster.endpoint) = o /\ o.host # NoHost
        BY OwnEndpointFirst, EndpointTypes DEF Valid
      <4> QED BY <1>1, <1>4, <2>1, <4>1 DEF EndpointsAgree
    <3> QED BY <1>1, <3>1, OwnEndpointFirst, EndpointTypes
  <2>2. cluster'.endpoint # NoEndpoint
    BY <1>1, <1>6 DEF NoEndpoint, Valid
  <2> QED BY <1>1, <1>2, <1>3, <1>6, <2>1, <2>2 DEF EndpointsAgree
<1> QED BY <1>5, <1>6

\* Before there is a Cluster nobody has a copy of one.
LEMMA CreateClusterKeepsEndpoints ==
  ASSUME GateInv, EndpointsAgree, CreateCluster
  PROVE  EndpointsAgree'
<1>1. PICK e \in ClusterEndpoints : cluster' = [NoCluster EXCEPT !.exists = TRUE, !.endpoint = e]
  BY DEF CreateCluster
<1>2. cluster'.endpoint = e /\ cluster'.exists
  BY <1>1 DEF NoCluster
<1>3. UNCHANGED <<tc, seen, tcPc, tcRead, found>>
  BY DEF CreateCluster, untouched, clusterWorker
<1>4. ~tc.ready /\ ~seen.cluster.exists /\ tcPc \notin {"adopt", "setReady"}
  BY DEF CreateCluster, GateInv, CopiesAgree
<1>5. Ours' = Ours /\ Theirs' = {e}
  BY <1>2, <1>3, <1>4 DEF Ours, Theirs
<1> QED BY <1>2, <1>3, <1>4, <1>5 DEF EndpointsAgree

\* Every other step of the controllers and informers copies what some copy or
\* object already has, or drops a copy.
LEMMA CopyingKeepsEndpoints ==
  ASSUME GateInv, EndpointsAgree,
         \/ StartCluster \/ GetCluster \/ Adopt \/ ClusterFault
         \/ Informers \/ Resync
         \/ \E m \in Machines : MachineController(m) \/ MachineFault(m) \/ HandleMachine(m)
  PROVE  EndpointsAgree' /\ tc'.ready = tc.ready /\ tc'.endpoint = tc.endpoint
<1> USE DEF objects, Ours, Theirs
<1>1. tc \in TinkerbellClusterRec /\ seen \in World
  BY DEF GateInv, GateTypeOK
<1> SUFFICES /\ tc'.ready = tc.ready /\ tc'.endpoint = tc.endpoint
             /\ cluster'.endpoint = cluster.endpoint
             /\ Ours' \subseteq Ours \cup {tc.endpoint} /\ Theirs' \subseteq Theirs
  BY FewerCopies
<1>2. CASE StartCluster
  BY <1>2 DEF StartCluster
<1>3. CASE GetCluster
  BY <1>3 DEF GetCluster, ReturnCluster
<1>4. CASE Adopt
  <2>1. tc'.ready = tc.ready /\ tc'.endpoint = tc.endpoint
    BY <1>1, <1>4 DEF Adopt, TinkerbellClusterRec
  <2> QED BY <1>4, <2>1 DEF Adopt, ReturnCluster
<1>5. CASE ClusterFault
  BY <1>5 DEF ClusterFault, ReturnCluster
<1>6. CASE SyncTinkerbellMachines \/ SyncMachines
  <2>1. seen'.tc = seen.tc /\ seen'.cluster = seen.cluster
    BY <1>1, <1>6 DEF SyncTinkerbellMachines, SyncMachines, World
  <2> QED BY <1>6, <2>1 DEF SyncTinkerbellMachines, SyncMachines, clusterWorker
<1>7. CASE SyncCluster
  <2>1. seen'.tc = seen.tc /\ seen'.cluster = cluster
    BY <1>1, <1>7 DEF SyncCluster, World
  <2> QED BY <1>7, <2>1 DEF SyncCluster, clusterWorker
<1>8. CASE SyncTinkerbellCluster
  <2>1. seen'.tc = tc /\ seen'.cluster = seen.cluster
    BY <1>1, <1>8 DEF SyncTinkerbellCluster, World
  <2> QED BY <1>8, <2>1 DEF SyncTinkerbellCluster, clusterWorker
<1>9. CASE HandleCluster \/ HandleTinkerbellCluster \/ Resync
  BY <1>9 DEF HandleCluster, HandleTinkerbellCluster, Resync, clusterWorker
<1>10. CASE \E m \in Machines : MachineController(m) \/ MachineFault(m) \/ HandleMachine(m)
  BY <1>10 DEF MachineController, MachineFault, StartMachine, LookAtCluster, GetSecret,
               GetReady, HandleMachine, clusterWorker
<1> QED BY <1>2, <1>3, <1>4, <1>5, <1>6, <1>7, <1>8, <1>9, <1>10 DEF Informers

\* And the steps of users and Cluster API that are not about endpoints.
LEMMA OthersKeepEndpoints ==
  ASSUME GateInv, EndpointsAgree,
         \/ OwnTinkerbellCluster \/ Pause \/ Unpause
         \/ \E m \in Machines : Link(m) \/ Bootstrap(m)
  PROVE  EndpointsAgree' /\ tc'.ready = tc.ready /\ tc'.endpoint = tc.endpoint
<1>1. tc \in TinkerbellClusterRec /\ cluster \in ClusterRec
  BY DEF GateInv, GateTypeOK
<1>2. UNCHANGED <<seen, tcPc, tcRead, found>>
  BY DEF OwnTinkerbellCluster, Pause, Unpause, Link, Bootstrap, untouched, clusterWorker
<1>3. /\ tc'.ready = tc.ready /\ tc'.endpoint = tc.endpoint
      /\ cluster'.endpoint = cluster.endpoint /\ cluster'.exists = cluster.exists
  BY <1>1 DEF OwnTinkerbellCluster, Pause, Unpause, Link, Bootstrap, TinkerbellClusterRec,
              ClusterRec
<1>4. Ours' = Ours /\ Theirs' = Theirs
  BY <1>2, <1>3 DEF Ours, Theirs
<1> QED BY <1>3, <1>4, FewerCopies

LEMMA InitEndpoints == GateInit => EndpointsAgree
<1> SUFFICES ASSUME GateInit PROVE EndpointsAgree
  OBVIOUS
<1>1. seen = [cluster |-> NoCluster, tc |-> tc, linked |-> {}, named |-> {}]
  BY DEF GateInit, Now
<1>2. ~tc.ready /\ ~cluster.exists /\ ~seen.cluster.exists /\ tcPc = "idle"
  <2>1. ~tc.ready
    <3>1. PICK u \in UserClusters : tc = [labelled |-> u.labelled, owned |-> FALSE,
                                          ready |-> FALSE, endpoint |-> u.endpoint]
      BY DEF GateInit
    <3> QED BY <3>1
  <2>2. ~NoCluster.exists
    BY DEF NoCluster
  <2> QED BY <1>1, <2>1, <2>2 DEF GateInit
<1>3. Ours = {tc.endpoint} /\ Theirs = {}
  BY <1>1, <1>2 DEF Ours, Theirs
<1> QED BY <1>2, <1>3 DEF EndpointsAgree

LEMMA StepKeepsEndpoints ==
  ASSUME ~EditsInFlight, GateInv, EndpointsAgree, [GateNext]_vars
  PROVE  EndpointsAgree' /\ (tc.ready => tc'.ready /\ tc'.endpoint = tc.endpoint)
<1>1. CASE UNCHANGED vars
  <2>1. UNCHANGED <<cluster, tc, seen, tcPc, tcRead, found>>
    BY <1>1 DEF vars, objects, clusterWorker
  <2>2. Ours' = Ours /\ Theirs' = Theirs
    BY <2>1 DEF Ours, Theirs
  <2> QED BY <2>1, <2>2, FewerCopies
<1>2. CASE SetReady
  BY <1>2, SetReadyKeepsEndpoints
<1>3. CASE SetClusterEndpoint
  BY <1>3, SetClusterEndpointKeepsEndpoints DEF SetClusterEndpoint
<1>4. CASE ProvisionCluster
  BY <1>4, ProvisionClusterKeepsEndpoints DEF ProvisionCluster
<1>5. CASE CreateCluster
  BY <1>5, CreateClusterKeepsEndpoints DEF CreateCluster
<1>6. CASE \/ StartCluster \/ GetCluster \/ Adopt \/ ClusterFault \/ Informers \/ Resync
           \/ \E m \in Machines : MachineController(m) \/ MachineFault(m) \/ HandleMachine(m)
  BY <1>6, CopyingKeepsEndpoints
<1>7. CASE \/ OwnTinkerbellCluster \/ Pause \/ Unpause
           \/ \E m \in Machines : Link(m) \/ Bootstrap(m)
  BY <1>7, OthersKeepEndpoints
<1> QED BY <1>1, <1>2, <1>3, <1>4, <1>5, <1>6, <1>7 DEF GateNext, ClusterController, CAPI

\* As long as users do not edit the Cluster's endpoint while a copy of the
\* TinkerbellCluster is out of date, the endpoint of a ready TinkerbellCluster
\* never changes: a Reconcile that works with old copies writes the endpoint it
\* finds there once more, or none (reconcile, controlPlaneEndpoint).  The run
\* endpoint_edited shows that without the hypothesis it may change.
THEOREM EndpointIsKept ==
  ASSUME ~EditsInFlight
  PROVE  GateSpec => ReadyEndpointIsKept
<1>1. GateInv /\ EndpointsAgree /\ [GateNext]_vars
        => EndpointsAgree' /\ [tc.ready => tc'.ready /\ tc'.endpoint = tc.endpoint]_vars
  BY StepKeepsEndpoints
<1> QED BY <1>1, InitEndpoints, GateInvariant, PTL DEF GateSpec, ReadyEndpointIsKept
===============================================================================
