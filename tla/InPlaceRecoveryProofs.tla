------------------------ MODULE InPlaceRecoveryProofs -------------------------
(***************************************************************************)
(* The in-place recovery never power cycles the node of an update twice,   *)
(* for every timeout, every number of updates and faults, and a cache that *)
(* is however far behind.                                                  *)
(***************************************************************************)
EXTENDS InPlaceRecovery, TLAPS

\* What the worker reads is of its kind.
LEMMA ReadType ==
  ASSUME RecoveryTypeOK
  PROVE  Read \in MachineState
BY DEF RecoveryTypeOK, Read

\* The steps of the worker keep the types.
LEMMA WorkerKeepsTypes ==
  ASSUME RecoveryTypeOK, Worker \/ Fault
  PROVE  RecoveryTypeOK'
<1> USE RecoveryAssumption DEF RecoveryTypeOK, history, environment
<1>1. CASE Reconcile
  <2>1. Read.marker \in BOOLEAN
    BY ReadType DEF MachineState
  <2> QED BY <1>1, <2>1 DEF Reconcile
<1>2. CASE Look
  <2>1. pc' \in {"idle", "clear", "cycle"} /\ (pc' = "cycle" => bmc)
    BY <1>2 DEF Look
  <2> QED BY <1>2, <2>1 DEF Look
<1>3. CASE CreateJob
  <2>1. issued' \in [Updates -> Nat]
    BY <1>3 DEF CreateJob, MachineState, Updates
  <2>2. job' \in {"none", "pending", "done"} /\ bmc'
    BY <1>3 DEF CreateJob
  <2> QED BY <1>3, <2>1, <2>2 DEF CreateJob
<1>4. CASE Mark \/ Clear
  BY <1>4 DEF Mark, Clear, MachineState
<1>5. CASE Fault
  BY <1>5 DEF Fault
<1> QED BY <1>1, <1>2, <1>3, <1>4, <1>5 DEF Worker

\* So do Cluster API, the node, Rufio, the cache and the clock.
LEMMA OthersKeepTypes ==
  ASSUME RecoveryTypeOK, ClusterAPI \/ NodeReturns \/ PowerCycles \/ Sync \/ Tick
  PROVE  RecoveryTypeOK'
<1> USE RecoveryAssumption DEF RecoveryTypeOK, history, environment
<1>1. CASE OutOfDate \/ UpToDate
  <2>1. machine' \in MachineState
    BY <1>1 DEF OutOfDate, UpToDate, MachineState, Never
  <2> QED BY <1>1, <2>1 DEF OutOfDate, UpToDate
<1>2. CASE StartUpdate
  <2>1. machine' \in MachineState /\ started' \in 0..MaxUpdates
    BY <1>2 DEF StartUpdate, MachineState
  <2> QED BY <1>2, <2>1 DEF StartUpdate
<1>3. CASE EndUpdate
  <2>1. machine' \in MachineState
    BY <1>3 DEF EndUpdate, MachineState
  <2> QED BY <1>3, <2>1 DEF EndUpdate
<1>4. CASE NodeReturns
  BY <1>4 DEF NodeReturns
<1>5. CASE PowerCycles
  BY <1>5 DEF PowerCycles
<1>6. CASE Sync
  BY <1>6 DEF Sync
<1>7. CASE Tick
  BY <1>7 DEF Tick
<1> QED BY <1>1, <1>2, <1>3, <1>4, <1>5, <1>6, <1>7 DEF ClusterAPI

\* Every variable keeps its kind, and no Job is made without a BMC.
THEOREM RecoveryTypeCorrect == RecoverySpec => []RecoveryTypeOK
<1>1. RecoveryInit => RecoveryTypeOK
  <2> SUFFICES ASSUME RecoveryInit PROVE RecoveryTypeOK
    OBVIOUS
  <2>1. machine \in MachineState
    BY RecoveryAssumption DEF RecoveryInit, MachineState, Never
  <2>2. seen \in MachineState
    BY <2>1 DEF RecoveryInit
  <2>3. /\ bmc \in BOOLEAN /\ up \in BOOLEAN /\ attempted \in BOOLEAN
        /\ job = "none" /\ pc = "idle"
    BY DEF RecoveryInit
  <2>4. started \in 0..MaxUpdates /\ faults \in 0..MaxFaults /\ clock \in 0..MaxTime
    BY RecoveryAssumption DEF RecoveryInit
  <2>5. issued \in [Updates -> Nat]
    BY DEF RecoveryInit
  <2> QED BY <2>1, <2>2, <2>3, <2>4, <2>5 DEF RecoveryTypeOK
<1>2. RecoveryTypeOK /\ [RecoveryNext]_recoveryVars => RecoveryTypeOK'
  <2>1. CASE UNCHANGED recoveryVars
    BY <2>1 DEF recoveryVars, RecoveryTypeOK
  <2> QED BY <2>1, WorkerKeepsTypes, OthersKeepTypes DEF RecoveryNext
<1> QED BY <1>1, <1>2, PTL DEF RecoverySpec

-------------------------------------------------------------------------------
(***************************************************************************)
(* OneCyclePerUpdate is not inductive: that an update has had no cycle yet *)
(* follows from there being no Job of the name.                            *)
(***************************************************************************)
NoJobNoCycle == job = "none" => \A u \in Updates : issued[u] = 0

\* At first there is neither a Job nor an update that had one.
LEMMA CycleInit == RecoveryInit => OneCyclePerUpdate /\ NoJobNoCycle
BY DEF RecoveryInit, OneCyclePerUpdate, NoJobNoCycle

\* A Job is created once, and no other step touches what has been issued.
LEMMA CycleStep ==
  ASSUME RecoveryTypeOK, OneCyclePerUpdate, NoJobNoCycle, [RecoveryNext]_recoveryVars
  PROVE  OneCyclePerUpdate' /\ NoJobNoCycle'
<1> USE DEF history, environment
<1>1. CASE CreateJob
  <2>1. CASE job # "none"
    BY <1>1, <2>1 DEF CreateJob, OneCyclePerUpdate, NoJobNoCycle
  <2>2. CASE job = "none"
    <3>1. \A u \in Updates : issued'[u] \in {0, 1}
      BY <1>1, <2>2 DEF CreateJob, NoJobNoCycle, RecoveryTypeOK
    <3>2. job' = "pending"
      BY <1>1, <2>2 DEF CreateJob
    <3> QED BY <3>1, <3>2 DEF OneCyclePerUpdate, NoJobNoCycle
  <2> QED BY <2>1, <2>2
<1>2. CASE UNCHANGED issued /\ (job' = "none" => job = "none")
  BY <1>2 DEF OneCyclePerUpdate, NoJobNoCycle
<1>3. ASSUME ~CreateJob PROVE UNCHANGED issued /\ (job' = "none" => job = "none")
  BY <1>3 DEF RecoveryNext, Worker, Reconcile, Look, Mark, Clear, Fault, ClusterAPI,
              OutOfDate, UpToDate, StartUpdate, EndUpdate, NodeReturns, PowerCycles,
              Sync, Tick, recoveryVars
<1> QED BY <1>1, <1>2, <1>3

\* However often the worker loses its place and however stale what it reads,
\* no update has its node power cycled twice.
THEOREM OneCycle == RecoverySpec => []OneCyclePerUpdate
<1>1. RecoveryTypeOK /\ OneCyclePerUpdate /\ NoJobNoCycle /\ [RecoveryNext]_recoveryVars
        => OneCyclePerUpdate' /\ NoJobNoCycle'
  BY CycleStep
<1> QED BY <1>1, CycleInit, RecoveryTypeCorrect, PTL DEF RecoverySpec
===============================================================================
