----------------------- MODULE MachineLifecycleProofs ------------------------
(***************************************************************************)
(* Theorems about the TinkerbellMachine controller, for every number of    *)
(* machines and Hardware, every fault, both modes and both caches: type    *)
(* correctness, what the optimistic locks rely on, exclusive claims, and   *)
(* one Hardware per machine when Hardware is read from the server.         *)
(***************************************************************************)
EXTENDS MachineLifecycle, TLAPS

\* The objects the actions start from are records of their kind.
LEMMA ConstantRecords ==
  /\ NoMachine \in MachineRec
  /\ FreeHardware \in HardwareRec
  /\ [FreeHardware EXCEPT !.exists = FALSE] \in HardwareRec
  /\ NoTask \in TaskRec
  /\ NoSnap \in SnapRec
BY DEF NoMachine, MachineRec, FreeHardware, HardwareRec, NoTask, TaskRec, NoSnap,
       SnapRec, Names, Owners

\* What a worker reads, from the server or a cache, is an object of its kind.
LEMMA ReadType ==
  ASSUME TypeOK
  PROVE  /\ \A m \in Machines : ReadMachine(m) \in MachineRec
         /\ \A h \in Hardware : ReadHardware(h) \in HardwareRec
BY DEF TypeOK, ReadMachine, ReadHardware

\* Changing one field keeps a record of its kind.
LEMMA HardwareUpdate ==
  ASSUME NEW r \in HardwareRec
  PROVE  /\ \A m \in Machines : [r EXCEPT !.owner = m] \in HardwareRec
         /\ \A m \in Machines : [r EXCEPT !.userData = m] \in HardwareRec
         /\ [r EXCEPT !.provisioned = TRUE] \in HardwareRec
         /\ [r EXCEPT !.deleting = TRUE] \in HardwareRec
BY DEF HardwareRec, Owners

\* The same of a TinkerbellMachine: ready, hardwareName, the finalizer and the
\* deletion timestamp change one at a time.
LEMMA MachineUpdate ==
  ASSUME NEW r \in MachineRec
  PROVE  /\ [r EXCEPT !.ready = TRUE] \in MachineRec
         /\ [r EXCEPT !.deleting = TRUE] \in MachineRec
         /\ [r EXCEPT !.finalizer = TRUE] \in MachineRec
         /\ [r EXCEPT !.finalizer = FALSE] \in MachineRec
         /\ \A h \in Names : [r EXCEPT !.hardware = h] \in MachineRec
BY DEF MachineRec

\* The same of a Workflow or Job that ends.
LEMMA TaskUpdate ==
  ASSUME NEW r \in TaskRec
  PROVE  /\ [r EXCEPT !.state = "done"] \in TaskRec
         /\ [r EXCEPT !.state = "failed"] \in TaskRec
BY DEF TaskRec

\* The same of a physical machine that is switched off or imaged.
LEMMA BoxUpdate ==
  ASSUME NEW r \in BoxRec
  PROVE  /\ [r EXCEPT !.on = FALSE] \in BoxRec
         /\ \A x \in Owners : [on |-> TRUE, image |-> x] \in BoxRec
BY DEF BoxRec

\* scope.patch leaves a TinkerbellMachine.
LEMMA PatchedType ==
  ASSUME TypeOK, NEW m \in Machines, NEW now \in MachineRec
  PROVE  Patched(m, now) \in MachineRec
<1> DEFINE old == tm[m]
<1>1. old \in MachineRec /\ read[m] \in MachineRec
  BY DEF TypeOK
<1> QED BY <1>1, ConstantRecords DEF Patched, MachineRec

\* releaseHardware leaves Hardware.
LEMMA ReleasedType ==
  ASSUME NEW copy \in HardwareRec
  PROVE  Released(copy) \in HardwareRec
BY ConstantRecords DEF Released, HardwareRec, Owners

\* A worker that returns from Reconcile leaves every worker's memory of its kind,
\* and a worker on a step on Hardware with one.
LEMMA ReturnType ==
  ASSUME TypeOK, NEW m \in Machines, Return(m)
  PROVE  /\ pc' \in [Machines -> Steps]
         /\ read' \in [Machines -> MachineRec]
         /\ mem' \in [Machines -> MachineRec]
         /\ snap' \in [Machines -> SnapRec]
         /\ fresh' \in SUBSET Machines
         /\ \A x \in Machines : pc'[x] \in Holding => snap'[x].name \in Hardware
BY ConstantRecords DEF Return, Goto, TypeOK, Steps, Holding

\* A worker that takes a copy of Hardware has a copy.
LEMMA TakeType ==
  ASSUME TypeOK, NEW m \in Machines, NEW h \in Hardware, Take(m, h)
  PROVE  /\ snap' \in [Machines -> SnapRec]
         /\ fresh' \in SUBSET Machines
<1>1. [name |-> h, copy |-> ReadHardware(h)] \in SnapRec
  BY ReadType DEF SnapRec, Names
<1> QED BY <1>1 DEF Take, TypeOK

\* A write to Hardware leaves Hardware, and the writer with a copy of it.
LEMMA PatchHardwareType ==
  ASSUME TypeOK, NEW m \in Machines, NEW h \in Hardware, NEW new \in HardwareRec,
         PatchHardware(m, h, new)
  PROVE  /\ hw' \in [Hardware -> HardwareRec]
         /\ hwCurrent' \in SUBSET Hardware
         /\ snap' \in [Machines -> SnapRec]
         /\ fresh' \in SUBSET Machines
<1>1. [name |-> h, copy |-> new] \in SnapRec
  BY DEF SnapRec, Names
<1> QED BY <1>1 DEF PatchHardware, SetHardware, TypeOK

\* Every step of the controller, of Tinkerbell, of the users and of the caches
\* keeps the types.
LEMMA TypeStep == TypeOK /\ [Next]_vars => TypeOK'
<1> SUFFICES ASSUME TypeOK, [Next]_vars PROVE TypeOK'
  OBVIOUS
<1> USE DEF caches, boundVars
<1>1. ASSUME NEW m \in Machines, Reconcile(m) PROVE TypeOK'
  <2>1. pc' \in [Machines -> Steps]
    BY <1>1 DEF Reconcile, Goto, TypeOK, Steps, Provisioning, Deleting
  <2>2. ReadMachine(m) \in MachineRec
    BY ReadType
  <2>3. \A x \in Machines : pc'[x] \in Holding => snap'[x].name \in Hardware
    BY <1>1 DEF Reconcile, Goto, TypeOK, Holding
  <2> QED BY <1>1, <2>1, <2>2, <2>3 DEF Reconcile, TypeOK
<1>2. ASSUME NEW m \in Machines, ListAssigned(m) PROVE TypeOK'
  <2>1. pc' \in [Machines -> Steps]
    BY <1>2 DEF ListAssigned, Goto, TypeOK, Steps, Provisioning
  <2>2. snap' \in [Machines -> SnapRec] /\ fresh' \in SUBSET Machines
    BY <1>2, TakeType DEF ListAssigned, Assigned, TypeOK
  <2>3. \A x \in Machines : pc'[x] \in Holding => snap'[x].name \in Hardware
    BY <1>2 DEF ListAssigned, Take, Goto, Assigned, TypeOK, Holding
  <2> QED BY <1>2, <2>1, <2>2, <2>3 DEF ListAssigned, TypeOK
<1>3. ASSUME NEW m \in Machines, ListFree(m) PROVE TypeOK'
  <2>1. pc' \in [Machines -> Steps]
    BY <1>3 DEF ListFree, Goto, TypeOK, Steps, Provisioning
  <2>2. Best(m, Free(m)) \subseteq Hardware
    BY HardwareAssumption DEF Best, Free
  <2>3. snap' \in [Machines -> SnapRec] /\ fresh' \in SUBSET Machines
    BY <1>3, <2>2, TakeType DEF ListFree, TypeOK
  <2>4. \A x \in Machines : pc'[x] \in Holding => snap'[x].name \in Hardware
    BY <1>3, <2>2 DEF ListFree, Take, Goto, TypeOK, Holding
  <2> QED BY <1>3, <2>1, <2>3, <2>4 DEF ListFree, TypeOK
<1>4. ASSUME NEW m \in Machines, ClaimRefused(m) PROVE TypeOK'
  BY <1>4 DEF ClaimRefused, Goto, TypeOK, Steps, Holding
<1>5. ASSUME NEW m \in Machines, Claim(m) PROVE TypeOK'
  <2>1. pc' \in [Machines -> Steps]
    BY <1>5 DEF Claim, Goto, TypeOK, Steps, Provisioning
  <2>2. snap[m].name \in Hardware /\ snap[m].copy \in HardwareRec
    BY <1>5 DEF Claim, TypeOK, SnapRec, Holding
  <2>3. mem' \in [Machines -> MachineRec]
    BY <1>5, <2>2 DEF Claim, TypeOK, MachineRec, Names
  <2>4. [snap[m].copy EXCEPT !.owner = m] \in HardwareRec
    BY <2>2, HardwareUpdate
  <2>5. /\ hw' \in [Hardware -> HardwareRec]
        /\ hwCurrent' \in SUBSET Hardware
        /\ snap' \in [Machines -> SnapRec]
        /\ fresh' \in SUBSET Machines
    BY <1>5, <2>2, <2>4, PatchHardwareType DEF Claim, TypeOK
  <2>6. \A x \in Machines : pc'[x] \in Holding => snap'[x].name \in Hardware
    BY <1>5, <2>2 DEF Claim, PatchHardware, Goto, TypeOK, Holding
  <2> QED BY <1>5, <2>1, <2>3, <2>5, <2>6 DEF Claim, TypeOK
<1>6. ASSUME NEW m \in Machines, UserData(m) PROVE TypeOK'
  <2>1. pc' \in [Machines -> Steps]
    BY <1>6 DEF UserData, Goto, TypeOK, Steps, Provisioning
  <2>2. snap[m].name \in Hardware
    BY <1>6 DEF UserData, TypeOK, Holding
  <2>3. [hw[snap[m].name] EXCEPT !.userData = m] \in HardwareRec
    BY <2>2, HardwareUpdate DEF TypeOK
  <2>4. /\ hw' \in [Hardware -> HardwareRec]
        /\ hwCurrent' \in SUBSET Hardware
        /\ snap' \in [Machines -> SnapRec]
        /\ fresh' \in SUBSET Machines
    BY <1>6, <2>2, <2>3, PatchHardwareType DEF UserData, TypeOK
  <2>5. \A x \in Machines : pc'[x] \in Holding => snap'[x].name \in Hardware
    BY <1>6, <2>2 DEF UserData, PatchHardware, Goto, TypeOK, Holding
  <2> QED BY <1>6, <2>1, <2>4, <2>5 DEF UserData, TypeOK
<1>7. ASSUME NEW m \in Machines, SetStatus(m) PROVE TypeOK'
  <2>1. pc' \in [Machines -> Steps]
    BY <1>7 DEF SetStatus, Goto, TypeOK, Steps, Provisioning
  <2>2. Patched(m, mem[m]) \in MachineRec
    BY PatchedType DEF TypeOK
  <2>3. mem' \in [Machines -> MachineRec]
    <3>1. [mem[m] EXCEPT !.ready = TRUE] \in MachineRec
      BY MachineUpdate DEF TypeOK
    <3> QED BY <1>7, <3>1 DEF SetStatus, TypeOK
  <2>4. \A x \in Machines : pc'[x] \in Holding => snap'[x].name \in Hardware
    BY <1>7 DEF SetStatus, Goto, TypeOK, Holding
  <2> QED BY <1>7, <2>1, <2>2, <2>3, <2>4 DEF SetStatus, TypeOK
<1>8. ASSUME NEW m \in Machines, GetWorkflow(m) PROVE TypeOK'
  <2>1. pc' \in [Machines -> Steps]
    BY <1>8 DEF GetWorkflow, Goto, TypeOK, Steps, Provisioning
  <2>2. mem' \in [Machines -> MachineRec]
    <3>1. [mem[m] EXCEPT !.ready = TRUE] \in MachineRec
      BY MachineUpdate DEF TypeOK
    <3> QED BY <1>8, <3>1 DEF GetWorkflow, TypeOK
  <2>3. \A x \in Machines : pc'[x] \in Holding => snap'[x].name \in Hardware
    BY <1>8 DEF GetWorkflow, Goto, TypeOK, Holding
  <2> QED BY <1>8, <2>1, <2>2, <2>3 DEF GetWorkflow, TypeOK
<1>9. ASSUME NEW m \in Machines, CreateWorkflow(m) PROVE TypeOK'
  <2>1. pc' \in [Machines -> Steps]
    BY <1>9 DEF CreateWorkflow, Goto, TypeOK, Steps
  <2>2. [state |-> "pending", target |-> snap[m].name] \in TaskRec
    BY DEF TypeOK, SnapRec, TaskRec
  <2>3. \A x \in Machines : pc'[x] \in Holding => snap'[x].name \in Hardware
    BY <1>9 DEF CreateWorkflow, Goto, TypeOK, Holding
  <2> QED BY <1>9, <2>1, <2>2, <2>3 DEF CreateWorkflow, TypeOK
<1>10. ASSUME NEW m \in Machines, MarkProvisioned(m) PROVE TypeOK'
  <2>1. pc' \in [Machines -> Steps]
    BY <1>10 DEF MarkProvisioned, Goto, TypeOK, Steps
  <2>2. snap[m].name \in Hardware
    BY <1>10 DEF MarkProvisioned, TypeOK, Holding
  <2>3. [hw[snap[m].name] EXCEPT !.provisioned = TRUE] \in HardwareRec
    BY <2>2, HardwareUpdate DEF TypeOK
  <2>4. /\ hw' \in [Hardware -> HardwareRec]
        /\ hwCurrent' \in SUBSET Hardware
        /\ snap' \in [Machines -> SnapRec]
        /\ fresh' \in SUBSET Machines
    BY <1>10, <2>2, <2>3, PatchHardwareType DEF MarkProvisioned, TypeOK
  <2>5. \A x \in Machines : pc'[x] \in Holding => snap'[x].name \in Hardware
    BY <1>10, <2>2 DEF MarkProvisioned, PatchHardware, Goto, TypeOK, Holding
  <2> QED BY <1>10, <2>1, <2>4, <2>5 DEF MarkProvisioned, TypeOK
<1>11. ASSUME NEW m \in Machines, AddFinalizer(m) PROVE TypeOK'
  <2>1. [mem[m] EXCEPT !.finalizer = TRUE] \in MachineRec
    BY MachineUpdate DEF TypeOK
  <2>2. Patched(m, [mem[m] EXCEPT !.finalizer = TRUE]) \in MachineRec
    BY <2>1, PatchedType
  <2> QED BY <1>11, <2>2, ReturnType DEF AddFinalizer, TypeOK
<1>12. ASSUME NEW m \in Machines, GetHardware(m) PROVE TypeOK'
  <2>1. mem[m].hardware \in Names
    BY DEF TypeOK, MachineRec
  <2>2. CASE Return(m)
    BY <1>12, <2>2, ReturnType DEF GetHardware, TypeOK
  <2>3. CASE Goto(m, "removeDependencies")
    <3>1. pc' \in [Machines -> Steps]
      BY <2>3 DEF Goto, TypeOK, Steps, Deleting
    <3>2. snap' \in [Machines -> SnapRec] /\ fresh' \in SUBSET Machines
      BY <1>12, <2>1, TakeType, ReturnType DEF GetHardware, TypeOK, Names
    <3>3. read' \in [Machines -> MachineRec] /\ mem' \in [Machines -> MachineRec]
      BY <1>12, ReturnType DEF GetHardware, TypeOK
    <3>4. \A x \in Machines : pc'[x] \in Holding => snap'[x].name \in Hardware
      BY <1>12, <2>1, <2>3 DEF GetHardware, Take, Return, Goto, TypeOK, Holding, Names,
                              Steps, Deleting
    <3> QED BY <1>12, <3>1, <3>2, <3>3, <3>4 DEF GetHardware, TypeOK
  <2> QED BY <1>12, <2>2, <2>3 DEF GetHardware
<1>13. ASSUME NEW m \in Machines, RemoveDependencies(m) PROVE TypeOK'
  <2>1. pc' \in [Machines -> Steps]
    BY <1>13 DEF RemoveDependencies, Goto, TypeOK, Steps, Deleting
  <2>2. \A x \in Machines : pc'[x] \in Holding => snap'[x].name \in Hardware
    BY <1>13, NoneAssumption DEF RemoveDependencies, Goto, TypeOK, SnapRec, Names, Holding
  <2> QED BY <1>13, <2>1, <2>2, ConstantRecords DEF RemoveDependencies, TypeOK
<1>14. ASSUME NEW m \in Machines, PowerOff(m) PROVE TypeOK'
  <2>1. [state |-> "pending", target |-> snap[m].name] \in TaskRec
    BY DEF TypeOK, SnapRec, TaskRec
  <2>2. job' \in [Machines -> TaskRec]
    BY <1>14, <2>1 DEF PowerOff, TypeOK
  <2>3. CASE Return(m)
    BY <1>14, <2>2, <2>3, ReturnType DEF PowerOff, TypeOK
  <2>4. CASE Goto(m, "release") /\ UNCHANGED <<read, mem, snap, fresh>>
    <3>1. pc' \in [Machines -> Steps]
      BY <2>4 DEF Goto, TypeOK, Steps, Deleting
    <3>2. snap[m].name \in Hardware
      BY <1>14 DEF PowerOff, TypeOK, Holding
    <3>3. \A x \in Machines : pc'[x] \in Holding => snap'[x].name \in Hardware
      BY <2>4, <3>2 DEF Goto, TypeOK
    <3> QED BY <1>14, <2>2, <2>4, <3>1, <3>3 DEF PowerOff, TypeOK
  <2> QED BY <1>14, <2>3, <2>4 DEF PowerOff
<1>15. ASSUME NEW m \in Machines, Release(m) PROVE TypeOK'
  <2>1. snap[m].name \in Hardware /\ snap[m].copy \in HardwareRec
    BY <1>15 DEF Release, TypeOK, SnapRec, Holding
  <2>2. CASE Return(m) /\ UNCHANGED <<hw, hwCurrent>>
    BY <1>15, <2>2, ReturnType DEF Release, TypeOK
  <2>3. CASE /\ PatchHardware(m, snap[m].name, Released(snap[m].copy))
             /\ Goto(m, "removeFinalizer")
             /\ UNCHANGED <<read, mem>>
    <3>1. pc' \in [Machines -> Steps]
      BY <2>3 DEF Goto, TypeOK, Steps, Deleting
    <3>2. /\ hw' \in [Hardware -> HardwareRec]
          /\ hwCurrent' \in SUBSET Hardware
          /\ snap' \in [Machines -> SnapRec]
          /\ fresh' \in SUBSET Machines
      BY <2>1, <2>3, ReleasedType, PatchHardwareType
    <3>3. \A x \in Machines : pc'[x] \in Holding => snap'[x].name \in Hardware
      BY <2>1, <2>3 DEF PatchHardware, Goto, TypeOK
    <3> QED BY <1>15, <2>3, <3>1, <3>2, <3>3 DEF Release, TypeOK
  <2> QED BY <1>15, <2>2, <2>3 DEF Release
<1>16. ASSUME NEW m \in Machines, RemoveFinalizer(m) PROVE TypeOK'
  <2>1. [mem[m] EXCEPT !.finalizer = FALSE] \in MachineRec
    BY MachineUpdate DEF TypeOK
  <2>2. Patched(m, [mem[m] EXCEPT !.finalizer = FALSE]) \in MachineRec
    BY <2>1, PatchedType
  <2> QED BY <1>16, <2>2, ReturnType DEF RemoveFinalizer, TypeOK
<1>17. ASSUME NEW m \in Machines, CallFails(m) PROVE TypeOK'
  <2>1. faults' \in 0..MaxFaults
    BY <1>17, BoundAssumption DEF CallFails, TypeOK
  <2>2. CASE Return(m)
    BY <1>17, <2>1, <2>2, ReturnType DEF CallFails, TypeOK
  <2>3. CASE Goto(m, "addFinalizer") /\ UNCHANGED <<read, mem, snap, fresh>>
    <3>1. pc' \in [Machines -> Steps]
      BY <2>3 DEF Goto, TypeOK, Steps
    <3>2. \A x \in Machines : pc'[x] \in Holding => snap'[x].name \in Hardware
      BY <2>3 DEF Goto, TypeOK, Holding
    <3> QED BY <1>17, <2>1, <2>3, <3>1, <3>2 DEF CallFails, TypeOK
  <2> QED BY <1>17, <2>2, <2>3 DEF CallFails
<1>18. ASSUME NEW m \in Machines, Crash(m) PROVE TypeOK'
  <2>1. faults' \in 0..MaxFaults
    BY <1>18, BoundAssumption DEF Crash, TypeOK
  <2> QED BY <1>18, <2>1, ReturnType DEF Crash, TypeOK
<1>19. ASSUME NEW m \in Machines, WorkflowFails(m) \/ WorkflowSucceeds(m) PROVE TypeOK'
  <2>1. faults' \in 0..MaxFaults
    BY <1>19, BoundAssumption DEF WorkflowFails, WorkflowSucceeds, TypeOK
  <2>2. wf' \in [Machines -> TaskRec]
    <3>1. /\ [wf[m] EXCEPT !.state = "done"] \in TaskRec
          /\ [wf[m] EXCEPT !.state = "failed"] \in TaskRec
      BY TaskUpdate DEF TypeOK
    <3> QED BY <1>19, <3>1 DEF WorkflowFails, WorkflowSucceeds, TypeOK
  <2>3. box' \in [Hardware -> BoxRec]
    <3>1. \A x \in Owners : [on |-> TRUE, image |-> x] \in BoxRec
      BY BoxUpdate DEF BoxRec, Owners
    <3> QED BY <1>19, <3>1 DEF WorkflowFails, WorkflowSucceeds, TypeOK, Owners
  <2> QED BY <1>19, <2>1, <2>2, <2>3 DEF WorkflowFails, WorkflowSucceeds, TypeOK
<1>20. ASSUME NEW m \in Machines, PowerOffCompletes(m) \/ PowerOffFails(m) PROVE TypeOK'
  <2>1. faults' \in 0..MaxFaults
    BY <1>20, BoundAssumption DEF PowerOffCompletes, PowerOffFails, TypeOK
  <2>2. job' \in [Machines -> TaskRec]
    <3>1. /\ [job[m] EXCEPT !.state = "done"] \in TaskRec
          /\ [job[m] EXCEPT !.state = "failed"] \in TaskRec
      BY TaskUpdate DEF TypeOK
    <3> QED BY <1>20, <3>1 DEF PowerOffCompletes, PowerOffFails, TypeOK
  <2>3. box' \in [Hardware -> BoxRec]
    <3>1. \A h \in Hardware : [box[h] EXCEPT !.on = FALSE] \in BoxRec
      BY BoxUpdate DEF TypeOK
    <3> QED BY <1>20, <3>1 DEF PowerOffCompletes, PowerOffFails, TypeOK
  <2> QED BY <1>20, <2>1, <2>2, <2>3 DEF PowerOffCompletes, PowerOffFails, TypeOK
<1>21. ASSUME NEW m \in Machines, CreateMachine(m) PROVE TypeOK'
  <2>1. [NoMachine EXCEPT !.exists = TRUE] \in MachineRec
    BY ConstantRecords DEF MachineRec
  <2>2. births' \in [Machines -> 0..MaxBirths]
    BY <1>21, BoundAssumption DEF CreateMachine, TypeOK
  <2> QED BY <1>21, <2>1, <2>2 DEF CreateMachine, TypeOK
<1>22. ASSUME NEW m \in Machines, DeleteMachine(m) PROVE TypeOK'
  <2>1. [tm[m] EXCEPT !.deleting = TRUE] \in MachineRec
    BY MachineUpdate DEF TypeOK
  <2> QED BY <1>22, <2>1, ConstantRecords DEF DeleteMachine, TypeOK
<1>23. ASSUME NEW m \in Machines, CollectGarbage(m) PROVE TypeOK'
  BY <1>23, ConstantRecords DEF CollectGarbage, TypeOK
<1>24. ASSUME NEW h \in Hardware, DeleteHardware(h) PROVE TypeOK'
  <2>1. [hw[h] EXCEPT !.deleting = TRUE] \in HardwareRec
    BY HardwareUpdate DEF TypeOK
  <2>2. hw' \in [Hardware -> HardwareRec] /\ hwCurrent' \in SUBSET Hardware
    BY <1>24, <2>1, ConstantRecords DEF DeleteHardware, SetHardware, TypeOK
  <2> QED BY <1>24, <2>2 DEF DeleteHardware, TypeOK
<1>25. CASE SyncMachines \/ SyncHardware
  BY <1>25 DEF SyncMachines, SyncHardware, TypeOK
<1>26. CASE UNCHANGED vars
  BY <1>26 DEF vars, TypeOK
<1>27. ASSUME NEW m \in Machines, PatchFailsHalfway(m) PROVE TypeOK'
  <2>1. /\ [mem[m] EXCEPT !.finalizer = TRUE, !.ready = read[m].ready] \in MachineRec
        /\ [read[m] EXCEPT !.ready = mem[m].ready] \in MachineRec
    <3>1. \A r \in MachineRec : \A b \in BOOLEAN :
            /\ [r EXCEPT !.ready = b] \in MachineRec
            /\ [r EXCEPT !.finalizer = TRUE, !.ready = b] \in MachineRec
      BY DEF MachineRec
    <3>2. read[m] \in MachineRec /\ mem[m] \in MachineRec
      BY DEF TypeOK
    <3>3. read[m].ready \in BOOLEAN /\ mem[m].ready \in BOOLEAN
      BY <3>2 DEF MachineRec
    <3> QED BY <3>1, <3>2, <3>3
  <2>2. \E new \in MachineRec : tm' = [tm EXCEPT ![m] = new]
    BY <1>27, <2>1, PatchedType DEF PatchFailsHalfway
  <2>3. faults' \in 0..MaxFaults
    BY <1>27, BoundAssumption DEF PatchFailsHalfway, TypeOK
  <2> QED BY <1>27, <2>2, <2>3, ReturnType DEF PatchFailsHalfway, TypeOK
<1> QED
  BY <1>1, <1>2, <1>3, <1>4, <1>5, <1>6, <1>7, <1>8, <1>9, <1>10, <1>11, <1>12, <1>13,
     <1>14, <1>15, <1>16, <1>17, <1>18, <1>19, <1>20, <1>21, <1>22, <1>23, <1>24, <1>25,
     <1>26, <1>27
     DEF Next, Worker, Fault, Tinkerbell, Environment

\* The initial state is of its type.
LEMMA TypeInit == Init => TypeOK
BY ConstantRecords, BoundAssumption
   DEF Init, TypeOK, BoxRec, Owners, Steps, Holding

\* Every variable of the controller, the API objects and the caches stays of
\* its kind, and a step on Hardware always holds one.
THEOREM TypeCorrect == Spec => []TypeOK
<1>1. Init => TypeOK
  BY TypeInit
<1>2. TypeOK /\ [Next]_vars => TypeOK'
  BY TypeStep
<1> QED BY <1>1, <1>2, PTL DEF Spec

-------------------------------------------------------------------------------
(***************************************************************************)
(* A copy of Hardware that carries the server's resourceVersion is the     *)
(* server's object: what the optimistic lock of takeHardwareOwnership and  *)
(* releaseHardware relies on.                                              *)
(***************************************************************************)
CopiesAreCurrent ==
  /\ \A h \in hwCurrent : hwSeen[h] = hw[h]
  /\ \A m \in fresh : snap[m].name \in Hardware /\ snap[m].copy = hw[snap[m].name]

\* A copy just taken is current if it counts as current.
LEMMA TakeKeepsCopies ==
  ASSUME TypeOK, CopiesAreCurrent, NEW m \in Machines, NEW h \in Hardware,
         Take(m, h), UNCHANGED <<hw, hwSeen, hwCurrent>>
  PROVE  CopiesAreCurrent'
BY ModeAssumption DEF CopiesAreCurrent, Take, TypeOK, ReadIsCurrent, ReadHardware

\* A write overtakes every copy of the Hardware but the writer's.
LEMMA PatchKeepsCopies ==
  ASSUME TypeOK, CopiesAreCurrent, NEW m \in Machines, NEW h \in Hardware, NEW new,
         PatchHardware(m, h, new), UNCHANGED hwSeen
  PROVE  CopiesAreCurrent'
<1>1. ASSUME NEW g \in hwCurrent' PROVE hwSeen'[g] = hw'[g]
  BY <1>1 DEF CopiesAreCurrent, PatchHardware, SetHardware, TypeOK
<1>2. ASSUME NEW x \in fresh'
      PROVE  snap'[x].name \in Hardware /\ snap'[x].copy = hw'[snap'[x].name]
  BY <1>2 DEF CopiesAreCurrent, PatchHardware, SetHardware, HoldersOf, TypeOK
<1> QED BY <1>1, <1>2 DEF CopiesAreCurrent

\* A worker that drops its copy makes no other copy stale.
LEMMA ReturnKeepsCopies ==
  ASSUME TypeOK, CopiesAreCurrent, NEW m \in Machines, Return(m),
         UNCHANGED <<hw, hwSeen, hwCurrent>>
  PROVE  CopiesAreCurrent'
BY DEF CopiesAreCurrent, Return, TypeOK

\* Every step keeps the copies that count as current equal to the server's.
LEMMA CopiesStep == TypeOK /\ CopiesAreCurrent /\ [Next]_vars => CopiesAreCurrent'
<1> SUFFICES ASSUME TypeOK, CopiesAreCurrent, [Next]_vars PROVE CopiesAreCurrent'
  OBVIOUS
<1> USE DEF caches, boundVars
<1>1. ASSUME NEW m \in Machines, ListAssigned(m) \/ ListFree(m) PROVE CopiesAreCurrent'
  <2>1. Assigned(m) \subseteq Hardware /\ Best(m, Free(m)) \subseteq Hardware
    BY HardwareAssumption DEF Assigned, Best, Free
  <2>2. CASE \E h \in Hardware : Take(m, h)
    BY <1>1, <2>2, TakeKeepsCopies DEF ListAssigned, ListFree
  <2>3. CASE UNCHANGED <<snap, fresh>>
    BY <1>1, <2>3 DEF ListAssigned, ListFree, CopiesAreCurrent
  <2> QED BY <1>1, <2>1, <2>2, <2>3 DEF ListAssigned, ListFree
<1>2. ASSUME NEW m \in Machines, Claim(m) \/ UserData(m) \/ MarkProvisioned(m) \/ Release(m)
      PROVE  CopiesAreCurrent'
  <2>1. snap[m].name \in Hardware
    BY <1>2 DEF Claim, UserData, MarkProvisioned, Release, TypeOK, Holding
  <2>2. CASE \E new : PatchHardware(m, snap[m].name, new)
    BY <1>2, <2>1, <2>2, PatchKeepsCopies DEF Claim, UserData, MarkProvisioned, Release
  <2>3. CASE UNCHANGED <<hw, hwCurrent, snap, fresh>>
    BY <1>2, <2>3 DEF Claim, UserData, MarkProvisioned, Release, CopiesAreCurrent
  <2>4. CASE Return(m) /\ UNCHANGED <<hw, hwCurrent>>
    BY <1>2, <2>4, ReturnKeepsCopies DEF Claim, UserData, MarkProvisioned, Release
  <2> QED BY <1>2, <2>2, <2>3, <2>4 DEF Claim, UserData, MarkProvisioned, Release
<1>3. ASSUME NEW m \in Machines, GetHardware(m) PROVE CopiesAreCurrent'
  <2>1. mem[m].hardware \in Names
    BY DEF TypeOK, MachineRec
  <2>2. CASE Return(m)
    BY <1>3, <2>2, ReturnKeepsCopies DEF GetHardware
  <2>3. CASE mem[m].hardware \in Hardware /\ Take(m, mem[m].hardware)
    BY <1>3, <2>3, TakeKeepsCopies DEF GetHardware
  <2>4. CASE UNCHANGED <<snap, fresh>>
    BY <1>3, <2>4 DEF GetHardware, CopiesAreCurrent
  <2> QED BY <1>3, <2>1, <2>2, <2>3, <2>4 DEF GetHardware, Names
<1>4. ASSUME NEW m \in Machines,
             AddFinalizer(m) \/ RemoveFinalizer(m) \/ PowerOff(m) \/ CallFails(m)
             \/ PatchFailsHalfway(m) \/ Crash(m)
      PROVE  CopiesAreCurrent'
  <2>1. CASE Return(m)
    BY <1>4, <2>1, ReturnKeepsCopies
       DEF AddFinalizer, RemoveFinalizer, PowerOff, CallFails, PatchFailsHalfway, Crash
  <2>2. CASE UNCHANGED <<snap, fresh>>
    BY <1>4, <2>2 DEF AddFinalizer, RemoveFinalizer, PowerOff, CallFails, PatchFailsHalfway, Crash, CopiesAreCurrent
  <2> QED BY <1>4, <2>1, <2>2 DEF AddFinalizer, RemoveFinalizer, PowerOff, CallFails, PatchFailsHalfway, Crash
<1>5. ASSUME NEW m \in Machines,
             \/ Reconcile(m) \/ ClaimRefused(m) \/ SetStatus(m) \/ GetWorkflow(m)
             \/ CreateWorkflow(m) \/ RemoveDependencies(m) \/ WorkflowFails(m)
             \/ PowerOffFails(m) \/ Tinkerbell(m) \/ Environment(m)
      PROVE  CopiesAreCurrent'
  <2>1. UNCHANGED <<hw, hwSeen, hwCurrent, snap, fresh>>
    BY <1>5 DEF Reconcile, ClaimRefused, SetStatus, GetWorkflow, CreateWorkflow,
                RemoveDependencies, WorkflowFails, PowerOffFails, Tinkerbell,
                WorkflowSucceeds, PowerOffCompletes, Environment, CreateMachine,
                DeleteMachine, CollectGarbage
  <2> QED BY <2>1 DEF CopiesAreCurrent
<1>6. ASSUME NEW h \in Hardware, DeleteHardware(h) PROVE CopiesAreCurrent'
  BY <1>6 DEF DeleteHardware, SetHardware, HoldersOf, CopiesAreCurrent, TypeOK
<1>7. CASE SyncMachines \/ SyncHardware
  BY <1>7 DEF SyncMachines, SyncHardware, CopiesAreCurrent
<1>8. CASE UNCHANGED vars
  BY <1>8 DEF vars, CopiesAreCurrent
<1> QED
  BY <1>1, <1>2, <1>3, <1>4, <1>5, <1>6, <1>7, <1>8 DEF Next, Worker, Fault

\* The caches start in step and no worker holds a copy.
LEMMA CopiesInit == Init => CopiesAreCurrent
BY DEF Init, CopiesAreCurrent

\* What the optimistic locks rely on holds whatever fails and however far the
\* caches are behind.
THEOREM CopiesCorrect == Spec => [](TypeOK /\ CopiesAreCurrent)
<1>1. Init => TypeOK /\ CopiesAreCurrent
  BY TypeInit, CopiesInit
<1>2. (TypeOK /\ CopiesAreCurrent) /\ [Next]_vars => (TypeOK /\ CopiesAreCurrent)'
  BY TypeStep, CopiesStep
<1> QED BY <1>1, <1>2, PTL DEF Spec

\* The owner label of Hardware changes in two ways: a worker at its claim
\* takes Hardware that has none, or a release removes it.
LEMMA OwnerStep ==
  ASSUME TypeOK, CopiesAreCurrent, [Next]_vars, NEW h \in Hardware,
         hw'[h].owner # hw[h].owner
  PROVE  \/ hw'[h].owner = None
         \/ \E m \in Machines :
              /\ Claim(m) /\ snap[m].name = h /\ snap[m].copy = hw[h]
              /\ hw[h].owner = None /\ hw'[h].owner = m
<1> USE DEF caches, boundVars
<1>1. ASSUME NEW m \in Machines, Claim(m)
      PROVE  /\ snap[m].name = h /\ snap[m].copy = hw[h]
             /\ hw[h].owner = None /\ hw'[h].owner = m
  <2>1. /\ snap[m].copy.owner = None /\ m \in fresh
        /\ hw' = [hw EXCEPT ![snap[m].name] = [snap[m].copy EXCEPT !.owner = m]]
    BY <1>1 DEF Claim, PatchHardware, SetHardware
  <2>2. snap[m].name = h
    BY <2>1 DEF TypeOK
  <2>3. snap[m].copy = hw[h] /\ hw[h] \in HardwareRec
    BY <2>1, <2>2 DEF CopiesAreCurrent, TypeOK
  <2>4. hw'[h] = [hw[h] EXCEPT !.owner = m]
    BY <2>1, <2>2, <2>3 DEF TypeOK
  <2> QED BY <2>1, <2>2, <2>3, <2>4 DEF HardwareRec
<1>2. ASSUME NEW m \in Machines, UserData(m) \/ MarkProvisioned(m) PROVE FALSE
  <2>1. CASE UNCHANGED hw
    BY <2>1
  <2>2. CASE hw' = [hw EXCEPT ![snap[m].name] = [hw[snap[m].name] EXCEPT !.userData = m]]
    BY <2>2 DEF TypeOK, HardwareRec
  <2>3. CASE hw' = [hw EXCEPT ![snap[m].name] = [hw[snap[m].name] EXCEPT !.provisioned = TRUE]]
    BY <2>3 DEF TypeOK, HardwareRec
  <2> QED BY <1>2, <2>1, <2>2, <2>3 DEF UserData, MarkProvisioned, PatchHardware, SetHardware
<1>3. ASSUME NEW m \in Machines, Release(m) PROVE hw'[h].owner = None
  <2>1. hw' = [hw EXCEPT ![snap[m].name] = Released(snap[m].copy)]
    BY <1>3 DEF Release, PatchHardware, SetHardware
  <2>2. hw'[h] = Released(snap[m].copy) /\ snap[m].copy \in HardwareRec
    BY <2>1 DEF TypeOK, SnapRec
  <2> QED BY <2>2 DEF Released, FreeHardware, HardwareRec
<1>4. ASSUME NEW g \in Hardware, DeleteHardware(g) PROVE hw'[h].owner = None
  <2>1. CASE hw' = [hw EXCEPT ![g] = [FreeHardware EXCEPT !.exists = FALSE]]
    BY <2>1 DEF TypeOK, FreeHardware
  <2>2. CASE hw' = [hw EXCEPT ![g] = [hw[g] EXCEPT !.deleting = TRUE]]
    BY <2>2 DEF TypeOK, HardwareRec
  <2> QED BY <1>4, <2>1, <2>2 DEF DeleteHardware, SetHardware
<1>5. ASSUME NEW m \in Machines,
             \/ Reconcile(m) \/ ListAssigned(m) \/ ListFree(m) \/ ClaimRefused(m)
             \/ SetStatus(m) \/ GetWorkflow(m) \/ CreateWorkflow(m) \/ AddFinalizer(m)
             \/ GetHardware(m) \/ RemoveDependencies(m) \/ PowerOff(m)
             \/ RemoveFinalizer(m) \/ Fault(m) \/ Tinkerbell(m) \/ Environment(m)
      PROVE  FALSE
  BY <1>5 DEF Reconcile, ListAssigned, ListFree, ClaimRefused, SetStatus, GetWorkflow,
              CreateWorkflow, AddFinalizer, GetHardware, RemoveDependencies, PowerOff,
              RemoveFinalizer, Fault, CallFails, PatchFailsHalfway, Crash, WorkflowFails, PowerOffFails,
              Tinkerbell, WorkflowSucceeds, PowerOffCompletes, Environment,
              CreateMachine, DeleteMachine, CollectGarbage
<1>6. CASE SyncMachines \/ SyncHardware \/ UNCHANGED vars
  BY <1>6 DEF SyncMachines, SyncHardware, vars
<1> QED
  BY <1>1, <1>2, <1>3, <1>4, <1>5, <1>6 DEF Next, Worker

\* Two workers that chose the same free Hardware cannot both get it, whatever
\* fails and however far the caches are behind (takeHardwareOwnership).
THEOREM ExclusiveClaims == Spec => OwnershipPassesThroughNone
<1>1. TypeOK /\ CopiesAreCurrent /\ [Next]_vars
        => [\A h \in Hardware :
              hw[h].owner # None => hw'[h].owner \in {hw[h].owner, None}]_vars
  <2> SUFFICES ASSUME TypeOK, CopiesAreCurrent, [Next]_vars, NEW h \in Hardware,
                      hw[h].owner # None, hw'[h].owner # hw[h].owner
               PROVE  hw'[h].owner = None
    OBVIOUS
  <2> QED BY OwnerStep
<1> QED BY <1>1, CopiesCorrect, PTL DEF Spec, OwnershipPassesThroughNone

-------------------------------------------------------------------------------
(***************************************************************************)
(* OneHardwarePerMachine.  It is not inductive: it needs that a worker     *)
(* which found no Hardware assigned to its machine is right until it has   *)
(* claimed one, and that what it claims exists.  It is so because nobody   *)
(* else claims for the machine, and because the lists come from the        *)
(* server; with a lagging Hardware cache it is not (see the README).       *)
(***************************************************************************)
OwnsNothing(m) == \A h \in Hardware : hw[h].owner # m

OneHardwareInv ==
  /\ OneHardwarePerMachine
  /\ \A m \in Machines :
       /\ pc[m] = "listFree" => OwnsNothing(m)
       /\ pc[m] = "claim" /\ snap[m].copy.owner # m => OwnsNothing(m)

\* Owned Hardware exists, and so did what a worker is about to claim when it was
\* read: this holds with a cache that lags too.
OwnedExists ==
  /\ \A h \in Hardware : ~hw[h].exists => hw[h].owner = None
  /\ \A m \in Machines : pc[m] = "claim" => snap[m].copy.exists

\* At first no Hardware is owned and no worker is at work.
LEMMA OneHardwareInit == Init => OneHardwareInv /\ OwnedExists
BY DEF Init, OneHardwareInv, OwnedExists, OneHardwarePerMachine, OwnsNothing, FreeHardware

\* A worker gets to listFree and claim only by its own lists.
LEMMA ControlStep ==
  ASSUME TypeOK, [Next]_vars, NEW m \in Machines,
         pc'[m] \in {"listFree", "claim"}
  PROVE  \/ ListAssigned(m)
         \/ ListFree(m)
         \/ /\ pc'[m] = pc[m]
            /\ snap'[m] = snap[m]
<1> USE DEF caches, boundVars
<1>1. ASSUME NEW x \in Machines, Worker(x) \/ Fault(x), x # m
      PROVE  pc'[m] = pc[m] /\ snap'[m] = snap[m]
  BY <1>1 DEF Worker, Fault, Reconcile, ListAssigned, ListFree, ClaimRefused, Claim,
              UserData, SetStatus, GetWorkflow, CreateWorkflow, MarkProvisioned,
              AddFinalizer, GetHardware, RemoveDependencies, PowerOff, Release,
              RemoveFinalizer, CallFails, PatchFailsHalfway, Crash, WorkflowFails, PowerOffFails, Goto,
              Return, Take, PatchHardware, TypeOK
<1>2. CASE WorkflowFails(m) \/ PowerOffFails(m)
  BY <1>2 DEF WorkflowFails, PowerOffFails
<1>3. CASE \/ Reconcile(m) \/ ClaimRefused(m) \/ Claim(m) \/ UserData(m) \/ SetStatus(m)
           \/ GetWorkflow(m) \/ CreateWorkflow(m) \/ MarkProvisioned(m) \/ AddFinalizer(m)
           \/ GetHardware(m) \/ RemoveDependencies(m) \/ PowerOff(m) \/ Release(m)
           \/ RemoveFinalizer(m) \/ CallFails(m) \/ PatchFailsHalfway(m) \/ Crash(m)
  <2>1. pc'[m] \notin {"listFree", "claim"}
    BY <1>3 DEF Reconcile, ClaimRefused, Claim,
                UserData, SetStatus, GetWorkflow, CreateWorkflow, MarkProvisioned,
                AddFinalizer, GetHardware, RemoveDependencies, PowerOff, Release,
                RemoveFinalizer, CallFails, PatchFailsHalfway, Crash, Goto, Return, TypeOK
  <2> QED BY <2>1
<1>4. ASSUME NEW x \in Machines, Tinkerbell(x) \/ Environment(x)
      PROVE  UNCHANGED <<pc, snap>>
  BY <1>4 DEF Tinkerbell, WorkflowSucceeds, PowerOffCompletes, Environment,
              CreateMachine, DeleteMachine, CollectGarbage
<1>5. ASSUME NEW h \in Hardware, DeleteHardware(h) PROVE UNCHANGED <<pc, snap>>
  BY <1>5 DEF DeleteHardware
<1>6. CASE SyncMachines \/ SyncHardware \/ UNCHANGED vars
  BY <1>6 DEF SyncMachines, SyncHardware, vars
<1> QED
  BY <1>1, <1>2, <1>3, <1>4, <1>5, <1>6 DEF Next, Worker, Fault

\* Hardware that is gone belongs to nobody: nobody claims a copy of it, and it
\* goes only with CAPT's finalizer, that is without an owner.
LEMMA GoneHardwareStaysUnowned ==
  ASSUME TypeOK, CopiesAreCurrent, OwnedExists, [Next]_vars, NEW h \in Hardware,
         ~hw'[h].exists
  PROVE  hw'[h].owner = None
<1> USE DEF caches, boundVars
<1>1. CASE hw'[h].exists = hw[h].exists /\ hw'[h].owner = hw[h].owner
  BY <1>1 DEF OwnedExists
<1>2. CASE hw'[h].owner # hw[h].owner
  <2>1. ASSUME NEW m \in Machines, Claim(m), snap[m].name = h, hw[h].owner = None,
               snap[m].copy = hw[h], hw'[h].owner = m
        PROVE  FALSE
    <3>1. hw' = [hw EXCEPT ![h] = [hw[h] EXCEPT !.owner = m]]
      BY <2>1, NoneAssumption DEF Claim, PatchHardware, SetHardware
    <3>2. hw[h].exists
      BY <2>1 DEF OwnedExists, Claim
    <3> QED BY <3>1, <3>2 DEF TypeOK, HardwareRec
  <2> QED BY <1>2, <2>1, OwnerStep
<1>3. CASE hw'[h].owner = hw[h].owner /\ hw'[h].exists # hw[h].exists
  <2>1. ASSUME NEW m \in Machines, UserData(m) \/ MarkProvisioned(m) \/ Claim(m)
        PROVE  FALSE
    <3>1. CASE UNCHANGED hw
      BY <1>3, <3>1
    <3>2. CASE hw' = [hw EXCEPT ![snap[m].name] = [hw[snap[m].name] EXCEPT !.userData = m]]
      BY <1>3, <3>2 DEF TypeOK, HardwareRec
    <3>3. CASE hw' = [hw EXCEPT ![snap[m].name] = [hw[snap[m].name] EXCEPT !.provisioned = TRUE]]
      BY <1>3, <3>3 DEF TypeOK, HardwareRec
    <3>4. CASE /\ Claim(m) /\ m \in fresh
               /\ hw' = [hw EXCEPT ![snap[m].name] = [snap[m].copy EXCEPT !.owner = m]]
      <4>1. snap[m].copy = hw[snap[m].name]
        BY <3>4 DEF CopiesAreCurrent
      <4> QED BY <1>3, <3>4, <4>1 DEF TypeOK, HardwareRec
    <3> QED BY <2>1, <3>1, <3>2, <3>3, <3>4
            DEF UserData, MarkProvisioned, Claim, PatchHardware, SetHardware
  <2>2. ASSUME NEW m \in Machines, Release(m) PROVE hw'[h].owner = None
    <3>1. hw' = [hw EXCEPT ![snap[m].name] = Released(snap[m].copy)] \/ UNCHANGED hw
      BY <2>2 DEF Release, PatchHardware, SetHardware
    <3>2. hw'[h] = Released(snap[m].copy) /\ snap[m].copy \in HardwareRec
      BY <1>3, <3>1 DEF TypeOK, SnapRec
    <3> QED BY <3>2 DEF Released, FreeHardware, HardwareRec
  <2>3. ASSUME NEW g \in Hardware, DeleteHardware(g) PROVE hw'[h].owner = None
    <3>1. CASE hw' = [hw EXCEPT ![g] = [FreeHardware EXCEPT !.exists = FALSE]]
      BY <1>3, <3>1 DEF TypeOK, FreeHardware
    <3>2. CASE hw' = [hw EXCEPT ![g] = [hw[g] EXCEPT !.deleting = TRUE]]
      BY <1>3, <3>2 DEF TypeOK, HardwareRec
    <3> QED BY <2>3, <3>1, <3>2 DEF DeleteHardware, SetHardware
  <2>4. ASSUME NEW m \in Machines,
             \/ Reconcile(m) \/ ListAssigned(m) \/ ListFree(m) \/ ClaimRefused(m)
             \/ SetStatus(m) \/ GetWorkflow(m) \/ CreateWorkflow(m) \/ AddFinalizer(m)
             \/ GetHardware(m) \/ RemoveDependencies(m) \/ PowerOff(m)
             \/ RemoveFinalizer(m) \/ Fault(m) \/ Tinkerbell(m) \/ Environment(m)
        PROVE  FALSE
    BY <1>3, <2>4 DEF Reconcile, ListAssigned, ListFree, ClaimRefused, SetStatus,
              GetWorkflow, CreateWorkflow, AddFinalizer, GetHardware, RemoveDependencies,
              PowerOff, RemoveFinalizer, Fault, CallFails, PatchFailsHalfway, Crash, WorkflowFails,
              PowerOffFails, Tinkerbell, WorkflowSucceeds, PowerOffCompletes, Environment,
              CreateMachine, DeleteMachine, CollectGarbage
  <2>5. CASE SyncMachines \/ SyncHardware \/ UNCHANGED vars
    BY <1>3, <2>5 DEF SyncMachines, SyncHardware, vars
  <2> QED BY <2>1, <2>2, <2>3, <2>4, <2>5 DEF Next, Worker
<1> QED BY <1>1, <1>2, <1>3

\* A list, from the server or from a cache, shows Hardware that exists.
LEMMA OwnedExistsStep ==
  ASSUME TypeOK, CopiesAreCurrent, OwnedExists, [Next]_vars
  PROVE  OwnedExists'
<1>1. \A h \in Hardware : ~hw'[h].exists => hw'[h].owner = None
  BY GoneHardwareStaysUnowned
<1>2. ASSUME NEW m \in Machines, pc'[m] = "claim" PROVE snap'[m].copy.exists
  <2>1. CASE ListAssigned(m)
    <3>1. PICK h \in Assigned(m) : Take(m, h)
      BY <1>2, <2>1 DEF ListAssigned, Goto, TypeOK
    <3> QED BY <3>1 DEF Take, Assigned, TypeOK
  <2>2. CASE ListFree(m)
    <3>1. PICK h \in Best(m, Free(m)) : Take(m, h)
      BY <1>2, <2>2 DEF ListFree, Goto, TypeOK
    <3> QED BY <3>1 DEF Take, Best, Free, TypeOK
  <2>3. CASE pc[m] = "claim" /\ snap'[m] = snap[m]
    BY <2>3 DEF OwnedExists
  <2> QED BY <1>2, <2>1, <2>2, <2>3, ControlStep
<1> QED BY <1>1, <1>2 DEF OwnedExists

\* Every step keeps the invariant when Hardware is read from the server.
LEMMA OneHardwareStep ==
  ASSUME ~HardwareCacheLags, TypeOK, CopiesAreCurrent, OwnedExists, OneHardwareInv, [Next]_vars
  PROVE  OneHardwareInv'
\* Hardware becomes m's only by m's claim, at which m owns nothing.
<1>1. ASSUME NEW m \in Machines, NEW h \in Hardware, hw'[h].owner = m, hw[h].owner # m
      PROVE  Claim(m) /\ snap[m].name = h /\ OwnsNothing(m)
  <2>1. Claim(m) /\ snap[m].name = h /\ snap[m].copy.owner = None
    BY <1>1, OwnerStep, NoneAssumption
  <2> QED BY <2>1, NoneAssumption DEF OneHardwareInv, Claim
<1>2. OneHardwarePerMachine'
  <2> SUFFICES ASSUME NEW g \in Hardware, NEW h \in Hardware,
                      hw'[g].owner # None, hw'[g].owner = hw'[h].owner
               PROVE  g = h
    BY DEF OneHardwarePerMachine
  <2>1. hw'[g].owner \in Machines
    BY TypeStep DEF TypeOK, HardwareRec, Owners
  <2> QED BY <1>1, <2>1 DEF OneHardwareInv, OneHardwarePerMachine, OwnsNothing
\* What owns nothing owns nothing after any step but its claim.
<1>4. ASSUME NEW m \in Machines, OwnsNothing(m), pc'[m] # "userData" PROVE OwnsNothing(m)'
  <2>1. ASSUME Claim(m) PROVE FALSE
    BY <1>4, <2>1 DEF Claim, Goto, TypeOK
  <2> QED BY <1>1, <1>4, <2>1 DEF OwnsNothing
<1>5. ASSUME NEW m \in Machines, pc'[m] = "listFree" PROVE OwnsNothing(m)'
  <2>1. CASE ListAssigned(m)
    <3>1. Assigned(m) = {} /\ UNCHANGED hw
      BY <1>5, <2>1 DEF ListAssigned, Goto, TypeOK
    <3> QED BY <3>1, NoneAssumption DEF OwnsNothing, Assigned, ReadHardware, OwnedExists
  <2>2. CASE ListFree(m)
    BY <1>5, <2>2 DEF ListFree, Goto, TypeOK
  <2>3. CASE pc[m] = "listFree"
    BY <1>4, <1>5, <2>3 DEF OneHardwareInv
  <2> QED BY <1>5, <2>1, <2>2, <2>3, ControlStep
<1>6. ASSUME NEW m \in Machines, pc'[m] = "claim", snap'[m].copy.owner # m
      PROVE  OwnsNothing(m)'
  <2>1. CASE ListAssigned(m)
    <3>1. PICK h \in Assigned(m) : Take(m, h)
      BY <1>6, <2>1 DEF ListAssigned, Goto, TypeOK
    <3> QED BY <1>6, <3>1 DEF Take, Assigned, TypeOK
  <2>2. CASE ListFree(m)
    <3>1. OwnsNothing(m)
      BY <2>2 DEF ListFree, OneHardwareInv
    <3> QED BY <1>4, <1>6, <3>1
  <2>3. CASE pc[m] = "claim" /\ snap'[m] = snap[m]
    BY <1>4, <1>6, <2>3 DEF OneHardwareInv
  <2> QED BY <1>6, <2>1, <2>2, <2>3, ControlStep
<1> QED BY <1>2, <1>5, <1>6 DEF OneHardwareInv

\* When Hardware is read from the server (external mode, or a cache that is in
\* step) no machine ever owns two Hardware, whatever fails and whenever the
\* controller crashes.
THEOREM OneHardware ==
  ASSUME ~HardwareCacheLags
  PROVE  Spec => []OneHardwarePerMachine
<1>1. Init => OneHardwareInv /\ OwnedExists
  BY OneHardwareInit
<1>2. TypeOK /\ CopiesAreCurrent /\ OwnedExists /\ OneHardwareInv /\ [Next]_vars
        => OwnedExists' /\ OneHardwareInv'
  BY OwnedExistsStep, OneHardwareStep
<1>3. OneHardwareInv => OneHardwarePerMachine
  BY DEF OneHardwareInv
<1> QED BY <1>1, <1>2, <1>3, CopiesCorrect, PTL DEF Spec
===============================================================================
