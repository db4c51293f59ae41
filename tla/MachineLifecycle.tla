--------------------------- MODULE MachineLifecycle ---------------------------
(***************************************************************************)
(* The TinkerbellMachine controller: Reconcile claims a Hardware for a     *)
(* machine, provisions it with a Workflow, and on deletion removes the     *)
(* Workflow, powers the Hardware off, gives it back and lets the machine   *)
(* go (src/controller/machine).                                            *)
(*                                                                         *)
(* Each machine name has one worker, as the work queue runs one Reconcile  *)
(* per name at a time; different names run concurrently.  A worker's step  *)
(* is one call to an API server, and everything else may happen between    *)
(* two of them.  This module has no addressFromPool and no in-place        *)
(* update, for which reconcileIPAM and reconcileInPlaceRecovery do nothing.*)
(***************************************************************************)
EXTENDS Naturals

CONSTANTS
  Machines,          \* names of TinkerbellMachines
  Hardware,          \* the Hardware on the Tinkerbell cluster
  None,
  BMC,               \* the Hardware with a BMC connection or bmcRef
  Eligible,          \* what a machine's required affinity terms select
  Rank,              \* the order byHardwareAffinity sorts them in, best first
  Retirable,         \* the Hardware the operator may delete
  External,          \* Tinkerbell is another cluster, reached by a direct client
  OwnerRefs,         \* created objects carry an owner reference to the machine
  MachineCacheLags,  \* the informer cache of TinkerbellMachines may be behind
  HardwareCacheLags, \* so may the one of Hardware, which only local mode reads
  FaultPoints,       \* where a call may fail, or the controller crash
  MaxFaults,         \* bound on the number of faults
  MaxBirths          \* bound on how often a machine of one name is created

Provisioning == {"listAssigned", "listFree", "claim", "userData", "setStatus",
                 "getWorkflow", "createWorkflow", "markProvisioned"}
Deleting == {"getHardware", "removeDependencies", "powerOff", "release",
             "removeFinalizer"}
Steps == Provisioning \cup Deleting \cup {"idle", "addFinalizer"}

\* The steps that work on the Hardware the worker holds.
Holding == {"claim", "userData", "setStatus", "getWorkflow", "createWorkflow",
            "markProvisioned", "powerOff", "release"}

ASSUME NoneAssumption == None \notin Machines \cup Hardware
ASSUME HardwareAssumption ==
  /\ BMC \subseteq Hardware
  /\ Retirable \subseteq Hardware
  /\ Eligible \in [Machines -> SUBSET Hardware]
  /\ Rank \in [Machines -> [Hardware -> Nat]]
  /\ \A m \in Machines : \A g, h \in Hardware :
       Rank[m][g] = Rank[m][h] => g = h
ASSUME ModeAssumption ==
  /\ {External, OwnerRefs, MachineCacheLags, HardwareCacheLags} \subseteq BOOLEAN
  /\ External => ~OwnerRefs /\ ~HardwareCacheLags
ASSUME BoundAssumption ==
  /\ FaultPoints \subseteq Steps \cup {"workflow", "bmc"}
  /\ MaxFaults \in Nat
  /\ MaxBirths \in Nat

VARIABLES
  tm,         \* the TinkerbellMachines on the management cluster
  tmSeen,     \* the informer cache's copy of them
  hw,         \* the Hardware on the Tinkerbell cluster
  hwSeen,     \* the informer cache's copy of it
  hwCurrent,  \* the Hardware whose cached resourceVersion is the server's
  wf,         \* the Workflow named after a machine
  job,        \* the bmc Job <machine>-poweroff
  box,        \* the physical machines: powered on, and whose image they carry
  pc,         \* the call a machine's worker makes next
  read,       \* the TinkerbellMachine as Reconcile read it
  mem,        \* and as the handler has changed it in memory
  snap,       \* the Hardware object the handler holds
  fresh,      \* the workers whose snap has the server's resourceVersion
  faults,     \* how many faults have happened
  births      \* how many machines of a name have been created

vars == <<tm, tmSeen, hw, hwSeen, hwCurrent, wf, job, box, pc, read, mem, snap,
          fresh, faults, births>>
caches == <<tmSeen, hwSeen>>
boundVars == <<faults, births>>

Owners == Machines \cup {None}
Names == Hardware \cup {None}

MachineRec == [exists : BOOLEAN, deleting : BOOLEAN, finalizer : BOOLEAN,
               ready : BOOLEAN, hardware : Names]
HardwareRec == [exists : BOOLEAN, deleting : BOOLEAN, provisioned : BOOLEAN,
                owner : Owners, userData : Owners]
TaskRec == [state : {"none", "pending", "done", "failed"}, target : Names]
BoxRec == [on : BOOLEAN, image : Owners]
SnapRec == [name : Names, copy : HardwareRec]

NoMachine == [exists |-> FALSE, deleting |-> FALSE, finalizer |-> FALSE,
              ready |-> FALSE, hardware |-> None]
FreeHardware == [exists |-> TRUE, deleting |-> FALSE, provisioned |-> FALSE,
                 owner |-> None, userData |-> None]
NoTask == [state |-> "none", target |-> None]
NoSnap == [name |-> None, copy |-> FreeHardware]

(***************************************************************************)
(* What a worker's calls return.  TinkerbellMachines are always read from  *)
(* the manager's cache, Hardware in local mode only.                       *)
(***************************************************************************)
ReadMachine(m) == IF MachineCacheLags THEN tmSeen[m] ELSE tm[m]
ReadHardware(h) == IF HardwareCacheLags THEN hwSeen[h] ELSE hw[h]
ReadIsCurrent(h) == HardwareCacheLags => h \in hwCurrent

Assigned(m) == {h \in Hardware : ReadHardware(h).exists /\ ReadHardware(h).owner = m}
\* A slip: the owner label is not looked at.
FreeOrNot(m) == {h \in Eligible[m] : ReadHardware(h).exists}

Free(m) == {h \in Eligible[m] : ReadHardware(h).exists /\ ReadHardware(h).owner = None}
Best(m, hs) == {h \in hs : \A g \in hs : Rank[m][h] <= Rank[m][g]}

Goto(m, step) == pc' = [pc EXCEPT ![m] = step]

\* Reconcile returns: the scope and what it holds are gone.
Return(m) ==
  /\ Goto(m, "idle")
  /\ read' = [read EXCEPT ![m] = NoMachine]
  /\ mem' = [mem EXCEPT ![m] = NoMachine]
  /\ snap' = [snap EXCEPT ![m] = NoSnap]
  /\ fresh' = fresh \ {m}

\* The worker takes a copy of h from the server or the cache.
Take(m, h) ==
  /\ snap' = [snap EXCEPT ![m] = [name |-> h, copy |-> ReadHardware(h)]]
  /\ fresh' = IF ReadIsCurrent(h) THEN fresh \cup {m} ELSE fresh \ {m}

(***************************************************************************)
(* A write to Hardware gives it a new resourceVersion unless it changes    *)
(* nothing.  Every other copy of it is then out of date; the writer's is   *)
(* replaced by the response.                                               *)
(***************************************************************************)
HoldersOf(h) == {x \in Machines : snap[x].name = h}
SetHardware(h, new) ==
  /\ hw' = [hw EXCEPT ![h] = new]
  /\ hwCurrent' = IF new = hw[h] THEN hwCurrent ELSE hwCurrent \ {h}

PatchHardware(m, h, new) ==
  /\ SetHardware(h, new)
  /\ snap' = [snap EXCEPT ![m] = [name |-> h, copy |-> new]]
  /\ fresh' = (IF new = hw[h] THEN fresh ELSE fresh \ HoldersOf(h)) \cup {m}

(***************************************************************************)
(* scope.patch: the patch helper sends the difference between the object   *)
(* Reconcile read and the one in memory, metadata and spec first, then     *)
(* status.  The webhook refuses a hardwareName that changes a set one, and *)
(* with it the finalizers of the same request; the status is sent then     *)
(* too.  A machine being deleted goes with its last finalizer.             *)
(***************************************************************************)
Rejected(m, now) ==
  /\ now.hardware # read[m].hardware
  /\ tm[m].hardware \notin {None, now.hardware}

Patched(m, now) ==
  LET Sent(old, new, current) == IF new = old THEN current ELSE new
      ok == ~Rejected(m, now)
      finalizer == IF ok THEN Sent(read[m].finalizer, now.finalizer, tm[m].finalizer)
                         ELSE tm[m].finalizer
  IN IF tm[m].deleting /\ ~finalizer
     THEN NoMachine
     ELSE [tm[m] EXCEPT
             !.hardware = IF ok THEN Sent(read[m].hardware, now.hardware, @) ELSE @,
             !.finalizer = finalizer,
             !.ready = Sent(read[m].ready, now.ready, @)]

-------------------------------------------------------------------------------
Init ==
  /\ tm = [m \in Machines |-> NoMachine]
  /\ tmSeen = tm
  /\ hw = [h \in Hardware |-> FreeHardware]
  /\ hwSeen = hw
  /\ hwCurrent = Hardware
  /\ wf = [m \in Machines |-> NoTask]
  /\ job = [m \in Machines |-> NoTask]
  /\ box = [h \in Hardware |-> [on |-> FALSE, image |-> None]]
  /\ pc = [m \in Machines |-> "idle"]
  /\ read = [m \in Machines |-> NoMachine]
  /\ mem = [m \in Machines |-> NoMachine]
  /\ snap = [m \in Machines |-> NoSnap]
  /\ fresh = {}
  /\ faults = 0
  /\ births = [m \in Machines |-> 0]

(***************************************************************************)
(* Reconcile of a machine whose Machine has its bootstrap data and whose   *)
(* cluster is ready and not paused; otherwise it returns before it changes *)
(* anything, and the model has it not start.                               *)
(***************************************************************************)
Reconcile(m) ==
  /\ pc[m] = "idle"
  /\ ReadMachine(m).exists
  /\ read' = [read EXCEPT ![m] = ReadMachine(m)]
  /\ mem' = [mem EXCEPT ![m] = ReadMachine(m)]
  /\ Goto(m, IF ReadMachine(m).deleting THEN "getHardware" ELSE "listAssigned")
  /\ UNCHANGED <<tm, hw, hwCurrent, wf, job, box, snap, fresh, caches, boundVars>>

\* A slip: the machine's Hardware is not looked for first.
ListAssignedSkipped(m) ==
  /\ pc[m] = "listAssigned"
  /\ Goto(m, "listFree")
  /\ UNCHANGED <<tm, hw, hwCurrent, wf, job, box, read, mem, snap, fresh, caches,
                 boundVars>>

\* assignedHardware: the first of the Hardware labelled with the machine; the
\* order of a cached list is not defined.
ListAssigned(m) ==
  /\ pc[m] = "listAssigned"
  /\ \/ /\ Assigned(m) = {}
        /\ Goto(m, "listFree")
        /\ UNCHANGED <<snap, fresh>>
     \/ \E h \in Assigned(m) : Take(m, h) /\ Goto(m, "claim")
  /\ UNCHANGED <<tm, hw, hwCurrent, wf, job, box, read, mem, caches, boundVars>>

\* A slip: ErrNoHardwareAvailable is not returned.
ListFreeUnchecked(m) ==
  /\ pc[m] = "listFree"
  /\ Free(m) # {} => \E h \in Best(m, Free(m)) : Take(m, h)
  /\ Free(m) = {} => UNCHANGED <<snap, fresh>>
  /\ Goto(m, "claim")
  /\ UNCHANGED <<tm, hw, hwCurrent, wf, job, box, read, mem, caches, boundVars>>

\* hardwareForMachine: the best Hardware without owner, ErrNoHardwareAvailable
\* when there is none.
ListFree(m) ==
  /\ pc[m] = "listFree"
  /\ \/ /\ Free(m) = {}
        /\ Goto(m, "addFinalizer")
        /\ UNCHANGED <<snap, fresh>>
     \/ \E h \in Best(m, Free(m)) : Take(m, h) /\ Goto(m, "claim")
  /\ UNCHANGED <<tm, hw, hwCurrent, wf, job, box, read, mem, caches, boundVars>>

\* takeHardwareOwnership on Hardware that is someone's already, or that
\* another write has overtaken: errHardwareClaimRequeue.
ClaimRefused(m) ==
  /\ pc[m] = "claim"
  /\ snap[m].copy.owner # m
  /\ snap[m].copy.owner = None => m \notin fresh
  /\ Goto(m, "addFinalizer")
  /\ UNCHANGED <<tm, hw, hwCurrent, wf, job, box, read, mem, snap, fresh, caches,
                 boundVars>>

\* A slip: the claim is an ordinary merge patch.
ClaimWithoutLock(m) ==
  /\ pc[m] = "claim"
  /\ snap[m].copy.owner \in {None, m}
  /\ PatchHardware(m, snap[m].name, [hw[snap[m].name] EXCEPT !.owner = m])
  /\ mem' = [mem EXCEPT ![m].hardware = snap[m].name]
  /\ Goto(m, "userData")
  /\ UNCHANGED <<tm, wf, job, box, read, caches, boundVars>>

\* takeHardwareOwnership: the machine's own Hardware needs no write, free
\* Hardware is labelled under the optimistic lock.  ensureHardware then sets
\* hardwareName and providerID in memory.
Claim(m) ==
  /\ pc[m] = "claim"
  /\ \/ /\ snap[m].copy.owner = m
        /\ UNCHANGED <<hw, hwCurrent, snap, fresh>>
     \/ /\ snap[m].copy.owner = None /\ m \in fresh
        /\ PatchHardware(m, snap[m].name, [snap[m].copy EXCEPT !.owner = m])
  /\ mem' = [mem EXCEPT ![m].hardware = snap[m].name]
  /\ Goto(m, "userData")
  /\ UNCHANGED <<tm, wf, job, box, read, caches, boundVars>>

\* ensureHardwareUserData: a merge patch without lock, unless the copy held
\* already has the machine's data.  The Hardware may be gone.
UserData(m) ==
  /\ pc[m] = "userData"
  /\ LET h == snap[m].name IN
     \/ /\ snap[m].copy.userData = m
        /\ Goto(m, "setStatus")
        /\ UNCHANGED <<hw, hwCurrent, snap, fresh>>
     \/ /\ snap[m].copy.userData # m /\ hw[h].exists
        /\ PatchHardware(m, h, [hw[h] EXCEPT !.userData = m])
        /\ Goto(m, "setStatus")
     \/ /\ snap[m].copy.userData # m /\ ~hw[h].exists
        /\ Goto(m, "addFinalizer")
        /\ UNCHANGED <<hw, hwCurrent, snap, fresh>>
  /\ UNCHANGED <<tm, wf, job, box, read, mem, caches, boundVars>>

\* setStatus persists hardwareName; reconcile then looks at the provisioned
\* annotation of the Hardware it holds.
SetStatus(m) ==
  /\ pc[m] = "setStatus"
  /\ IF tm[m].exists
     THEN tm' = [tm EXCEPT ![m] = Patched(m, mem[m])]
     ELSE UNCHANGED tm
  /\ \/ /\ ~tm[m].exists \/ Rejected(m, mem[m])
        /\ Goto(m, "addFinalizer")
        /\ UNCHANGED mem
     \/ /\ tm[m].exists /\ ~Rejected(m, mem[m])
        /\ IF snap[m].copy.provisioned
           THEN /\ mem' = [mem EXCEPT ![m].ready = TRUE]
                /\ Goto(m, "addFinalizer")
           ELSE /\ UNCHANGED mem
                /\ Goto(m, "getWorkflow")
  /\ UNCHANGED <<hw, hwCurrent, wf, job, box, read, snap, fresh, caches, boundVars>>

\* ensureWorkflow, and the Workflow's state.
GetWorkflow(m) ==
  /\ pc[m] = "getWorkflow"
  /\ mem' = IF wf[m].state = "done" THEN [mem EXCEPT ![m].ready = TRUE] ELSE mem
  /\ Goto(m, CASE wf[m].state = "none" -> "createWorkflow"
               [] wf[m].state = "done" -> "markProvisioned"
               [] OTHER                -> "addFinalizer")
  /\ UNCHANGED <<tm, hw, hwCurrent, wf, job, box, read, snap, fresh, caches, boundVars>>

\* createWorkflow, with the Tasks or the Template it runs.
CreateWorkflow(m) ==
  /\ pc[m] = "createWorkflow"
  /\ wf' = [wf EXCEPT ![m] = [state |-> "pending", target |-> snap[m].name]]
  /\ Goto(m, "addFinalizer")
  /\ UNCHANGED <<tm, hw, hwCurrent, job, box, read, mem, snap, fresh, caches, boundVars>>

\* patchHardwareAnnotations: a merge patch without lock.
MarkProvisioned(m) ==
  /\ pc[m] = "markProvisioned"
  /\ LET h == snap[m].name IN
     IF hw[h].exists
     THEN PatchHardware(m, h, [hw[h] EXCEPT !.provisioned = TRUE])
     ELSE UNCHANGED <<hw, hwCurrent, snap, fresh>>
  /\ Goto(m, "addFinalizer")
  /\ UNCHANGED <<tm, wf, job, box, read, mem, caches, boundVars>>

\* The deferred addFinalizer of scope.Reconcile: it runs last, whatever
\* Reconcile returned, and its own error is only logged.
AddFinalizer(m) ==
  /\ pc[m] = "addFinalizer"
  /\ IF tm[m].exists
     THEN tm' = [tm EXCEPT ![m] = Patched(m, [mem[m] EXCEPT !.finalizer = TRUE])]
     ELSE UNCHANGED tm
  /\ Return(m)
  /\ UNCHANGED <<hw, hwCurrent, wf, job, box, caches, boundVars>>

-------------------------------------------------------------------------------
\* DeleteMachineWithDependencies: the Hardware by name, its owner unchecked.
\* A name that was never set is not found in a cache, and is an error of its
\* own to a direct client.
GetHardware(m) ==
  /\ pc[m] = "getHardware"
  /\ LET h == mem[m].hardware IN
     \/ /\ h = None /\ External
        /\ Return(m)
     \/ /\ IF h = None THEN ~External ELSE ~ReadHardware(h).exists
        /\ Goto(m, "removeDependencies")
        /\ UNCHANGED <<read, mem, snap, fresh>>
     \/ /\ h # None /\ ReadHardware(h).exists
        /\ Take(m, h)
        /\ Goto(m, "removeDependencies")
        /\ UNCHANGED <<read, mem>>
  /\ UNCHANGED <<tm, hw, hwCurrent, wf, job, box, caches, boundVars>>

\* A slip: the Workflow stays.
RemoveDependenciesButWorkflow(m) ==
  /\ pc[m] = "removeDependencies"
  /\ Goto(m, IF snap[m].name = None THEN "removeFinalizer"
             ELSE IF snap[m].name \in BMC THEN "powerOff" ELSE "release")
  /\ UNCHANGED <<tm, hw, hwCurrent, wf, job, box, read, mem, snap, fresh, caches,
                 boundVars>>

\* A slip: the power-off Job of an earlier pass goes too.
RemoveDependenciesAndJob(m) ==
  /\ pc[m] = "removeDependencies"
  /\ wf' = [wf EXCEPT ![m] = NoTask]
  /\ job' = [job EXCEPT ![m] = NoTask]
  /\ Goto(m, IF snap[m].name = None THEN "removeFinalizer"
             ELSE IF snap[m].name \in BMC THEN "powerOff" ELSE "release")
  /\ UNCHANGED <<tm, hw, hwCurrent, box, read, mem, snap, fresh, caches, boundVars>>

\* removeDependencies: the Workflow and what it ran go, an unfinished one too.
\* With no Hardware found nothing is left but the finalizer.
RemoveDependencies(m) ==
  /\ pc[m] = "removeDependencies"
  /\ wf' = [wf EXCEPT ![m] = NoTask]
  /\ Goto(m, IF snap[m].name = None THEN "removeFinalizer"
             ELSE IF snap[m].name \in BMC THEN "powerOff" ELSE "release")
  /\ UNCHANGED <<tm, hw, hwCurrent, job, box, read, mem, snap, fresh, caches, boundVars>>

\* A slip: the Job is created and not waited for.
PowerOffUnawaited(m) ==
  /\ pc[m] = "powerOff"
  /\ job' = IF job[m].state = "none"
            THEN [job EXCEPT ![m] = [state |-> "pending", target |-> snap[m].name]]
            ELSE job
  /\ Goto(m, "release")
  /\ UNCHANGED <<tm, hw, hwCurrent, wf, box, read, mem, snap, fresh, caches, boundVars>>

\* ensureBMCJobCompletionForDelete: without Job create one and come back,
\* without completed Job come back, else go on.
PowerOff(m) ==
  /\ pc[m] = "powerOff"
  /\ \/ /\ job[m].state = "none"
        /\ job' = [job EXCEPT ![m] = [state |-> "pending", target |-> snap[m].name]]
        /\ Return(m)
     \/ /\ job[m].state \in {"pending", "failed"}
        /\ Return(m)
        /\ UNCHANGED job
     \/ /\ job[m].state = "done"
        /\ Goto(m, "release")
        /\ UNCHANGED <<job, read, mem, snap, fresh>>
  /\ UNCHANGED <<tm, hw, hwCurrent, wf, box, caches, boundVars>>

\* Slips: one of the things a machine leaves on Hardware stays.
ReleasedButUserData(copy) ==
  IF copy.deleting THEN [FreeHardware EXCEPT !.exists = FALSE]
                   ELSE [copy EXCEPT !.owner = None, !.provisioned = FALSE]
ReleasedButProvisioned(copy) ==
  IF copy.deleting THEN [FreeHardware EXCEPT !.exists = FALSE]
                   ELSE [copy EXCEPT !.owner = None, !.userData = None]

\* What releaseHardware makes of Hardware: owner labels, CAPT's finalizer, user
\* data and provisioned annotation go.  Hardware being deleted goes with the
\* finalizer.
Released(copy) ==
  IF copy.deleting
  THEN [FreeHardware EXCEPT !.exists = FALSE]
  ELSE [copy EXCEPT !.owner = None, !.userData = None, !.provisioned = FALSE]

\* A slip: the error of releaseHardware is only logged.
ReleaseUnchecked(m) ==
  /\ pc[m] = "release"
  /\ IF m \in fresh THEN PatchHardware(m, snap[m].name, Released(snap[m].copy))
                     ELSE UNCHANGED <<hw, hwCurrent, snap, fresh>>
  /\ Goto(m, "removeFinalizer")
  /\ UNCHANGED <<tm, wf, job, box, read, mem, caches, boundVars>>

\* releaseHardware, under the optimistic lock.
Release(m) ==
  /\ pc[m] = "release"
  /\ \/ /\ m \in fresh
        /\ PatchHardware(m, snap[m].name, Released(snap[m].copy))
        /\ Goto(m, "removeFinalizer")
        /\ UNCHANGED <<read, mem>>
     \/ /\ m \notin fresh
        /\ Return(m)
        /\ UNCHANGED <<hw, hwCurrent>>
  /\ UNCHANGED <<tm, wf, job, box, caches, boundVars>>

\* removeFinalizer, the last step: a machine with a deletion timestamp goes.
RemoveFinalizer(m) ==
  /\ pc[m] = "removeFinalizer"
  /\ IF tm[m].exists
     THEN tm' = [tm EXCEPT ![m] = Patched(m, [mem[m] EXCEPT !.finalizer = FALSE])]
     ELSE UNCHANGED tm
  /\ Return(m)
  /\ UNCHANGED <<hw, hwCurrent, wf, job, box, caches, boundVars>>

-------------------------------------------------------------------------------
\* A call of the worker fails.  What fails in scope.Reconcile still runs the
\* deferred addFinalizer; EnsureWatch and the other calls the model has no
\* step for fail at the step after them.
CallFails(m) ==
  /\ pc[m] \in FaultPoints \ {"idle"}
  /\ faults < MaxFaults
  /\ faults' = faults + 1
  /\ \/ /\ pc[m] \in Provisioning
        /\ Goto(m, "addFinalizer")
        /\ UNCHANGED <<read, mem, snap, fresh>>
     \/ /\ pc[m] \notin Provisioning
        /\ Return(m)
  /\ UNCHANGED <<tm, hw, hwCurrent, wf, job, box, caches, births>>

\* One of the two requests of the deferred patch fails, the other is sent: the
\* status is not written, or metadata and spec are not.  At setStatus the same
\* comes to a failure of this call or of the next.
PatchFailsHalfway(m) ==
  /\ pc[m] = "addFinalizer" /\ pc[m] \in FaultPoints
  /\ faults < MaxFaults
  /\ faults' = faults + 1
  /\ tm[m].exists
  /\ \E now \in {[mem[m] EXCEPT !.finalizer = TRUE, !.ready = read[m].ready],
                 [read[m] EXCEPT !.ready = mem[m].ready]} :
       tm' = [tm EXCEPT ![m] = Patched(m, now)]
  /\ Return(m)
  /\ UNCHANGED <<hw, hwCurrent, wf, job, box, caches, births>>

\* The controller stops in the middle: nothing is deferred, memory is lost.
Crash(m) ==
  /\ pc[m] \in FaultPoints \ {"idle"}
  /\ faults < MaxFaults
  /\ faults' = faults + 1
  /\ Return(m)
  /\ UNCHANGED <<tm, hw, hwCurrent, wf, job, box, caches, births>>

\* The users and controllers that create and delete TinkerbellMachines.  A
\* name is used again only when its worker and the garbage collector are done
\* with it.
CreateMachine(m) ==
  /\ ~tm[m].exists
  /\ pc[m] = "idle"
  /\ births[m] < MaxBirths
  /\ OwnerRefs => wf[m] = NoTask /\ job[m] = NoTask
  /\ births' = [births EXCEPT ![m] = @ + 1]
  /\ tm' = [tm EXCEPT ![m] = [NoMachine EXCEPT !.exists = TRUE]]
  /\ UNCHANGED <<hw, hwCurrent, wf, job, box, pc, read, mem, snap, fresh, caches, faults>>

DeleteMachine(m) ==
  /\ tm[m].exists /\ ~tm[m].deleting
  /\ tm' = [tm EXCEPT ![m] = IF @.finalizer THEN [@ EXCEPT !.deleting = TRUE]
                                            ELSE NoMachine]
  /\ UNCHANGED <<hw, hwCurrent, wf, job, box, pc, read, mem, snap, fresh, caches, boundVars>>

\* The Kubernetes garbage collector follows owner references.
CollectGarbage(m) ==
  /\ OwnerRefs /\ ~tm[m].exists
  /\ wf[m] # NoTask \/ job[m] # NoTask
  /\ wf' = [wf EXCEPT ![m] = NoTask]
  /\ job' = [job EXCEPT ![m] = NoTask]
  /\ UNCHANGED <<tm, hw, hwCurrent, box, pc, read, mem, snap, fresh, caches, boundVars>>

\* The operator deletes Hardware; CAPT's finalizer keeps it while it is owned.
DeleteHardware(h) ==
  /\ h \in Retirable /\ hw[h].exists /\ ~hw[h].deleting
  /\ SetHardware(h, IF hw[h].owner = None THEN [FreeHardware EXCEPT !.exists = FALSE]
                                          ELSE [hw[h] EXCEPT !.deleting = TRUE])
  /\ fresh' = fresh \ HoldersOf(h)
  /\ UNCHANGED <<tm, wf, job, box, pc, read, mem, snap, caches, boundVars>>

\* Tinkerbell runs a Workflow, which powers the Hardware on and images it.
WorkflowSucceeds(m) ==
  /\ wf[m].state = "pending"
  /\ wf' = [wf EXCEPT ![m].state = "done"]
  /\ box' = [box EXCEPT ![wf[m].target] = [on |-> TRUE, image |-> m]]
  /\ UNCHANGED <<tm, hw, hwCurrent, job, pc, read, mem, snap, fresh, caches, boundVars>>

WorkflowFails(m) ==
  /\ wf[m].state = "pending"
  /\ "workflow" \in FaultPoints /\ faults < MaxFaults
  /\ faults' = faults + 1
  /\ wf' = [wf EXCEPT ![m].state = "failed"]
  /\ box' = [box EXCEPT ![wf[m].target] = [on |-> TRUE, image |-> None]]
  /\ UNCHANGED <<tm, hw, hwCurrent, job, pc, read, mem, snap, fresh, caches, births>>

\* Rufio runs a power-off Job.
PowerOffCompletes(m) ==
  /\ job[m].state = "pending"
  /\ job' = [job EXCEPT ![m].state = "done"]
  /\ box' = [box EXCEPT ![job[m].target].on = FALSE]
  /\ UNCHANGED <<tm, hw, hwCurrent, wf, pc, read, mem, snap, fresh, caches, boundVars>>

PowerOffFails(m) ==
  /\ job[m].state = "pending"
  /\ "bmc" \in FaultPoints /\ faults < MaxFaults
  /\ faults' = faults + 1
  /\ job' = [job EXCEPT ![m].state = "failed"]
  /\ UNCHANGED <<tm, hw, hwCurrent, wf, box, pc, read, mem, snap, fresh, caches, births>>

\* An informer catches up.  A cache shows its kind as it was at some moment.
SyncMachines ==
  /\ MachineCacheLags /\ tmSeen # tm
  /\ tmSeen' = tm
  /\ UNCHANGED <<tm, hw, hwSeen, hwCurrent, wf, job, box, pc, read, mem, snap, fresh, boundVars>>

SyncHardware ==
  /\ HardwareCacheLags /\ hwCurrent # Hardware
  /\ hwSeen' = hw
  /\ hwCurrent' = Hardware
  /\ UNCHANGED <<tm, tmSeen, hw, wf, job, box, pc, read, mem, snap, fresh, boundVars>>

-------------------------------------------------------------------------------
Worker(m) ==
  \/ Reconcile(m) \/ ListAssigned(m) \/ ListFree(m) \/ ClaimRefused(m) \/ Claim(m)
  \/ UserData(m) \/ SetStatus(m) \/ GetWorkflow(m) \/ CreateWorkflow(m)
  \/ MarkProvisioned(m) \/ AddFinalizer(m) \/ GetHardware(m) \/ RemoveDependencies(m)
  \/ PowerOff(m) \/ Release(m) \/ RemoveFinalizer(m)

Fault(m) ==
  \/ CallFails(m) \/ PatchFailsHalfway(m) \/ Crash(m)
  \/ WorkflowFails(m) \/ PowerOffFails(m)

Tinkerbell(m) == WorkflowSucceeds(m) \/ PowerOffCompletes(m)

Environment(m) == CreateMachine(m) \/ DeleteMachine(m) \/ CollectGarbage(m)

Next ==
  \/ \E m \in Machines : Worker(m) \/ Fault(m) \/ Tinkerbell(m) \/ Environment(m)
  \/ \E h \in Hardware : DeleteHardware(h)
  \/ SyncMachines
  \/ SyncHardware

Spec == Init /\ [][Next]_vars

\* The work queue retries every machine that is not settled (watch events,
\* error back-off, RequeueAfter), informers catch up, Tinkerbell and Rufio
\* finish what they are given.
Fairness ==
  /\ \A m \in Machines : WF_vars(Worker(m)) /\ WF_vars(Tinkerbell(m))
  /\ WF_vars(SyncMachines)
  /\ WF_vars(SyncHardware)

FairSpec == Spec /\ Fairness

-------------------------------------------------------------------------------
(* Properties *)

\* Every variable holds values of its kind, and a worker that reaches a step
\* on Hardware holds one.
TypeOK ==
  /\ tm \in [Machines -> MachineRec]
  /\ tmSeen \in [Machines -> MachineRec]
  /\ hw \in [Hardware -> HardwareRec]
  /\ hwSeen \in [Hardware -> HardwareRec]
  /\ hwCurrent \in SUBSET Hardware
  /\ wf \in [Machines -> TaskRec]
  /\ job \in [Machines -> TaskRec]
  /\ box \in [Hardware -> BoxRec]
  /\ pc \in [Machines -> Steps]
  /\ read \in [Machines -> MachineRec]
  /\ mem \in [Machines -> MachineRec]
  /\ snap \in [Machines -> SnapRec]
  /\ fresh \in SUBSET Machines
  /\ faults \in 0..MaxFaults
  /\ births \in [Machines -> 0..MaxBirths]
  /\ \A m \in Machines : pc[m] \in Holding => snap[m].name \in Hardware

\* A machine never holds two Hardware: hardwareForMachine looks for Hardware
\* already assigned to it before it takes another, and is not restarted
\* between the two.
OneHardwarePerMachine ==
  \A g, h \in Hardware :
    hw[g].owner # None /\ hw[g].owner = hw[h].owner => g = h

\* Hardware never passes from one machine to another without being given back
\* in between: two workers that chose the same free Hardware cannot both get
\* it (takeHardwareOwnership).
OwnershipPassesThroughNone ==
  [][\A h \in Hardware :
       hw[h].owner # None => hw'[h].owner \in {hw[h].owner, None}]_vars

\* A machine that has recorded a hardwareName and is not being deleted owns
\* that Hardware: nobody else gives it back (releaseHardware) or claims it.
RecordedHardwareIsOwned ==
  \A m \in Machines :
    tm[m].exists /\ ~tm[m].deleting /\ tm[m].hardware # None
      => hw[tm[m].hardware].owner = m

\* Hardware that is free to claim carries neither a former machine's user data
\* (its cluster's secrets) nor its provisioned annotation, with which the next
\* machine would be ready without having been installed (releaseHardware,
\* against the unlocked writes of ensureHardwareUserData and
\* patchHardwareAnnotations).
FreeHardwareIsClean ==
  \A h \in Hardware :
    hw[h].owner = None => hw[h].userData = None /\ ~hw[h].provisioned

\* A machine that is ready runs its own image on the Hardware it recorded, and
\* keeps doing so until it is deleted.
ReadyMachineIsImaged ==
  \A m \in Machines :
    tm[m].exists /\ ~tm[m].deleting /\ tm[m].ready
      => /\ tm[m].hardware # None
         /\ box[tm[m].hardware].image = m

\* Hardware with a BMC that is free to claim is off: it went through power-off
\* after the last Workflow that ran on it was removed.
FreeHardwareIsOff ==
  \A h \in BMC : hw[h].exists /\ hw[h].owner = None => ~box[h].on

\* No Workflow writes to Hardware that a ready machine runs on.
ReadyMachineIsNotReimaged ==
  [][\A m \in Machines :
       tm[m].exists /\ ~tm[m].deleting /\ tm[m].ready /\ tm[m].hardware # None
         => box'[tm[m].hardware].image = box[tm[m].hardware].image]_vars

\* A machine that holds the finalizer and has recorded its Hardware does not
\* go before it has given the Hardware back.
HardwareReleasedBeforeMachineGoes ==
  [][\A m \in Machines :
       tm[m].exists /\ tm[m].finalizer /\ ~tm'[m].exists /\ tm[m].hardware # None
         => hw[tm[m].hardware].owner # m]_vars

\* Owned Hardware has an owner that exists: "Add finalizer to hardware as well
\* to make sure we release it before Machine object is removed".
OwnerExists ==
  \A h \in Hardware : hw[h].owner # None => tm[hw[h].owner].exists

\* A machine that is deleted goes in the end: its deletion is started again
\* after every error and requeue, and gets past what earlier passes have done.
\* It stays for a failed power-off Job, which nobody makes again ("bmc job %s/%s
\* failed"), and the direct client refuses the empty name of a machine that
\* never recorded Hardware.
DeletedMachineGoes ==
  \A m \in Machines :
    tm[m].deleting /\ (External => tm[m].hardware # None)
      ~> ~tm[m].exists \/ job[m].state = "failed"

\* Without the two exceptions.
EveryDeletedMachineGoes ==
  \A m \in Machines : tm[m].deleting ~> ~tm[m].exists

\* No Hardware that the machine could have is free or its own.
NothingLeft(m) ==
  \A h \in Eligible[m] : hw[h].exists => hw[h].owner \notin {None, m}

\* As long as some Hardware is left for it a machine is ready in the end, unless
\* it is deleted or its Workflow fails: what an earlier Reconcile claimed,
\* recorded or created before it was cut short is found again and used.
MachineGetsReady ==
  \A m \in Machines :
    tm[m].exists ~> \/ tm[m].ready \/ tm[m].deleting \/ ~tm[m].exists
                   \/ wf[m].state = "failed" \/ NothingLeft(m)

\* The lease on Hardware that the labels, hardwareName with the finalizer, and
\* the deletion timestamp stand for.
Lease == INSTANCE HardwareLease WITH
  holder <- [h \in Hardware |-> hw[h].owner],
  registered <- [m \in Machines |-> IF tm[m].finalizer THEN tm[m].hardware ELSE None],
  leaving <- {m \in Machines : tm[m].deleting}

\* The controller implements the lease.
ImplementsLease == Lease!LeaseSpec
===============================================================================
