-------------------------- MODULE HardwareUseProofs --------------------------
(***************************************************************************)
(* More theorems about the TinkerbellMachine controller, for every number  *)
(* of machines and Hardware: who owns the Hardware a machine recorded,     *)
(* what free Hardware carries, whose image Hardware runs and whether it is *)
(* powered; and, where Hardware is read without lag, that the controller   *)
(* implements HardwareLease.                                               *)
(***************************************************************************)
EXTENDS MachineLifecycleProofs

(***************************************************************************)
(* Machines are read as the server has them, a cache of Hardware may be    *)
(* behind as long as no name of a machine comes back, and nothing fails    *)
(* between the release of Hardware and the removal of the machine's        *)
(* finalizer.  Without the first or the last a deletion releases by name   *)
(* what another machine has claimed since; without the second a machine    *)
(* takes the labels of its predecessor, which the cache still shows, for   *)
(* its own (see the README).                                               *)
(***************************************************************************)
Timely ==
  /\ ~MachineCacheLags
  /\ HardwareCacheLags => MaxBirths <= 1
  /\ "removeFinalizer" \notin FaultPoints

\* The steps of a Reconcile that does not delete.
Attempt == Provisioning \cup {"addFinalizer"}

\* The steps between reading the provisioned annotation and writing it.
Imaging == {"getWorkflow", "createWorkflow", "markProvisioned"}

\* The worker's copies against the machine on the server.  A deletion works
\* with a copy that stays current; an attempt may be overtaken by a deletion,
\* and has in memory at most a hardwareName more than the server, or another one.
MachineAgrees(m) ==
  /\ ~tm[m].exists => tm[m] = NoMachine
  /\ tm[m].deleting => tm[m].finalizer
  /\ tm[m].exists \/ pc[m] # "idle" => births[m] > 0
  /\ pc[m] \in Deleting => tm[m].deleting /\ read[m] = tm[m] /\ mem[m] = tm[m]
  /\ pc[m] \in {"listAssigned", "listFree", "claim"} => mem[m] = read[m]
  /\ pc[m] \in Attempt =>
       /\ mem[m].finalizer = read[m].finalizer
       /\ mem[m].hardware = None => read[m].hardware = None
       /\ tm[m].exists => /\ tm[m].finalizer = read[m].finalizer
                          /\ tm[m].hardware \in {read[m].hardware, mem[m].hardware}
  /\ pc[m] \in Imaging /\ tm[m].exists => tm[m].hardware = mem[m].hardware

\* The steps at which a worker holds the Hardware its machine has in memory.
OnHardware == (Holding \ {"claim"}) \cup {"removeDependencies"}

\* What a machine has recorded it owns, until its worker has given it back;
\* what its worker holds it owns.
HolderOwns(m) ==
  /\ tm[m].hardware # None =>
       IF pc[m] = "removeFinalizer" THEN hw[tm[m].hardware].owner # m
                                    ELSE hw[tm[m].hardware].owner = m
  /\ pc[m] \in Attempt /\ mem[m].hardware # None => hw[mem[m].hardware].owner = m
  /\ pc[m] = "claim" /\ snap[m].copy.owner = m => hw[snap[m].name].owner = m
  /\ pc[m] \in OnHardware => snap[m].name = mem[m].hardware
  /\ pc[m] \in {"idle", "getHardware"} => snap[m].name = None

\* The machine is on its way out or gone, and works for its release only.
Retired(m) ==
  births[m] > 0 /\ pc[m] \notin Attempt /\ (tm[m].exists => tm[m].deleting)

\* What a cache shows as a machine's own is, and is marked if it shows it marked,
\* unless the machine has given it back since and does not look any more.
CacheAgrees(h) ==
  HardwareCacheLags =>
    /\ ~hwSeen[h].exists => ~hw[h].exists
    /\ \A m \in Machines :
         hwSeen[h].owner = m =>
           \/ Retired(m)
           \/ hw[h].owner = m /\ (hwSeen[h].provisioned => hw[h].provisioned)

\* The inductive invariant for ownership.
OwnershipInv ==
  /\ TypeOK /\ CopiesAreCurrent /\ OwnedExists
  /\ HardwareCacheLags \/ OneHardwareInv
  /\ \A h \in Hardware : CacheAgrees(h)
  /\ \A m \in Machines : MachineAgrees(m) /\ HolderOwns(m)

-------------------------------------------------------------------------------
(* What a step can change. *)

Own(m) == Worker(m) \/ CallFails(m) \/ PatchFailsHalfway(m) \/ Crash(m)

\* Nobody but its own worker touches a worker's memory, and its machine only the
\* users.
LEMMA OthersMemory ==
  ASSUME TypeOK, [Next]_vars, NEW m \in Machines, ~Own(m)
  PROVE  /\ pc'[m] = pc[m] /\ read'[m] = read[m] /\ mem'[m] = mem[m]
         /\ snap'[m] = snap[m]
         /\ tm'[m] = tm[m] \/ CreateMachine(m) \/ DeleteMachine(m)
<1> USE DEF caches, boundVars, TypeOK
<1>1. ASSUME NEW x \in Machines, Own(x), x # m
      PROVE  /\ pc'[m] = pc[m] /\ read'[m] = read[m] /\ mem'[m] = mem[m]
             /\ snap'[m] = snap[m] /\ tm'[m] = tm[m]
  BY <1>1 DEF Own, Worker, Reconcile, ListAssigned, ListFree, ClaimRefused, Claim,
              UserData, SetStatus, GetWorkflow, CreateWorkflow, MarkProvisioned,
              AddFinalizer, GetHardware, RemoveDependencies, PowerOff, Release,
              RemoveFinalizer, CallFails, PatchFailsHalfway, Crash, Goto, Return, Take, PatchHardware
<1>2. ASSUME NEW x \in Machines, WorkflowFails(x) \/ PowerOffFails(x) \/ Tinkerbell(x)
      PROVE  UNCHANGED <<pc, read, mem, snap, tm>>
  BY <1>2 DEF WorkflowFails, PowerOffFails, Tinkerbell, WorkflowSucceeds, PowerOffCompletes
<1>3. ASSUME NEW x \in Machines, Environment(x)
      PROVE  /\ UNCHANGED <<pc, read, mem, snap>>
             /\ tm'[m] = tm[m] \/ (x = m /\ (CreateMachine(m) \/ DeleteMachine(m)))
  BY <1>3 DEF Environment, CreateMachine, DeleteMachine, CollectGarbage
<1>4. CASE (\E h \in Hardware : DeleteHardware(h)) \/ SyncMachines \/ SyncHardware
           \/ UNCHANGED vars
  BY <1>4 DEF DeleteHardware, SyncMachines, SyncHardware, vars
<1> QED BY <1>1, <1>2, <1>3, <1>4 DEF Next, Fault, Own

\* The writes to Hardware.
LEMMA HardwareStep ==
  ASSUME TypeOK, CopiesAreCurrent, [Next]_vars, NEW h \in Hardware, hw'[h] # hw[h]
  PROVE  \/ \E m \in Machines :
              /\ snap[m].name = h
              /\ \/ /\ Claim(m) /\ hw[h].owner = None /\ snap[m].copy = hw[h]
                    /\ hw'[h] = [hw[h] EXCEPT !.owner = m]
                 \/ UserData(m) /\ hw'[h] = [hw[h] EXCEPT !.userData = m]
                 \/ MarkProvisioned(m) /\ hw'[h] = [hw[h] EXCEPT !.provisioned = TRUE]
                 \/ Release(m) /\ hw'[h] = Released(hw[h])
         \/ /\ DeleteHardware(h)
            /\ hw'[h] = IF hw[h].owner = None THEN [FreeHardware EXCEPT !.exists = FALSE]
                                              ELSE [hw[h] EXCEPT !.deleting = TRUE]
<1> USE DEF caches, boundVars
<1>1. ASSUME NEW m \in Machines, Claim(m)
      PROVE  /\ snap[m].name = h /\ hw[h].owner = None /\ snap[m].copy = hw[h]
             /\ hw'[h] = [hw[h] EXCEPT !.owner = m]
  <2>1. /\ snap[m].copy.owner = None /\ m \in fresh
        /\ hw' = [hw EXCEPT ![snap[m].name] = [snap[m].copy EXCEPT !.owner = m]]
    BY <1>1 DEF Claim, PatchHardware, SetHardware
  <2>2. snap[m].name = h
    BY <2>1 DEF TypeOK
  <2> QED BY <2>1, <2>2 DEF CopiesAreCurrent, TypeOK
<1>2. ASSUME NEW m \in Machines, UserData(m)
      PROVE  snap[m].name = h /\ hw'[h] = [hw[h] EXCEPT !.userData = m]
  <2>1. hw' = [hw EXCEPT ![snap[m].name] = [hw[snap[m].name] EXCEPT !.userData = m]]
    BY <1>2 DEF UserData, PatchHardware, SetHardware
  <2> QED BY <2>1 DEF TypeOK
<1>3. ASSUME NEW m \in Machines, MarkProvisioned(m)
      PROVE  snap[m].name = h /\ hw'[h] = [hw[h] EXCEPT !.provisioned = TRUE]
  <2>1. hw' = [hw EXCEPT ![snap[m].name] = [hw[snap[m].name] EXCEPT !.provisioned = TRUE]]
    BY <1>3 DEF MarkProvisioned, PatchHardware, SetHardware
  <2> QED BY <2>1 DEF TypeOK
<1>4. ASSUME NEW m \in Machines, Release(m)
      PROVE  snap[m].name = h /\ hw'[h] = Released(hw[h])
  <2>1. m \in fresh /\ hw' = [hw EXCEPT ![snap[m].name] = Released(snap[m].copy)]
    BY <1>4 DEF Release, PatchHardware, SetHardware
  <2>2. snap[m].name = h
    BY <2>1 DEF TypeOK
  <2> QED BY <2>1, <2>2 DEF CopiesAreCurrent, TypeOK
<1>5. ASSUME NEW g \in Hardware, DeleteHardware(g)
      PROVE  /\ g = h
             /\ hw'[h] = IF hw[h].owner = None THEN [FreeHardware EXCEPT !.exists = FALSE]
                                               ELSE [hw[h] EXCEPT !.deleting = TRUE]
  BY <1>5 DEF DeleteHardware, SetHardware, TypeOK
<1>6. ASSUME NEW m \in Machines,
             \/ Reconcile(m) \/ ListAssigned(m) \/ ListFree(m) \/ ClaimRefused(m)
             \/ SetStatus(m) \/ GetWorkflow(m) \/ CreateWorkflow(m) \/ AddFinalizer(m)
             \/ GetHardware(m) \/ RemoveDependencies(m) \/ PowerOff(m)
             \/ RemoveFinalizer(m) \/ Fault(m) \/ Tinkerbell(m) \/ Environment(m)
      PROVE  FALSE
  BY <1>6 DEF Reconcile, ListAssigned, ListFree, ClaimRefused, SetStatus, GetWorkflow,
              CreateWorkflow, AddFinalizer, GetHardware, RemoveDependencies, PowerOff,
              RemoveFinalizer, Fault, CallFails, PatchFailsHalfway, Crash, WorkflowFails, PowerOffFails,
              Tinkerbell, WorkflowSucceeds, PowerOffCompletes, Environment,
              CreateMachine, DeleteMachine, CollectGarbage
<1>7. CASE SyncMachines \/ SyncHardware \/ UNCHANGED vars
  BY <1>7 DEF SyncMachines, SyncHardware, vars
<1> QED
  BY <1>1, <1>2, <1>3, <1>4, <1>5, <1>6, <1>7 DEF Next, Worker

\* What a machine owns stays its own until its own worker releases it.
LEMMA OwnedStays ==
  ASSUME OwnershipInv, [Next]_vars, NEW m \in Machines, NEW h \in Hardware,
         hw[h].owner = m, ~(Release(m) /\ snap[m].name = h)
  PROVE  hw'[h].owner = m /\ (hw[h].provisioned => hw'[h].provisioned)
<1>1. hw[h] \in HardwareRec /\ m # None
  BY NoneAssumption DEF OwnershipInv, TypeOK
<1>2. ASSUME NEW x \in Machines, Release(x), snap[x].name = h PROVE x = m
  <2>1. pc[x] = "release" /\ MachineAgrees(x) /\ HolderOwns(x)
    BY <1>2 DEF Release, OwnershipInv
  <2>2. mem[x] = tm[x] /\ snap[x].name = mem[x].hardware
    BY <2>1 DEF MachineAgrees, HolderOwns, Deleting, OnHardware, Holding
  <2> QED BY <1>1, <1>2, <2>1, <2>2, NoneAssumption DEF HolderOwns
<1>3. CASE hw'[h] # hw[h]
  BY <1>1, <1>2, <1>3, HardwareStep DEF OwnershipInv, HardwareRec
<1> QED BY <1>3

\* What a machine does not own becomes its own only by its own claim.
LEMMA NotOwnedStays ==
  ASSUME OwnershipInv, [Next]_vars, NEW m \in Machines, NEW h \in Hardware,
         hw[h].owner # m, ~Claim(m)
  PROVE  hw'[h].owner # m
<1>1. hw'[h].owner = hw[h].owner \/ hw'[h].owner = None
      \/ \E x \in Machines : Claim(x) /\ hw'[h].owner = x
  BY OwnerStep DEF OwnershipInv
<1> QED BY <1>1, NoneAssumption

\* Hardware that is gone does not come back.
LEMMA GoneStays ==
  ASSUME OwnershipInv, [Next]_vars, NEW h \in Hardware, ~hw[h].exists
  PROVE  ~hw'[h].exists
<1>1. hw[h] \in HardwareRec
  BY DEF OwnershipInv, TypeOK
<1>2. CASE hw'[h] # hw[h]
  <2>1. hw'[h] = Released(hw[h]) => ~hw'[h].exists
    BY <1>1 DEF Released, FreeHardware, HardwareRec
  <2> QED BY <1>1, <1>2, <2>1, HardwareStep DEF OwnershipInv, HardwareRec, FreeHardware
<1> QED BY <1>2

\* A name is created once more by CreateMachine alone.
LEMMA BirthStep ==
  ASSUME TypeOK, [Next]_vars, NEW m \in Machines
  PROVE  \/ births'[m] = births[m]
         \/ /\ CreateMachine(m) /\ births'[m] = births[m] + 1
            /\ births[m] < MaxBirths
<1> USE DEF caches, boundVars
<1>1. ASSUME NEW x \in Machines, CreateMachine(x)
      PROVE  births'[m] = births[m] \/ (x = m /\ births'[m] = births[m] + 1)
  BY <1>1 DEF CreateMachine, TypeOK
<1>2. ASSUME NEW x \in Machines,
             \/ Worker(x) \/ Fault(x) \/ Tinkerbell(x) \/ DeleteMachine(x) \/ CollectGarbage(x)
      PROVE  UNCHANGED births
  BY <1>2 DEF Worker, Reconcile, ListAssigned, ListFree, ClaimRefused, Claim, UserData,
              SetStatus, GetWorkflow, CreateWorkflow, MarkProvisioned, AddFinalizer,
              GetHardware, RemoveDependencies, PowerOff, Release, RemoveFinalizer, Fault,
              CallFails, PatchFailsHalfway, Crash, WorkflowFails, PowerOffFails, Tinkerbell, WorkflowSucceeds,
              PowerOffCompletes, DeleteMachine, CollectGarbage
<1>3. CASE (\E g \in Hardware : DeleteHardware(g)) \/ SyncMachines \/ SyncHardware
           \/ UNCHANGED vars
  BY <1>3 DEF DeleteHardware, SyncMachines, SyncHardware, vars
<1> QED BY <1>1, <1>2, <1>3 DEF Next, Environment, CreateMachine

\* Until then the number of its births stays.
LEMMA BornStays ==
  ASSUME TypeOK, [Next]_vars, NEW m \in Machines
  PROVE  /\ births[m] > 0 => births'[m] > 0
         /\ CreateMachine(m) => births'[m] > 0
<1>1. births[m] \in Nat /\ births \in [Machines -> 0..MaxBirths]
  BY BoundAssumption DEF TypeOK
<1>2. CreateMachine(m) => births'[m] = births[m] + 1
  BY <1>1 DEF CreateMachine
<1> QED BY <1>1, <1>2, BirthStep

\* What a list shows as the machine's own is, and Hardware that is there is found.
LEMMA ListedIsOwned ==
  ASSUME OwnershipInv, NEW m \in Machines, pc[m] \in Attempt, NEW h \in Hardware,
         ReadHardware(h).owner = m
  PROVE  hw[h].owner = m /\ (ReadHardware(h).provisioned => hw[h].provisioned)
BY DEF OwnershipInv, CacheAgrees, Retired, ReadHardware

LEMMA OwnedIsFound ==
  ASSUME OwnershipInv, NEW h \in Hardware, hw[h].owner # None
  PROVE  ReadHardware(h).exists
<1>1. hw[h].exists
  BY DEF OwnershipInv, OwnedExists
<1> QED BY <1>1 DEF OwnershipInv, CacheAgrees, ReadHardware

\* scope.patch in a Reconcile that does not delete: what is recorded stays, and
\* what is not becomes what the worker has in memory.  A name that the webhook
\* refuses takes the finalizer of the same request with it, and not the status.
LEMMA PatchInAttempt ==
  ASSUME OwnershipInv, NEW m \in Machines, pc[m] \in Attempt, tm[m].exists,
         NEW now \in {mem[m], [mem[m] EXCEPT !.finalizer = TRUE]}
  PROVE  /\ Patched(m, now) \in MachineRec
         /\ Patched(m, now).exists
         /\ Patched(m, now).deleting = tm[m].deleting
         /\ tm[m].finalizer => Patched(m, now).finalizer
         /\ now = mem[m] => Patched(m, now).finalizer = tm[m].finalizer
         /\ tm[m].hardware # None => Patched(m, now).hardware = tm[m].hardware
         /\ Patched(m, now).hardware =
              (IF Rejected(m, now) THEN tm[m].hardware ELSE mem[m].hardware)
         /\ Patched(m, now).ready = (IF mem[m].ready = read[m].ready THEN tm[m].ready
                                                                  ELSE mem[m].ready)
         /\ ~HardwareCacheLags => ~Rejected(m, now)
<1>1. /\ tm[m] \in MachineRec /\ read[m] \in MachineRec /\ mem[m] \in MachineRec
      /\ MachineAgrees(m) /\ HolderOwns(m)
  BY DEF OwnershipInv, TypeOK
<1>2. /\ now \in MachineRec
      /\ now.hardware = mem[m].hardware /\ now.ready = mem[m].ready
      /\ mem[m].finalizer => now.finalizer
      /\ now = mem[m] => now.finalizer = mem[m].finalizer
      /\ now.finalizer \in BOOLEAN
  BY <1>1 DEF MachineRec
<1>3. pc[m] # "removeFinalizer"
  BY DEF Attempt, Provisioning
<1>4. tm[m].hardware \in Names /\ mem[m].hardware \in Names
  BY <1>1 DEF MachineRec
<1>5. ~HardwareCacheLags => ~Rejected(m, now)
  <2> SUFFICES ASSUME ~HardwareCacheLags,
                      mem[m].hardware # read[m].hardware, tm[m].hardware # None
               PROVE  tm[m].hardware = mem[m].hardware
    BY <1>2 DEF Rejected
  <2>1. mem[m].hardware # None
    BY <1>1 DEF MachineAgrees
  <2>2. hw[tm[m].hardware].owner = m /\ hw[mem[m].hardware].owner = m
    BY <1>1, <1>3, <2>1 DEF HolderOwns
  <2> QED BY <1>4, <2>1, <2>2, NoneAssumption DEF OwnershipInv, OneHardwareInv,
                                                OneHardwarePerMachine, Names
<1>6. /\ mem[m].finalizer = read[m].finalizer /\ tm[m].finalizer = read[m].finalizer
      /\ tm[m].hardware \in {read[m].hardware, mem[m].hardware}
      /\ tm[m].deleting => tm[m].finalizer
  BY <1>1 DEF MachineAgrees
<1> DEFINE sent == IF now.finalizer = read[m].finalizer THEN tm[m].finalizer
                                                        ELSE now.finalizer
           fin == IF ~Rejected(m, now) THEN sent ELSE tm[m].finalizer
           name == IF now.hardware = read[m].hardware THEN tm[m].hardware
                                                      ELSE now.hardware
           kept == IF ~Rejected(m, now) THEN name ELSE tm[m].hardware
           ready == IF now.ready = read[m].ready THEN tm[m].ready ELSE now.ready
           p == [tm[m] EXCEPT !.hardware = kept, !.finalizer = fin, !.ready = ready]
<1>7. /\ sent \in BOOLEAN
      /\ tm[m].finalizer => sent
      /\ now = mem[m] => sent = tm[m].finalizer
  BY <1>1, <1>2, <1>6 DEF MachineRec
<1>8. /\ fin \in BOOLEAN
      /\ tm[m].finalizer => fin
      /\ now = mem[m] => fin = tm[m].finalizer
  <2>1. CASE Rejected(m, now)
    BY <1>1, <2>1 DEF MachineRec
  <2>2. CASE ~Rejected(m, now)
    BY <1>7, <2>2
  <2> QED BY <2>1, <2>2
<1>9. Patched(m, now) = p
  BY <1>6, <1>8 DEF Patched
<1>10. /\ name = mem[m].hardware
       /\ ~Rejected(m, now) /\ tm[m].hardware # None => mem[m].hardware = tm[m].hardware
  BY <1>2, <1>6 DEF Rejected
<1>11. /\ kept \in Names
       /\ kept = IF Rejected(m, now) THEN tm[m].hardware ELSE mem[m].hardware
  BY <1>4, <1>10
<1>12. ready \in BOOLEAN
  BY <1>1, <1>2 DEF MachineRec
<1> HIDE DEF fin, kept, ready
<1>13. /\ p \in MachineRec /\ p.exists = tm[m].exists /\ p.deleting = tm[m].deleting
       /\ p.finalizer = fin /\ p.hardware = kept /\ p.ready = ready
  BY <1>1, <1>8, <1>11, <1>12 DEF MachineRec
<1> HIDE DEF p
<1>14. ready = IF mem[m].ready = read[m].ready THEN tm[m].ready ELSE mem[m].ready
  BY <1>2 DEF ready
<1> QED BY <1>5, <1>8, <1>9, <1>10, <1>11, <1>13, <1>14

\* When one of its two requests fails, the other leaves a part of that.
LEMMA PatchHalfway ==
  ASSUME OwnershipInv, NEW m \in Machines, PatchFailsHalfway(m)
  PROVE  /\ pc[m] = "addFinalizer" /\ pc'[m] = "idle" /\ snap'[m] = NoSnap
         /\ UNCHANGED <<hw, hwCurrent, wf, job, box>>
         /\ \A x \in Machines : x # m => tm'[x] = tm[x]
         /\ tm[m].exists /\ tm'[m].exists
         /\ tm'[m].deleting = tm[m].deleting
         /\ tm[m].finalizer => tm'[m].finalizer
         /\ tm[m].hardware # None => tm'[m].hardware = tm[m].hardware
         /\ tm'[m].hardware \in {tm[m].hardware, mem[m].hardware}
         /\ tm'[m].ready # tm[m].ready =>
              mem[m].ready # read[m].ready /\ tm'[m].ready = mem[m].ready
         /\ tm'[m].finalizer # tm[m].finalizer /\ ~HardwareCacheLags =>
              tm'[m].hardware = mem[m].hardware
<1>1. /\ tm[m] \in MachineRec /\ read[m] \in MachineRec /\ mem[m] \in MachineRec
      /\ MachineAgrees(m) /\ HolderOwns(m) /\ tm \in [Machines -> MachineRec]
      /\ pc \in [Machines -> Steps] /\ snap \in [Machines -> SnapRec]
  BY DEF OwnershipInv, TypeOK
<1>2. /\ pc[m] = "addFinalizer" /\ pc'[m] = "idle" /\ snap'[m] = NoSnap /\ tm[m].exists
      /\ UNCHANGED <<hw, hwCurrent, wf, job, box>>
      /\ \A x \in Machines : x # m => tm'[x] = tm[x]
  BY <1>1 DEF PatchFailsHalfway, Return, Goto
<1>3. /\ mem[m].finalizer = read[m].finalizer /\ tm[m].finalizer = read[m].finalizer
      /\ tm[m].hardware \in {read[m].hardware, mem[m].hardware}
      /\ tm[m].deleting => tm[m].finalizer
  BY <1>1, <1>2 DEF MachineAgrees, Attempt
<1>4. ~HardwareCacheLags /\ tm[m].hardware # None /\ mem[m].hardware # read[m].hardware
        => tm[m].hardware = mem[m].hardware
  <2> SUFFICES ASSUME ~HardwareCacheLags,
                      mem[m].hardware # read[m].hardware, tm[m].hardware # None
               PROVE  tm[m].hardware = mem[m].hardware
    OBVIOUS
  <2>1. mem[m].hardware # None
    BY <1>1, <1>2 DEF MachineAgrees, Attempt
  <2>2. hw[tm[m].hardware].owner = m /\ hw[mem[m].hardware].owner = m
    BY <1>1, <1>2, <2>1 DEF HolderOwns, Attempt
  <2> QED BY <1>1, <2>1, <2>2, NoneAssumption DEF OwnershipInv, OneHardwareInv,
                                                OneHardwarePerMachine, Names, MachineRec
<1>5. ASSUME NEW now, now = [mem[m] EXCEPT !.finalizer = TRUE, !.ready = read[m].ready]
      PROVE  /\ now.hardware = mem[m].hardware /\ now.ready = read[m].ready /\ now.finalizer
             /\ now \in MachineRec
  BY <1>1, <1>5 DEF MachineRec
<1>6. ASSUME NEW now, now = [read[m] EXCEPT !.ready = mem[m].ready]
      PROVE  /\ now.hardware = read[m].hardware /\ now.ready = mem[m].ready
             /\ now.finalizer = read[m].finalizer /\ now \in MachineRec
  BY <1>1, <1>6 DEF MachineRec
<1>7. PICK now : /\ tm'[m] = Patched(m, now)
                 /\ \/ now = [mem[m] EXCEPT !.finalizer = TRUE, !.ready = read[m].ready]
                    \/ now = [read[m] EXCEPT !.ready = mem[m].ready]
  BY <1>1 DEF PatchFailsHalfway
<1> DEFINE fin == IF Rejected(m, now) \/ now.finalizer = read[m].finalizer
                  THEN tm[m].finalizer ELSE now.finalizer
           name == IF Rejected(m, now) \/ now.hardware = read[m].hardware
                   THEN tm[m].hardware ELSE now.hardware
           ready == IF now.ready = read[m].ready THEN tm[m].ready ELSE now.ready
<1>8. fin \in BOOLEAN /\ (tm[m].finalizer => fin)
  BY <1>1, <1>3, <1>5, <1>6, <1>7 DEF MachineRec
<1>9. tm'[m] = [tm[m] EXCEPT !.hardware = name, !.finalizer = fin, !.ready = ready]
  BY <1>3, <1>7, <1>8 DEF Patched
<1>10. /\ tm'[m].hardware = name /\ tm'[m].finalizer = fin /\ tm'[m].ready = ready
       /\ tm'[m].deleting = tm[m].deleting /\ tm'[m].exists = tm[m].exists
  BY <1>1, <1>9 DEF MachineRec
<1>11. name \in {tm[m].hardware, mem[m].hardware}
       /\ (tm[m].hardware # None => name = tm[m].hardware)
  BY <1>3, <1>5, <1>6, <1>7 DEF Rejected
<1>12. ready # tm[m].ready => mem[m].ready # read[m].ready /\ ready = mem[m].ready
  BY <1>5, <1>6, <1>7
<1>13. fin # tm[m].finalizer /\ ~HardwareCacheLags => name = mem[m].hardware
  BY <1>3, <1>4, <1>5, <1>6, <1>7 DEF Rejected
<1> HIDE DEF fin, name, ready
<1> QED BY <1>2, <1>8, <1>10, <1>11, <1>12, <1>13

\* And at the end of the deletion, where it lets the machine go.
LEMMA PatchAtEnd ==
  ASSUME OwnershipInv, NEW m \in Machines, pc[m] = "removeFinalizer"
  PROVE  /\ tm[m].exists
         /\ Patched(m, [mem[m] EXCEPT !.finalizer = FALSE]) = NoMachine
<1>1. tm[m] \in MachineRec /\ MachineAgrees(m)
  BY DEF OwnershipInv, TypeOK
<1>2. tm[m].deleting /\ read[m] = tm[m] /\ mem[m] = tm[m] /\ tm[m].finalizer
  BY <1>1 DEF MachineAgrees, Deleting
<1>3. tm[m].exists
  BY <1>1, <1>2 DEF MachineAgrees, NoMachine
<1> QED BY <1>1, <1>2, <1>3 DEF Patched, Rejected, MachineRec

-------------------------------------------------------------------------------
(* OwnershipInv is inductive. *)

\* At first there are no machines and nobody is at work.
LEMMA OwnershipInit == Init => \A m \in Machines : MachineAgrees(m) /\ HolderOwns(m)
<1> SUFFICES ASSUME Init, NEW m \in Machines PROVE MachineAgrees(m) /\ HolderOwns(m)
  OBVIOUS
<1>1. tm[m] = NoMachine /\ pc[m] = "idle" /\ snap[m].name = None
  BY DEF Init, NoSnap
<1>2. ~NoMachine.deleting /\ NoMachine.hardware = None
  BY DEF NoMachine
<1> QED BY <1>1, <1>2 DEF MachineAgrees, HolderOwns, Attempt, Provisioning, Deleting,
                          OnHardware, Holding, Imaging, NoMachine

\* The cache shows it so.
LEMMA CacheInit == Init => \A h \in Hardware : CacheAgrees(h)
<1> SUFFICES ASSUME Init, NEW h \in Hardware PROVE CacheAgrees(h)
  OBVIOUS
<1>1. hwSeen[h] = hw[h] /\ hw[h].owner = None
  BY DEF Init, FreeHardware
<1> QED BY <1>1, NoneAssumption DEF CacheAgrees

\* Every step keeps the worker's copies in agreement with the server.
LEMMA AgreesStep ==
  ASSUME Timely, OwnershipInv, [Next]_vars, NEW m \in Machines
  PROVE  MachineAgrees(m)'
<1> USE DEF caches, boundVars, Attempt, Provisioning, Deleting, Imaging, Goto, Return
<1>1. /\ tm[m] \in MachineRec /\ read[m] \in MachineRec /\ mem[m] \in MachineRec
      /\ MachineAgrees(m) /\ HolderOwns(m) /\ TypeOK /\ ReadMachine(m) = tm[m]
      /\ births[m] > 0 => births'[m] > 0
  BY BornStays DEF OwnershipInv, TypeOK, Timely, ReadMachine
<1>2. /\ tm \in [Machines -> MachineRec] /\ pc \in [Machines -> Steps]
      /\ read \in [Machines -> MachineRec] /\ mem \in [Machines -> MachineRec]
  BY <1>1 DEF TypeOK
<1>3. CASE ~Own(m)
  <2>1. /\ pc'[m] = pc[m] /\ read'[m] = read[m] /\ mem'[m] = mem[m]
        /\ tm'[m] = tm[m] \/ CreateMachine(m) \/ DeleteMachine(m)
    BY <1>1, <1>3, OthersMemory
  <2>2. CASE tm'[m] = tm[m]
    BY <1>1, <2>1, <2>2 DEF MachineAgrees
  <2>3. CASE CreateMachine(m)
    <3>1. pc[m] = "idle" /\ tm'[m] = [NoMachine EXCEPT !.exists = TRUE]
      BY <1>2, <2>3 DEF CreateMachine
    <3>2. births'[m] > 0
      BY <1>1, <2>3, BornStays
    <3> QED BY <2>1, <3>1, <3>2 DEF MachineAgrees, NoMachine
  <2>4. CASE DeleteMachine(m)
    <3>1. /\ tm[m].exists /\ ~tm[m].deleting
          /\ tm'[m] = IF tm[m].finalizer THEN [tm[m] EXCEPT !.deleting = TRUE] ELSE NoMachine
      BY <1>2, <2>4 DEF DeleteMachine
    <3>2. tm[m].finalizer =>
            /\ tm'[m].deleting /\ tm'[m].exists /\ tm'[m].finalizer
            /\ tm'[m].hardware = tm[m].hardware
      BY <1>1, <3>1 DEF MachineRec
    <3>3. ~tm[m].finalizer => ~tm'[m].exists /\ ~tm'[m].deleting /\ tm'[m] = NoMachine
      BY <3>1 DEF NoMachine
    <3> QED BY <1>1, <2>1, <3>1, <3>2, <3>3 DEF MachineAgrees
  <2> QED BY <2>1, <2>2, <2>3, <2>4
<1>4. CASE Reconcile(m)
  <2>1. tm' = tm /\ read'[m] = tm[m] /\ mem'[m] = tm[m] /\ tm[m].exists
        /\ pc'[m] = (IF tm[m].deleting THEN "getHardware" ELSE "listAssigned")
    BY <1>1, <1>2, <1>4 DEF Reconcile
  <2> QED BY <1>1, <2>1 DEF MachineAgrees
<1>5. CASE \/ ListAssigned(m) \/ ListFree(m) \/ ClaimRefused(m) \/ UserData(m)
           \/ CreateWorkflow(m) \/ MarkProvisioned(m)
  <2>1. /\ UNCHANGED <<tm, read, mem>> /\ pc[m] \in Attempt /\ pc'[m] \in Attempt
        /\ pc'[m] \notin Imaging
        /\ pc'[m] \in {"listFree", "claim"} => pc[m] \in {"listAssigned", "listFree"}
    BY <1>2, <1>5 DEF ListAssigned, ListFree, ClaimRefused, UserData, CreateWorkflow,
                      MarkProvisioned
  <2>2. pc'[m] # "listAssigned"
    BY <1>2, <1>5 DEF ListAssigned, ListFree, ClaimRefused, UserData, CreateWorkflow,
                      MarkProvisioned
  <2>3. pc'[m] \in {"listAssigned", "listFree", "claim"} => mem[m] = read[m]
    BY <1>1, <2>1, <2>2 DEF MachineAgrees
  <2>4. pc'[m] \notin Deleting /\ pc[m] # "idle"
    BY <2>1
  <2> HIDE DEF Attempt, Deleting, Imaging
  <2> QED BY <1>1, <2>1, <2>3, <2>4 DEF MachineAgrees
<1>6. CASE Claim(m)
  <2>1. /\ UNCHANGED <<tm, read>> /\ pc[m] = "claim" /\ pc'[m] = "userData"
        /\ mem'[m] = [mem[m] EXCEPT !.hardware = snap[m].name]
        /\ snap[m].name \in Hardware
    BY <1>1, <1>2, <1>6 DEF Claim, TypeOK, Holding
  <2>2. /\ mem'[m].hardware = snap[m].name /\ mem'[m].finalizer = mem[m].finalizer
        /\ mem'[m].hardware # None
    BY <1>1, <2>1, NoneAssumption DEF MachineRec
  <2>3. tm[m].exists => tm[m].hardware = read[m].hardware
    BY <1>1, <2>1 DEF MachineAgrees
  <2> QED BY <1>1, <2>1, <2>2, <2>3 DEF MachineAgrees
<1>7. CASE GetWorkflow(m)
  <2>1. /\ UNCHANGED <<tm, read>> /\ pc[m] = "getWorkflow"
        /\ pc'[m] \in {"createWorkflow", "markProvisioned", "addFinalizer"}
        /\ mem'[m] \in {mem[m], [mem[m] EXCEPT !.ready = TRUE]}
    BY <1>2, <1>7 DEF GetWorkflow
  <2>2. mem'[m].hardware = mem[m].hardware /\ mem'[m].finalizer = mem[m].finalizer
    BY <1>1, <2>1 DEF MachineRec
  <2> QED BY <1>1, <2>1, <2>2 DEF MachineAgrees
<1>8. CASE SetStatus(m)
  <2>1. /\ UNCHANGED read /\ pc[m] = "setStatus"
        /\ pc'[m] \in {"getWorkflow", "addFinalizer"}
        /\ mem'[m] \in {mem[m], [mem[m] EXCEPT !.ready = TRUE]}
        /\ tm'[m] = IF tm[m].exists THEN Patched(m, mem[m]) ELSE tm[m]
        /\ pc'[m] = "getWorkflow" => tm[m].exists /\ ~Rejected(m, mem[m])
    BY <1>2, <1>8 DEF SetStatus
  <2>2. mem'[m].hardware = mem[m].hardware /\ mem'[m].finalizer = mem[m].finalizer
    BY <1>1, <2>1 DEF MachineRec
  <2>3. CASE ~tm[m].exists
    BY <1>1, <2>1, <2>2, <2>3 DEF MachineAgrees
  <2>4. CASE tm[m].exists
    <3>1. /\ tm'[m].exists /\ tm'[m].deleting = tm[m].deleting
          /\ tm'[m].finalizer = tm[m].finalizer
          /\ tm'[m].hardware =
               (IF Rejected(m, mem[m]) THEN tm[m].hardware ELSE mem[m].hardware)
      BY <2>1, <2>4, PatchInAttempt
    <3> QED BY <1>1, <2>1, <2>2, <2>4, <3>1 DEF MachineAgrees
  <2> QED BY <2>3, <2>4
<1>9. CASE AddFinalizer(m)
  <2>1. /\ pc[m] = "addFinalizer" /\ pc'[m] = "idle"
        /\ tm'[m] = IF tm[m].exists THEN Patched(m, [mem[m] EXCEPT !.finalizer = TRUE])
                                    ELSE tm[m]
    BY <1>2, <1>9 DEF AddFinalizer
  <2>2. tm[m].exists => /\ tm'[m].exists /\ tm'[m].deleting = tm[m].deleting
                        /\ tm[m].finalizer => tm'[m].finalizer
    BY <2>1, PatchInAttempt
  <2> QED BY <1>1, <2>1, <2>2 DEF MachineAgrees
<1>10. CASE GetHardware(m) \/ RemoveDependencies(m) \/ PowerOff(m) \/ Release(m)
  <2>1. /\ UNCHANGED tm /\ pc[m] \in Deleting
        /\ pc'[m] = "idle" \/ (pc'[m] \in Deleting /\ UNCHANGED <<read, mem>>)
    BY <1>2, <1>10 DEF GetHardware, RemoveDependencies, PowerOff, Release
  <2> QED BY <1>1, <2>1 DEF MachineAgrees
<1>11. CASE RemoveFinalizer(m)
  <2>1. pc'[m] = "idle" /\ tm'[m] = NoMachine
    BY <1>2, <1>11, PatchAtEnd DEF RemoveFinalizer
  <2> QED BY <2>1 DEF MachineAgrees, NoMachine
<1>12. CASE CallFails(m) \/ Crash(m)
  <2>1. /\ UNCHANGED tm
        /\ \/ pc'[m] = "idle"
           \/ pc[m] \in Attempt /\ pc'[m] = "addFinalizer" /\ UNCHANGED <<read, mem>>
    BY <1>2, <1>12 DEF CallFails, Crash
  <2> QED BY <1>1, <2>1 DEF MachineAgrees
<1>13. CASE PatchFailsHalfway(m)
  BY <1>1, <1>13, PatchHalfway DEF MachineAgrees
<1> QED BY <1>3, <1>4, <1>5, <1>6, <1>7, <1>8, <1>9, <1>10, <1>11, <1>12, <1>13
        DEF Own, Worker

\* Every step keeps what is recorded or held owned.
LEMMA HolderStep ==
  ASSUME Timely, OwnershipInv, [Next]_vars, NEW m \in Machines
  PROVE  HolderOwns(m)'
<1> USE DEF caches, boundVars, Attempt, Provisioning, Deleting, OnHardware, Holding,
            Goto, Return
<1>1. /\ tm[m] \in MachineRec /\ read[m] \in MachineRec /\ mem[m] \in MachineRec
      /\ snap[m] \in SnapRec
      /\ MachineAgrees(m) /\ HolderOwns(m) /\ TypeOK /\ ReadMachine(m) = tm[m]
      /\ \A h \in Hardware : hw[h] \in HardwareRec
  BY DEF OwnershipInv, TypeOK, Timely, ReadMachine
<1>2. /\ tm \in [Machines -> MachineRec] /\ pc \in [Machines -> Steps]
      /\ read \in [Machines -> MachineRec] /\ mem \in [Machines -> MachineRec]
      /\ snap \in [Machines -> SnapRec]
      /\ pc[m] \in Holding => snap[m].name \in Hardware
      /\ \A x \in Names : x # None => x \in Hardware
      /\ m # None /\ None \notin Hardware
  BY <1>1, NoneAssumption DEF TypeOK, Names
<1>3. /\ tm[m].hardware \in Names /\ mem[m].hardware \in Names /\ snap[m].name \in Names
      /\ read[m].hardware \in Names
  BY <1>1 DEF MachineRec, SnapRec
\* What m owns it keeps, unless it releases it; what it does not own it may claim.
<1>4. \A h \in Hardware : hw[h].owner = m /\ ~Release(m) => hw'[h].owner = m
  BY OwnedStays
<1>5. \A h \in Hardware : hw[h].owner # m /\ ~Claim(m) => hw'[h].owner # m
  BY NotOwnedStays
<1>6. CASE ~Own(m)
  <2>1. /\ pc'[m] = pc[m] /\ read'[m] = read[m] /\ mem'[m] = mem[m] /\ snap'[m] = snap[m]
        /\ tm'[m] = tm[m] \/ CreateMachine(m) \/ DeleteMachine(m)
    BY <1>1, <1>6, OthersMemory
  <2>2. tm'[m].hardware \in {None, tm[m].hardware}
    <3>1. CASE CreateMachine(m)
      BY <1>2, <3>1 DEF CreateMachine, NoMachine
    <3>2. CASE DeleteMachine(m)
      BY <1>1, <1>2, <3>2 DEF DeleteMachine, NoMachine, MachineRec
    <3> QED BY <2>1, <3>1, <3>2
  <2>3. ~Release(m) /\ ~Claim(m)
    BY <1>6 DEF Own, Worker
  <2> QED BY <1>1, <1>2, <1>3, <1>4, <1>5, <2>1, <2>2, <2>3 DEF HolderOwns
<1>7. CASE Reconcile(m)
  <2>1. tm' = tm /\ hw' = hw /\ snap' = snap /\ mem'[m] = tm[m] /\ pc[m] = "idle"
        /\ pc'[m] \in {"getHardware", "listAssigned"}
    BY <1>1, <1>2, <1>7 DEF Reconcile
  <2> QED BY <1>1, <1>2, <1>3, <2>1 DEF HolderOwns
<1>8. CASE ListAssigned(m)
  <2>1. /\ UNCHANGED <<tm, mem, hw>> /\ pc[m] = "listAssigned"
        /\ \/ pc'[m] = "listFree" /\ UNCHANGED snap
           \/ pc'[m] = "claim" /\ hw'[snap'[m].name].owner = m
    BY <1>1, <1>2, <1>8, ListedIsOwned DEF ListAssigned, Assigned, Take
  <2> QED BY <1>1, <1>2, <2>1 DEF HolderOwns
<1>9. CASE ListFree(m)
  <2>1. /\ UNCHANGED <<tm, mem, hw>> /\ pc[m] = "listFree"
        /\ \/ pc'[m] = "addFinalizer" /\ UNCHANGED snap
           \/ pc'[m] = "claim" /\ snap'[m].copy.owner # m
    <3>1. \A h \in Best(m, Free(m)) : h \in Hardware /\ ReadHardware(h).owner = None
      BY HardwareAssumption DEF Best, Free
    <3> QED BY <1>1, <1>2, <1>9, <3>1 DEF ListFree, Take
  <2> QED BY <1>1, <1>2, <2>1 DEF HolderOwns
<1>10. CASE ClaimRefused(m) \/ CreateWorkflow(m)
  <2>1. /\ UNCHANGED <<tm, mem, hw>> /\ pc[m] \in Provisioning /\ pc'[m] = "addFinalizer"
    BY <1>2, <1>10 DEF ClaimRefused, CreateWorkflow
  <2> QED BY <1>1, <1>2, <2>1 DEF HolderOwns
<1>11. CASE GetWorkflow(m)
  <2>1. /\ UNCHANGED <<tm, hw, snap>> /\ pc[m] = "getWorkflow"
        /\ pc'[m] \in {"createWorkflow", "markProvisioned", "addFinalizer"}
        /\ mem'[m] \in {mem[m], [mem[m] EXCEPT !.ready = TRUE]}
    BY <1>2, <1>11 DEF GetWorkflow
  <2>2. mem'[m].hardware = mem[m].hardware
    BY <1>1, <2>1 DEF MachineRec
  <2> QED BY <1>1, <1>2, <2>1, <2>2 DEF HolderOwns
<1>12. CASE UserData(m) \/ MarkProvisioned(m)
  <2>1. /\ UNCHANGED <<tm, mem>> /\ pc[m] \in {"userData", "markProvisioned"}
        /\ pc'[m] \in {"setStatus", "addFinalizer"}
        /\ snap'[m].name = snap[m].name
    BY <1>1, <1>2, <1>12 DEF UserData, MarkProvisioned, PatchHardware
  <2>2. ~Release(m) /\ ~Claim(m)
    BY <2>1 DEF Release, Claim
  <2> QED BY <1>1, <1>2, <1>3, <1>4, <2>1, <2>2 DEF HolderOwns
<1>13. CASE Claim(m)
  <2>1. /\ UNCHANGED tm /\ pc[m] = "claim" /\ pc'[m] = "userData"
        /\ snap'[m].name = snap[m].name /\ snap[m].name \in Hardware
        /\ mem'[m] = [mem[m] EXCEPT !.hardware = snap[m].name]
    BY <1>2, <1>13 DEF Claim, PatchHardware
  <2>2. mem'[m].hardware = snap[m].name
    BY <1>1, <2>1 DEF MachineRec
  <2>3. hw'[snap[m].name].owner = m
    <3>1. CASE snap[m].copy.owner = m
      BY <1>1, <1>2, <1>13, <2>1, <3>1 DEF HolderOwns, Claim
    <3>2. CASE snap[m].copy.owner # m
      BY <1>1, <1>13, <2>1, <3>2
         DEF Claim, PatchHardware, SetHardware, TypeOK, SnapRec, HardwareRec
    <3> QED BY <3>1, <3>2
  <2>4. ~Release(m)
    BY <2>1 DEF Release
  <2> QED BY <1>1, <1>2, <1>3, <1>4, <2>1, <2>2, <2>3, <2>4 DEF HolderOwns
<1>14. CASE SetStatus(m)
  <2>1. /\ UNCHANGED <<hw, snap>> /\ pc[m] = "setStatus"
        /\ pc'[m] \in {"getWorkflow", "addFinalizer"}
        /\ mem'[m] \in {mem[m], [mem[m] EXCEPT !.ready = TRUE]}
        /\ tm'[m] = IF tm[m].exists THEN Patched(m, mem[m]) ELSE tm[m]
    BY <1>2, <1>14 DEF SetStatus
  <2>2. mem'[m].hardware = mem[m].hardware
    BY <1>1, <2>1 DEF MachineRec
  <2>3. tm'[m].hardware \in {tm[m].hardware, mem[m].hardware}
    BY <2>1, PatchInAttempt
  <2> QED BY <1>1, <1>2, <2>1, <2>2, <2>3 DEF HolderOwns
<1>15. CASE AddFinalizer(m)
  <2>1. /\ UNCHANGED hw /\ pc[m] = "addFinalizer" /\ pc'[m] = "idle"
        /\ snap'[m].name = None
        /\ tm'[m] = IF tm[m].exists THEN Patched(m, [mem[m] EXCEPT !.finalizer = TRUE])
                                    ELSE tm[m]
    BY <1>2, <1>15 DEF AddFinalizer, NoSnap
  <2>2. tm'[m].hardware \in {tm[m].hardware, mem[m].hardware}
    BY <2>1, PatchInAttempt
  <2> QED BY <1>1, <1>2, <2>1, <2>2 DEF HolderOwns
<1>16. CASE GetHardware(m)
  <2>1. /\ UNCHANGED <<tm, hw>> /\ pc[m] = "getHardware"
        /\ \/ pc'[m] = "idle" /\ snap'[m].name = None
           \/ /\ pc'[m] = "removeDependencies" /\ UNCHANGED mem
              /\ snap'[m].name = mem[m].hardware
    <3>1. mem[m] = tm[m] /\ pc[m] = "getHardware"
      BY <1>1, <1>16 DEF GetHardware, MachineAgrees
    <3>2. mem[m].hardware # None => hw[mem[m].hardware].owner = m
      BY <1>1, <3>1 DEF HolderOwns
    <3>3. mem[m].hardware # None => ReadHardware(mem[m].hardware).exists
      BY <1>2, <1>3, <3>2, OwnedIsFound
    <3>4. snap[m].name = None
      BY <1>1, <3>1 DEF HolderOwns
    <3> QED BY <1>2, <1>16, <3>1, <3>3, <3>4 DEF GetHardware, Take, NoSnap
  <2> QED BY <1>1, <1>2, <2>1 DEF HolderOwns
<1>17. CASE RemoveDependencies(m)
  <2>1. /\ UNCHANGED <<tm, hw, snap, mem>> /\ pc[m] = "removeDependencies"
        /\ pc'[m] = IF snap[m].name = None THEN "removeFinalizer"
                    ELSE IF snap[m].name \in BMC THEN "powerOff" ELSE "release"
    BY <1>2, <1>17 DEF RemoveDependencies
  <2>2. snap[m].name = tm[m].hardware
    BY <1>1, <2>1 DEF HolderOwns, MachineAgrees
  <2> QED BY <1>1, <1>2, <2>1, <2>2 DEF HolderOwns
<1>18. CASE PowerOff(m)
  <2>1. /\ UNCHANGED <<tm, hw>> /\ pc[m] = "powerOff"
        /\ \/ pc'[m] = "idle" /\ snap'[m].name = None
           \/ pc'[m] = "release" /\ UNCHANGED <<mem, snap>>
    BY <1>2, <1>18 DEF PowerOff, NoSnap
  <2> QED BY <1>1, <1>2, <2>1 DEF HolderOwns
<1>19. CASE Release(m)
  <2>1. UNCHANGED tm /\ pc[m] = "release"
    BY <1>19 DEF Release
  <2>2. snap[m].name = tm[m].hardware /\ snap[m].name \in Hardware
    BY <1>1, <1>2, <2>1 DEF HolderOwns, MachineAgrees
  <2>3. CASE UNCHANGED hw /\ pc'[m] = "idle" /\ snap'[m].name = None
    BY <1>1, <1>2, <2>1, <2>3 DEF HolderOwns
  <2>4. CASE /\ pc'[m] = "removeFinalizer" /\ snap'[m].name = snap[m].name
             /\ hw' = [hw EXCEPT ![snap[m].name] = Released(snap[m].copy)]
    <3>1. hw'[snap[m].name].owner = None
      BY <1>1, <2>2, <2>4 DEF TypeOK, Released, FreeHardware, SnapRec, HardwareRec
    <3> QED BY <1>2, <2>1, <2>2, <2>4, <3>1 DEF HolderOwns
  <2> QED BY <1>2, <1>19, <2>3, <2>4 DEF Release, PatchHardware, SetHardware, NoSnap
<1>20. CASE RemoveFinalizer(m)
  <2>1. pc'[m] = "idle" /\ tm'[m] = NoMachine /\ snap'[m].name = None
    BY <1>2, <1>20, PatchAtEnd DEF RemoveFinalizer, NoSnap
  <2> QED BY <2>1 DEF HolderOwns, NoMachine
<1>21. CASE CallFails(m) \/ Crash(m)
  <2>1. /\ UNCHANGED <<tm, hw>> /\ pc[m] # "removeFinalizer"
        /\ \/ pc'[m] = "idle" /\ snap'[m].name = None
           \/ /\ pc[m] \in Attempt /\ pc'[m] = "addFinalizer"
              /\ UNCHANGED <<read, mem, snap>>
    BY <1>2, <1>21 DEF CallFails, Crash, NoSnap, Timely
  <2> QED BY <1>1, <1>2, <2>1 DEF HolderOwns
<1>22. CASE PatchFailsHalfway(m)
  <2>1. /\ UNCHANGED hw /\ pc[m] = "addFinalizer" /\ pc'[m] = "idle"
        /\ snap'[m].name = None
        /\ tm'[m].hardware \in {tm[m].hardware, mem[m].hardware}
    BY <1>22, PatchHalfway DEF NoSnap
  <2> QED BY <1>1, <1>2, <2>1 DEF HolderOwns
<1> QED BY <1>6, <1>7, <1>8, <1>9, <1>10, <1>11, <1>12, <1>13, <1>14, <1>15, <1>16, <1>17,
           <1>18, <1>19, <1>20, <1>21, <1>22 DEF Own, Worker

\* A machine that is on its way out stays so where no name comes back.
LEMMA RetiredStays ==
  ASSUME Timely, HardwareCacheLags, OwnershipInv, [Next]_vars, NEW m \in Machines,
         Retired(m)
  PROVE  Retired(m)'
<1> USE DEF caches, boundVars, Goto, Return
<1>1. /\ TypeOK /\ pc \in [Machines -> Steps] /\ tm \in [Machines -> MachineRec]
      /\ MachineAgrees(m) /\ ReadMachine(m) = tm[m] /\ births'[m] > 0
  BY BornStays DEF OwnershipInv, TypeOK, Timely, ReadMachine, Retired
<1>2. ~CreateMachine(m)
  <2>1. births[m] \in Nat /\ births[m] > 0 /\ MaxBirths \in Nat /\ MaxBirths <= 1
    BY <1>1, BoundAssumption DEF Timely, Retired, TypeOK
  <2> QED BY <2>1 DEF CreateMachine
<1>3. CASE ~Own(m)
  <2>1. pc'[m] = pc[m] /\ (tm'[m] = tm[m] \/ DeleteMachine(m))
    BY <1>1, <1>2, <1>3, OthersMemory
  <2>2. ~DeleteMachine(m)
    BY DEF DeleteMachine, Retired
  <2> QED BY <1>1, <2>1, <2>2 DEF Retired
<1>4. CASE Own(m)
  <2>1. pc[m] \notin Attempt
    BY DEF Retired
  <2>2. CASE Reconcile(m)
    BY <1>1, <2>2 DEF Reconcile, Retired, Attempt, Provisioning
  <2>3. CASE RemoveFinalizer(m)
    <3>1. pc'[m] = "idle" /\ tm'[m] = NoMachine
      BY <1>1, <2>3, PatchAtEnd DEF RemoveFinalizer
    <3> QED BY <1>1, <3>1 DEF Retired, Attempt, Provisioning, NoMachine
  <2>4. CASE \/ GetHardware(m) \/ RemoveDependencies(m) \/ PowerOff(m) \/ Release(m)
             \/ CallFails(m) \/ Crash(m)
    <3>1. UNCHANGED tm /\ pc'[m] \in Deleting \cup {"idle"}
      BY <1>1, <2>1, <2>4 DEF GetHardware, RemoveDependencies, PowerOff, Release, CallFails, PatchFailsHalfway,
                              Crash, Attempt, Deleting
    <3> QED BY <1>1, <3>1 DEF Retired, Attempt, Provisioning, Deleting
  <2>5. CASE \/ ListAssigned(m) \/ ListFree(m) \/ ClaimRefused(m) \/ Claim(m) \/ UserData(m)
             \/ SetStatus(m) \/ GetWorkflow(m) \/ CreateWorkflow(m) \/ MarkProvisioned(m)
             \/ AddFinalizer(m) \/ PatchFailsHalfway(m)
    BY <2>1, <2>5 DEF ListAssigned, ListFree, ClaimRefused, Claim, UserData, SetStatus,
              GetWorkflow, CreateWorkflow, MarkProvisioned, AddFinalizer, PatchFailsHalfway,
              Attempt, Provisioning
  <2> QED BY <1>4, <2>2, <2>3, <2>4, <2>5 DEF Own, Worker
<1> QED BY <1>3, <1>4

\* Every step keeps the cache in agreement: a machine's own Hardware is given back
\* by its release alone, after which the machine looks at no list.
LEMMA CacheStep ==
  ASSUME Timely, OwnershipInv, [Next]_vars, NEW h \in Hardware
  PROVE  CacheAgrees(h)'
<1> SUFFICES ASSUME HardwareCacheLags PROVE CacheAgrees(h)'
  BY DEF CacheAgrees
<1>1. TypeOK /\ CacheAgrees(h)
  BY DEF OwnershipInv
<1>2. CASE SyncHardware
  <2>1. hwSeen'[h] = hw'[h]
    BY <1>2 DEF SyncHardware
  <2> QED BY <2>1 DEF CacheAgrees
<1>3. CASE ~SyncHardware
  <2>1. hwSeen' = hwSeen
    <3> USE DEF caches, boundVars
    <3>1. ASSUME NEW m \in Machines, Worker(m) \/ Fault(m) \/ Tinkerbell(m) \/ Environment(m)
          PROVE  UNCHANGED hwSeen
      BY <3>1 DEF Worker, Fault, Tinkerbell, Environment, Reconcile, ListAssigned, ListFree,
              ClaimRefused, Claim, UserData, SetStatus, GetWorkflow, CreateWorkflow,
              MarkProvisioned, AddFinalizer, GetHardware, RemoveDependencies, PowerOff, Release,
              RemoveFinalizer, CallFails, PatchFailsHalfway, Crash, WorkflowFails, PowerOffFails, WorkflowSucceeds,
              PowerOffCompletes, CreateMachine, DeleteMachine, CollectGarbage
    <3>2. CASE (\E g \in Hardware : DeleteHardware(g)) \/ SyncMachines \/ UNCHANGED vars
      BY <3>2 DEF DeleteHardware, SyncMachines, vars
    <3> QED BY <1>3, <3>1, <3>2 DEF Next
  <2>2. ~hwSeen'[h].exists => ~hw'[h].exists
    BY <1>1, <2>1, GoneStays DEF CacheAgrees
  <2>3. ASSUME NEW m \in Machines, hwSeen[h].owner = m
        PROVE  \/ Retired(m)'
               \/ hw'[h].owner = m /\ (hwSeen[h].provisioned => hw'[h].provisioned)
    <3>1. CASE Retired(m)
      BY <3>1, RetiredStays
    <3>2. CASE Release(m)
      <4>1. pc[m] = "release" /\ MachineAgrees(m) /\ UNCHANGED <<tm, births>>
            /\ pc'[m] \in {"removeFinalizer", "idle"}
        BY <1>1, <3>2 DEF Release, OwnershipInv, TypeOK, Goto, Return, boundVars
      <4>2. tm[m].deleting /\ births[m] > 0
        BY <4>1 DEF MachineAgrees, Deleting
      <4> QED BY <4>1, <4>2 DEF Retired, Attempt, Provisioning
    <3>3. CASE ~Retired(m) /\ ~Release(m)
      <4>1. hw[h].owner = m /\ (hwSeen[h].provisioned => hw[h].provisioned)
        BY <1>1, <2>3, <3>3 DEF CacheAgrees
      <4> QED BY <3>3, <4>1, OwnedStays
    <3> QED BY <3>1, <3>2, <3>3
  <2> QED BY <2>1, <2>2, <2>3 DEF CacheAgrees
<1> QED BY <1>2, <1>3

\* OwnershipInv holds at first and is kept by every step.
LEMMA OwnershipAtFirst == Init => OwnershipInv
BY TypeInit, CopiesInit, OneHardwareInit, OwnershipInit, CacheInit DEF OwnershipInv

LEMMA OwnershipStep ==
  ASSUME Timely, OwnershipInv, [Next]_vars
  PROVE  OwnershipInv'
<1>1. TypeOK' /\ CopiesAreCurrent' /\ OwnedExists'
  BY TypeStep, CopiesStep, OwnedExistsStep DEF OwnershipInv
<1>2. HardwareCacheLags \/ OneHardwareInv'
  BY OneHardwareStep DEF OwnershipInv
<1>3. \A m \in Machines : (MachineAgrees(m) /\ HolderOwns(m))'
  BY AgreesStep, HolderStep
<1>4. \A h \in Hardware : CacheAgrees(h)'
  BY CacheStep
<1> QED BY <1>1, <1>2, <1>3, <1>4 DEF OwnershipInv

\* What a machine has recorded, and what its worker holds, belongs to the machine
\* at every step of Reconcile, whatever fails before the last one.
THEOREM OwnershipCorrect ==
  ASSUME Timely
  PROVE  Spec => []OwnershipInv
<1>1. Init => OwnershipInv
  BY OwnershipAtFirst
<1>2. OwnershipInv /\ [Next]_vars => OwnershipInv'
  BY OwnershipStep
<1> QED BY <1>1, <1>2, PTL DEF Spec

\* A machine that has recorded a hardwareName and is not being deleted owns
\* that Hardware: nobody else claims it, or gives it back (releaseHardware).
THEOREM RecordedIsOwned ==
  ASSUME Timely
  PROVE  Spec => []RecordedHardwareIsOwned
<1>1. OwnershipInv => RecordedHardwareIsOwned
  <2> SUFFICES ASSUME OwnershipInv, NEW m \in Machines,
                      tm[m].exists, ~tm[m].deleting, tm[m].hardware # None
               PROVE  hw[tm[m].hardware].owner = m
    BY DEF RecordedHardwareIsOwned
  <2>1. MachineAgrees(m) /\ HolderOwns(m)
    BY DEF OwnershipInv
  <2>2. pc[m] # "removeFinalizer"
    BY <2>1 DEF MachineAgrees, Deleting
  <2> QED BY <2>1, <2>2 DEF HolderOwns
<1> QED BY <1>1, OwnershipCorrect, PTL

\* A machine goes from the management cluster in three ways: without finalizer
\* when it is deleted, or by the last write of its worker.
LEMMA MachineGoes ==
  ASSUME OwnershipInv, [Next]_vars, NEW m \in Machines, tm[m].exists, ~tm'[m].exists
  PROVE  \/ DeleteMachine(m) /\ ~tm[m].finalizer
         \/ RemoveFinalizer(m)
<1> USE DEF caches, boundVars
<1>1. /\ tm \in [Machines -> MachineRec] /\ tm[m] \in MachineRec
      /\ pc \in [Machines -> Steps] /\ TypeOK
  BY DEF OwnershipInv, TypeOK
<1>2. CASE ~Own(m)
  <2>1. tm'[m] = tm[m] \/ CreateMachine(m) \/ DeleteMachine(m)
    BY <1>1, <1>2, OthersMemory
  <2>2. CASE DeleteMachine(m)
    BY <1>1, <2>2 DEF DeleteMachine, MachineRec
  <2> QED BY <2>1, <2>2 DEF CreateMachine
<1>3. CASE SetStatus(m)
  <2>1. pc[m] \in Attempt /\ tm'[m] = Patched(m, mem[m])
    BY <1>1, <1>3 DEF SetStatus, Attempt, Provisioning
  <2> QED BY <2>1, PatchInAttempt
<1>4. CASE AddFinalizer(m)
  <2>1. pc[m] \in Attempt /\ tm'[m] = Patched(m, [mem[m] EXCEPT !.finalizer = TRUE])
    BY <1>1, <1>4 DEF AddFinalizer, Attempt
  <2> QED BY <2>1, PatchInAttempt
<1>5. ASSUME Own(m), ~SetStatus(m), ~AddFinalizer(m), ~RemoveFinalizer(m),
             ~PatchFailsHalfway(m)
      PROVE  UNCHANGED tm
  BY <1>5 DEF Own, Worker, Reconcile, ListAssigned, ListFree, ClaimRefused, Claim,
              UserData, GetWorkflow, CreateWorkflow, MarkProvisioned, GetHardware,
              RemoveDependencies, PowerOff, Release, CallFails, Crash
<1>6. CASE PatchFailsHalfway(m)
  BY <1>6, PatchHalfway
<1> QED BY <1>2, <1>3, <1>4, <1>5, <1>6

\* A machine that holds the finalizer and has recorded its Hardware does not
\* go before it has given the Hardware back.
THEOREM ReleasedBeforeItGoes ==
  ASSUME Timely
  PROVE  Spec => HardwareReleasedBeforeMachineGoes
<1>1. ASSUME OwnershipInv, [Next]_vars, NEW m \in Machines,
             tm[m].exists, tm[m].finalizer, ~tm'[m].exists, tm[m].hardware # None
      PROVE  hw[tm[m].hardware].owner # m
  <2>1. RemoveFinalizer(m)
    BY <1>1, MachineGoes
  <2>2. pc[m] = "removeFinalizer" /\ HolderOwns(m)
    BY <1>1, <2>1 DEF RemoveFinalizer, OwnershipInv
  <2> QED BY <1>1, <2>2 DEF HolderOwns
<1>2. OwnershipInv /\ [Next]_vars
        => [\A m \in Machines :
              tm[m].exists /\ tm[m].finalizer /\ ~tm'[m].exists /\ tm[m].hardware # None
                => hw[tm[m].hardware].owner # m]_vars
  BY <1>1
<1> QED BY <1>2, OwnershipCorrect, PTL DEF Spec, HardwareReleasedBeforeMachineGoes

\* The release takes user data and annotation off with the owner, and whoever
\* writes them owns the Hardware.
LEMMA CleanStep ==
  ASSUME OwnershipInv, FreeHardwareIsClean, [Next]_vars
  PROVE  FreeHardwareIsClean'
<1> SUFFICES ASSUME NEW h \in Hardware, hw'[h].owner = None, hw'[h] # hw[h]
             PROVE  hw'[h].userData = None /\ ~hw'[h].provisioned
  BY DEF FreeHardwareIsClean
<1>1. hw[h] \in HardwareRec
  BY DEF OwnershipInv, TypeOK
<1>2. hw[h].owner = None => hw[h].userData = None /\ ~hw[h].provisioned
  BY DEF FreeHardwareIsClean
<1>3. ASSUME NEW m \in Machines, snap[m].name = h, UserData(m) \/ MarkProvisioned(m)
      PROVE  hw[h].owner = m
  <2>1. pc[m] \in {"userData", "markProvisioned"} /\ HolderOwns(m)
    BY <1>3 DEF UserData, MarkProvisioned, OwnershipInv
  <2> QED BY <1>3, <2>1, NoneAssumption DEF HolderOwns, Attempt, Provisioning, OnHardware,
                                            Holding
<1>4. ASSUME NEW m \in Machines, hw'[h] = Released(hw[h])
      PROVE  hw'[h].userData = None /\ ~hw'[h].provisioned
  BY <1>1, <1>4 DEF Released, FreeHardware, HardwareRec
<1>5. CASE hw'[h] = IF hw[h].owner = None THEN [FreeHardware EXCEPT !.exists = FALSE]
                                          ELSE [hw[h] EXCEPT !.deleting = TRUE]
  BY <1>1, <1>2, <1>5 DEF FreeHardware, HardwareRec
<1>6. ASSUME NEW m \in Machines, hw'[h] = [hw[h] EXCEPT !.owner = m] PROVE FALSE
  BY <1>1, <1>6, NoneAssumption DEF HardwareRec
<1>7. ASSUME NEW m \in Machines, hw[h].owner = m,
             \/ hw'[h] = [hw[h] EXCEPT !.userData = m]
             \/ hw'[h] = [hw[h] EXCEPT !.provisioned = TRUE]
      PROVE  FALSE
  BY <1>1, <1>7, NoneAssumption DEF HardwareRec
<1> QED BY <1>3, <1>4, <1>5, <1>6, <1>7, HardwareStep DEF OwnershipInv

\* Hardware that is free to claim carries neither a former machine's user data
\* nor its provisioned annotation: the unlocked writes of ensureHardwareUserData
\* and patchHardwareAnnotations reach only Hardware the machine owns.
THEOREM FreeIsClean ==
  ASSUME Timely
  PROVE  Spec => []FreeHardwareIsClean
<1>1. Init => FreeHardwareIsClean
  BY DEF Init, FreeHardwareIsClean, FreeHardware
<1>2. OwnershipInv /\ FreeHardwareIsClean /\ [Next]_vars => FreeHardwareIsClean'
  BY CleanStep
<1> QED BY <1>1, <1>2, OwnershipCorrect, PTL DEF Spec

-------------------------------------------------------------------------------
(***************************************************************************)
(* The lease: the refinement mapping of MachineLifecycle, named.  With a   *)
(* cache of Hardware that lags a machine may take a second Hardware, which *)
(* the lease does not allow.                                               *)
(***************************************************************************)

LeaseHolder == [h \in Hardware |-> hw[h].owner]
Registered == [m \in Machines |-> IF tm[m].finalizer THEN tm[m].hardware ELSE None]
Leaving == {m \in Machines : tm[m].deleting}

\* What a machine has recorded is what its worker, if it has any, has in memory.
LEMMA RecordedIsHeld ==
  ASSUME ~HardwareCacheLags, OwnershipInv, NEW m \in Machines, pc[m] \in Attempt,
         tm[m].exists, tm[m].hardware # None
  PROVE  tm[m].hardware = mem[m].hardware
<1>1. /\ MachineAgrees(m) /\ HolderOwns(m) /\ pc[m] # "removeFinalizer"
      /\ tm[m] \in MachineRec /\ mem[m] \in MachineRec
  BY DEF OwnershipInv, TypeOK, Attempt, Provisioning
<1>2. mem[m].hardware # None
  BY <1>1 DEF MachineAgrees
<1>3. hw[tm[m].hardware].owner = m /\ hw[mem[m].hardware].owner = m
  BY <1>1, <1>2 DEF HolderOwns
<1> QED BY <1>1, <1>2, <1>3, NoneAssumption
        DEF OwnershipInv, OneHardwareInv, OneHardwarePerMachine, MachineRec, Names

\* Two writes persist hardwareName.  Either leaves what was registered, or
\* registers the Hardware the machine owns.
LEMMA RegisterStep ==
  ASSUME ~HardwareCacheLags, OwnershipInv, NEW m \in Machines, pc[m] \in Attempt,
         tm[m].exists, tm'[m].deleting = tm[m].deleting,
         tm[m].finalizer => tm'[m].finalizer,
         \/ tm'[m].hardware = mem[m].hardware
         \/ tm'[m].hardware = tm[m].hardware /\ tm'[m].finalizer = tm[m].finalizer,
         \A x \in Machines : x # m => tm'[x] = tm[x], UNCHANGED hw
  PROVE  [Lease!LeaseNext]_(Lease!leaseVars)
<1>1. /\ tm \in [Machines -> MachineRec] /\ tm[m] \in MachineRec /\ mem[m] \in MachineRec
      /\ read[m] \in MachineRec
      /\ MachineAgrees(m) /\ HolderOwns(m) /\ pc[m] # "removeFinalizer"
  BY DEF OwnershipInv, TypeOK, Attempt, Provisioning
<1>2. /\ tm'[m].deleting = tm[m].deleting
      /\ tm[m].finalizer => tm'[m].finalizer
      /\ Registered'[m] # Registered[m] => tm'[m].hardware = mem[m].hardware
      /\ \A x \in Machines : x # m => tm'[x] = tm[x]
  BY DEF Registered
<1>3. tm[m].hardware # None => tm[m].hardware = mem[m].hardware
  BY RecordedIsHeld
<1>4. Leaving' = Leaving /\ LeaseHolder' = LeaseHolder
  BY <1>1, <1>2 DEF Leaving, LeaseHolder
<1>5. CASE Registered'[m] = Registered[m]
  <2>1. Registered' = Registered
    BY <1>2, <1>5 DEF Registered
  <2> QED BY <1>4, <2>1 DEF Lease!leaseVars, Leaving, LeaseHolder, Registered
<1>6. CASE Registered'[m] # Registered[m]
  <2>1. PICK h \in Hardware : h = mem[m].hardware /\ Registered[m] = None
                             /\ Registered'[m] = h
    BY <1>1, <1>2, <1>3, <1>6 DEF Registered, MachineRec, Names
  <2>2. Registered' = [Registered EXCEPT ![m] = h]
    BY <1>1, <1>2, <2>1 DEF Registered
  <2>3. LeaseHolder[h] = m
    BY <1>1, <2>1, NoneAssumption DEF HolderOwns, LeaseHolder
  <2>4. Lease!Register(m, h)
    BY <1>4, <2>1, <2>2, <2>3 DEF Lease!Register, Leaving, LeaseHolder, Registered
  <2> QED BY <2>1, <2>4 DEF Lease!LeaseNext
<1> QED BY <1>5, <1>6

\* Every step of the controller is a step of the lease or changes none of it.
LEMMA LeaseStep ==
  ASSUME ~HardwareCacheLags, OwnershipInv, [Next]_vars
  PROVE  [Lease!LeaseNext]_(Lease!leaseVars)
<1> USE DEF caches, boundVars
<1>1. /\ tm \in [Machines -> MachineRec] /\ hw \in [Hardware -> HardwareRec]
      /\ pc \in [Machines -> Steps]
      /\ TypeOK /\ CopiesAreCurrent /\ OneHardwareInv
  BY DEF OwnershipInv, TypeOK
<1>2. ASSUME UNCHANGED <<tm, LeaseHolder>> PROVE UNCHANGED Lease!leaseVars
  BY <1>2 DEF Lease!leaseVars, LeaseHolder
<1>3. ASSUME NEW m \in Machines, Claim(m) PROVE [Lease!LeaseNext]_(Lease!leaseVars)
  <2>0. PICK h \in Hardware : h = snap[m].name
    BY <1>1, <1>3 DEF Claim, TypeOK, Holding
  <2>1. CASE UNCHANGED hw
    BY <1>2, <1>3, <2>1 DEF Claim, LeaseHolder
  <2>2. CASE /\ snap[m].copy.owner = None /\ m \in fresh
             /\ hw' = [hw EXCEPT ![h] = [snap[m].copy EXCEPT !.owner = m]]
    <3>1. pc[m] = "claim" /\ UNCHANGED tm
      BY <1>3 DEF Claim
    <3>2. snap[m].copy = hw[h] /\ OwnsNothing(m)
      BY <1>1, <2>0, <2>2, <3>1, NoneAssumption DEF CopiesAreCurrent, OneHardwareInv
    <3>3. LeaseHolder' = [LeaseHolder EXCEPT ![h] = m]
      BY <1>1, <2>2, <3>1, <3>2 DEF LeaseHolder, HardwareRec
    <3>4. LeaseHolder[h] = None /\ \A g \in Hardware : LeaseHolder[g] # m
      BY <2>2, <3>1, <3>2 DEF LeaseHolder, OwnsNothing
    <3>5. Lease!Acquire(m, h)
      BY <3>1, <3>3, <3>4 DEF Lease!Acquire, LeaseHolder
    <3> QED BY <3>1, <3>5 DEF Lease!LeaseNext
  <2> QED BY <1>3, <2>0, <2>1, <2>2 DEF Claim, PatchHardware, SetHardware
<1>4. ASSUME NEW m \in Machines, Release(m) PROVE [Lease!LeaseNext]_(Lease!leaseVars)
  <2>0. PICK h \in Hardware : h = snap[m].name
    BY <1>1, <1>4 DEF Release, TypeOK, Holding
  <2>1. CASE UNCHANGED hw
    BY <1>2, <1>4, <2>1 DEF Release, LeaseHolder
  <2>2. CASE hw' = [hw EXCEPT ![h] = Released(snap[m].copy)]
    <3>1. pc[m] = "release" /\ UNCHANGED tm
          /\ MachineAgrees(m) /\ HolderOwns(m) /\ tm[m] \in MachineRec
      BY <1>1, <1>4 DEF Release, OwnershipInv
    <3>2. tm[m].deleting /\ tm[m].finalizer /\ tm[m].hardware = h
      BY <2>0, <3>1 DEF MachineAgrees, HolderOwns, Deleting, OnHardware, Holding
    <3>3. hw[h].owner = m
      BY <3>1, <3>2, NoneAssumption DEF HolderOwns
    <3>4. Released(snap[m].copy).owner = None
      BY <1>1 DEF Released, FreeHardware, TypeOK, SnapRec, HardwareRec
    <3>5. LeaseHolder' = [LeaseHolder EXCEPT ![h] = None]
      BY <1>1, <2>2, <3>1, <3>4 DEF LeaseHolder
    <3>6. Lease!GiveBack(m, h)
      BY <3>1, <3>2, <3>3, <3>5 DEF Lease!GiveBack, LeaseHolder
    <3> QED BY <3>1, <3>6 DEF Lease!LeaseNext
  <2> QED BY <1>4, <2>0, <2>1, <2>2 DEF Release, PatchHardware, SetHardware
<1>5. ASSUME NEW m \in Machines, UserData(m) \/ MarkProvisioned(m)
      PROVE  [Lease!LeaseNext]_(Lease!leaseVars)
  <2>1. UNCHANGED tm
    BY <1>5 DEF UserData, MarkProvisioned
  <2>2. \A h \in Hardware : hw'[h].owner = hw[h].owner
    <3>1. CASE UNCHANGED hw
      BY <3>1
    <3>2. CASE hw' = [hw EXCEPT ![snap[m].name] = [hw[snap[m].name] EXCEPT !.userData = m]]
      BY <1>1, <3>2 DEF HardwareRec
    <3>3. CASE hw' = [hw EXCEPT ![snap[m].name] = [hw[snap[m].name] EXCEPT !.provisioned = TRUE]]
      BY <1>1, <3>3 DEF HardwareRec
    <3> QED BY <1>5, <3>1, <3>2, <3>3 DEF UserData, MarkProvisioned, PatchHardware, SetHardware
  <2> QED BY <1>2, <2>1, <2>2 DEF LeaseHolder
<1>6. ASSUME NEW g \in Hardware, DeleteHardware(g)
      PROVE  [Lease!LeaseNext]_(Lease!leaseVars)
  <2>1. UNCHANGED tm
    BY <1>6 DEF DeleteHardware
  <2>2. \A h \in Hardware : hw'[h].owner = hw[h].owner
    BY <1>1, <1>6 DEF DeleteHardware, SetHardware, FreeHardware, HardwareRec
  <2> QED BY <1>2, <2>1, <2>2 DEF LeaseHolder
<1>7. ASSUME NEW m \in Machines, SetStatus(m) \/ AddFinalizer(m)
      PROVE  [Lease!LeaseNext]_(Lease!leaseVars)
  <2>1. pc[m] \in Attempt /\ UNCHANGED hw
    BY <1>7 DEF SetStatus, AddFinalizer, Attempt, Provisioning
  <2>2. CASE UNCHANGED tm
    BY <1>2, <2>1, <2>2 DEF LeaseHolder
  <2>3. CASE tm[m].exists
    <3>1. PICK now \in {mem[m], [mem[m] EXCEPT !.finalizer = TRUE]} :
               tm' = [tm EXCEPT ![m] = Patched(m, now)]
      BY <1>7, <2>3 DEF SetStatus, AddFinalizer
    <3>2. /\ tm'[m] = Patched(m, now)
          /\ \A x \in Machines : x # m => tm'[x] = tm[x]
      BY <1>1, <3>1
    <3>3. /\ Patched(m, now).deleting = tm[m].deleting
          /\ tm[m].finalizer => Patched(m, now).finalizer
          /\ Patched(m, now).hardware = mem[m].hardware
      BY <2>1, <2>3, <3>1, PatchInAttempt
    <3> QED BY <2>1, <2>3, <3>2, <3>3, RegisterStep
  <2> QED BY <1>7, <2>2, <2>3 DEF SetStatus, AddFinalizer
<1>13. ASSUME NEW m \in Machines, PatchFailsHalfway(m)
       PROVE  [Lease!LeaseNext]_(Lease!leaseVars)
  <2>1. pc[m] \in Attempt /\ tm[m].exists /\ UNCHANGED hw
    BY <1>13, PatchHalfway DEF Attempt
  <2> QED BY <1>13, <2>1, PatchHalfway, RegisterStep
<1>8. ASSUME NEW m \in Machines, RemoveFinalizer(m)
      PROVE  [Lease!LeaseNext]_(Lease!leaseVars)
  <2>1. /\ pc[m] = "removeFinalizer" /\ MachineAgrees(m) /\ HolderOwns(m)
        /\ tm[m] \in MachineRec
        /\ UNCHANGED hw /\ tm' = [tm EXCEPT ![m] = NoMachine]
    BY <1>1, <1>8, PatchAtEnd DEF RemoveFinalizer, OwnershipInv
  <2>2. tm[m].deleting /\ tm[m].finalizer
    BY <2>1 DEF MachineAgrees, Deleting
  <2>3. Registered' = [Registered EXCEPT ![m] = None]
    BY <1>1, <2>1 DEF Registered, NoMachine
  <2>4. Leaving' = Leaving \ {m}
    BY <1>1, <2>1 DEF Leaving, NoMachine
  <2>5. m \in Leaving /\ (Registered[m] # None => LeaseHolder[Registered[m]] # m)
    BY <2>1, <2>2 DEF Leaving, Registered, LeaseHolder, HolderOwns, MachineRec, Names
  <2>6. Lease!Leave(m)
    BY <2>1, <2>3, <2>4, <2>5 DEF Lease!Leave, Leaving, Registered, LeaseHolder
  <2> QED BY <2>6 DEF Lease!LeaseNext
<1>9. ASSUME NEW m \in Machines, DeleteMachine(m) \/ CreateMachine(m)
      PROVE  [Lease!LeaseNext]_(Lease!leaseVars)
  <2>1. UNCHANGED hw /\ LeaseHolder' = LeaseHolder
        /\ MachineAgrees(m) /\ tm[m] \in MachineRec
    BY <1>1, <1>9 DEF DeleteMachine, CreateMachine, LeaseHolder, OwnershipInv
  <2>2. CASE DeleteMachine(m) /\ tm[m].finalizer
    <3>1. tm' = [tm EXCEPT ![m] = [tm[m] EXCEPT !.deleting = TRUE]] /\ ~tm[m].deleting
      BY <2>2 DEF DeleteMachine
    <3>2. m \notin Leaving /\ Leaving' = Leaving \cup {m}
      BY <1>1, <2>1, <3>1 DEF Leaving, MachineRec
    <3>3. Registered' = Registered
      BY <1>1, <2>1, <3>1 DEF Registered, MachineRec
    <3>4. Lease!StartLeaving(m)
      BY <2>1, <3>2, <3>3 DEF Lease!StartLeaving, Leaving, Registered, LeaseHolder
    <3> QED BY <3>4 DEF Lease!LeaseNext
  <2>3. CASE ~(DeleteMachine(m) /\ tm[m].finalizer)
    <3>1. /\ ~tm[m].finalizer /\ ~tm[m].deleting
          /\ ~tm'[m].finalizer /\ ~tm'[m].deleting
          /\ \A x \in Machines : x # m => tm'[x] = tm[x]
      BY <1>1, <1>9, <2>1, <2>3 DEF DeleteMachine, CreateMachine, MachineAgrees, NoMachine
    <3>2. Registered' = Registered /\ Leaving' = Leaving
      BY <3>1 DEF Registered, Leaving
    <3> QED BY <2>1, <3>2 DEF Lease!leaseVars, Leaving, Registered, LeaseHolder
  <2> QED BY <2>2, <2>3
<1>10. ASSUME NEW m \in Machines,
              \/ Reconcile(m) \/ ListAssigned(m) \/ ListFree(m) \/ ClaimRefused(m)
              \/ GetWorkflow(m) \/ CreateWorkflow(m) \/ GetHardware(m)
              \/ RemoveDependencies(m) \/ PowerOff(m) \/ CallFails(m) \/ Crash(m)
              \/ WorkflowFails(m) \/ PowerOffFails(m) \/ Tinkerbell(m)
              \/ CollectGarbage(m)
       PROVE  UNCHANGED <<tm, hw>>
  BY <1>10 DEF Reconcile, ListAssigned, ListFree, ClaimRefused, GetWorkflow,
              CreateWorkflow, GetHardware, RemoveDependencies, PowerOff, CallFails,
              Crash, WorkflowFails, PowerOffFails, Tinkerbell, WorkflowSucceeds,
              PowerOffCompletes, CollectGarbage
<1>11. CASE SyncMachines \/ SyncHardware \/ UNCHANGED vars
  BY <1>2, <1>11 DEF SyncMachines, SyncHardware, vars, LeaseHolder
<1>12. ASSUME UNCHANGED <<tm, hw>> PROVE UNCHANGED Lease!leaseVars
  BY <1>2, <1>12 DEF LeaseHolder
<1> QED
  BY <1>3, <1>4, <1>5, <1>6, <1>7, <1>8, <1>9, <1>10, <1>11, <1>12, <1>13
  DEF Next, Worker, Fault, Environment

\* The controller implements the lease on Hardware.
THEOREM LeaseImplemented ==
  ASSUME Timely, ~HardwareCacheLags
  PROVE  Spec => ImplementsLease
<1>1. Init => Lease!LeaseInit
  BY DEF Init, Lease!LeaseInit, NoMachine, FreeHardware
<1>2. OwnershipInv /\ [Next]_vars => [Lease!LeaseNext]_(Lease!leaseVars)
  BY LeaseStep
<1> QED BY <1>1, <1>2, OwnershipCorrect, PTL DEF Spec, ImplementsLease, Lease!LeaseSpec

-------------------------------------------------------------------------------
(* Whose image Hardware carries, and what Workflows and workers know of it. *)

\* What the users do to a machine, and what its worker's writes leave of it.
LEMMA MachineStep ==
  ASSUME OwnershipInv, [Next]_vars, NEW m \in Machines, tm'[m] # tm[m]
  PROVE  \/ CreateMachine(m)
         \/ DeleteMachine(m)
         \/ /\ tm[m].exists /\ pc[m] \in Attempt
            /\ \E now \in {mem[m], [mem[m] EXCEPT !.finalizer = TRUE]} :
                 tm'[m] = Patched(m, now)
         \/ PatchFailsHalfway(m)
         \/ tm[m].exists /\ RemoveFinalizer(m) /\ tm'[m] = NoMachine
<1> USE DEF caches, boundVars
<1>1. tm \in [Machines -> MachineRec] /\ TypeOK
  BY DEF OwnershipInv, TypeOK
<1>2. CASE ~Own(m)
  BY <1>1, <1>2, OthersMemory
<1>3. CASE SetStatus(m) \/ AddFinalizer(m)
  BY <1>1, <1>3 DEF SetStatus, AddFinalizer, Attempt, Provisioning
<1>4. CASE RemoveFinalizer(m)
  BY <1>1, <1>4, PatchAtEnd DEF RemoveFinalizer
<1>5. ASSUME Own(m), ~SetStatus(m), ~AddFinalizer(m), ~RemoveFinalizer(m),
             ~PatchFailsHalfway(m)
      PROVE  UNCHANGED tm
  BY <1>5 DEF Own, Worker, Reconcile, ListAssigned, ListFree, ClaimRefused, Claim,
              UserData, GetWorkflow, CreateWorkflow, MarkProvisioned, GetHardware,
              RemoveDependencies, PowerOff, Release, CallFails, Crash
<1> QED BY <1>2, <1>3, <1>4, <1>5

\* A recorded hardwareName stays, and so does a deletion timestamp.
LEMMA RecordedStays ==
  ASSUME OwnershipInv, [Next]_vars, NEW m \in Machines, tm[m].exists, tm'[m].exists
  PROVE  /\ tm[m].hardware # None => tm'[m].hardware = tm[m].hardware
         /\ tm[m].deleting => tm'[m].deleting
<1>1. tm[m] \in MachineRec /\ tm \in [Machines -> MachineRec]
  BY DEF OwnershipInv, TypeOK
<1>2. CASE DeleteMachine(m)
  <2>1. tm'[m] = [tm[m] EXCEPT !.deleting = TRUE]
    BY <1>1, <1>2 DEF DeleteMachine, NoMachine
  <2> QED BY <1>1, <2>1 DEF MachineRec
<1>3. ASSUME pc[m] \in Attempt, NEW now \in {mem[m], [mem[m] EXCEPT !.finalizer = TRUE]},
             tm'[m] = Patched(m, now)
      PROVE  /\ tm[m].hardware # None => tm'[m].hardware = tm[m].hardware
             /\ tm'[m].deleting = tm[m].deleting
  <2>1. /\ tm[m].hardware # None => Patched(m, now).hardware = tm[m].hardware
        /\ Patched(m, now).deleting = tm[m].deleting
    BY <1>3, PatchInAttempt
  <2> QED BY <1>3, <2>1
<1> QED BY <1>2, <1>3, MachineStep, PatchHalfway DEF CreateMachine, NoMachine

\* Owned Hardware that is marked provisioned carries its owner's image.
ImageOfOwner(h) ==
  hw[h].owner # None /\ hw[h].provisioned => box[h].image = hw[h].owner

\* A Workflow's target belongs to its machine; what it has written carries the
\* machine's image, what it has not written is not marked.
WorkflowAgrees(m) ==
  /\ wf[m].state # "none" => wf[m].target \in Hardware /\ hw[wf[m].target].owner = m
  /\ wf[m].state \in {"pending", "failed"} =>
       HardwareCacheLags \/ ~hw[wf[m].target].provisioned
  /\ wf[m].state = "done" => box[wf[m].target].image = m

\* The worker's copy shows the annotation of its Hardware, if it is not behind,
\* and shows none that is not there; without Workflow the deletion goes on.
WorkerAgrees(m) ==
  /\ pc[m] \in {"powerOff", "release", "removeFinalizer", "createWorkflow"}
       => wf[m].state = "none"
  /\ pc[m] \in {"userData", "setStatus"} \/ (pc[m] = "claim" /\ snap[m].copy.owner = m) =>
       /\ snap[m].copy.provisioned => hw[snap[m].name].provisioned
       /\ HardwareCacheLags \/ (hw[snap[m].name].provisioned => snap[m].copy.provisioned)
  /\ pc[m] \in Imaging => HardwareCacheLags \/ ~hw[snap[m].name].provisioned
  /\ pc[m] = "markProvisioned" =>
       box[snap[m].name].image = m /\ wf[m].state \in {"none", "done"}

\* The machine is there and its deletion has not begun to work.
Active(m) == tm[m].exists /\ (tm[m].deleting => pc[m] \in Attempt)

\* With a cache of Hardware that is behind, a worker may hold a copy without the
\* annotation that Hardware has.  Then the machine's Workflow, which is looked at
\* next, is the one that is done on that Hardware, and no second one is created:
\* until its deletion works a machine has one Workflow, on the Hardware it
\* recorded, and without it nothing is marked.
LocalAgrees(m) ==
  /\ births[m] = 0 => wf[m].state = "none" /\ \A h \in Hardware : hw[h].owner # m
  /\ tm[m].exists /\ wf[m].state # "none" =>
       tm[m].hardware # None /\ wf[m].target = tm[m].hardware
  /\ pc[m] \in Imaging /\ wf[m].state # "none" => wf[m].target = snap[m].name
  /\ Active(m) =>
       \A h \in Hardware : hw[h].owner = m /\ hw[h].provisioned
                             => wf[m] = [state |-> "done", target |-> h]
  /\ tm[m].exists /\ pc[m] = "markProvisioned" => wf[m].state = "done"

\* The inductive invariant for images.
ImageInv ==
  /\ OwnershipInv /\ FreeHardwareIsClean
  /\ HardwareCacheLags \/ \A h \in Hardware : ImageOfOwner(h)
  /\ HardwareCacheLags => \A m \in Machines : LocalAgrees(m)
  /\ \A m \in Machines : WorkflowAgrees(m) /\ WorkerAgrees(m)

\* What a machine owns no other machine marks or gives back.
LEMMA ProvisionedStays ==
  ASSUME OwnershipInv, [Next]_vars, NEW m \in Machines, NEW h \in Hardware,
         hw[h].owner = m, ~Release(m), ~MarkProvisioned(m)
  PROVE  hw'[h].provisioned = hw[h].provisioned
<1>1. hw[h] \in HardwareRec /\ m # None
  BY NoneAssumption DEF OwnershipInv, TypeOK
<1>2. ASSUME NEW x \in Machines, snap[x].name = h, Release(x) \/ MarkProvisioned(x)
      PROVE  FALSE
  <2>1. pc[x] \in {"release", "markProvisioned"} /\ MachineAgrees(x) /\ HolderOwns(x)
    BY <1>2 DEF Release, MarkProvisioned, OwnershipInv
  <2>2. snap[x].name = mem[x].hardware /\ (pc[x] = "release" => mem[x] = tm[x])
    BY <2>1 DEF MachineAgrees, HolderOwns, Deleting, OnHardware, Holding
  <2>3. hw[h].owner = x
    BY <1>2, <2>1, <2>2, NoneAssumption DEF HolderOwns, Attempt, Provisioning
  <2> QED BY <1>2, <2>3
<1>3. CASE hw'[h] # hw[h]
  BY <1>1, <1>2, <1>3, HardwareStep DEF OwnershipInv, HardwareRec
<1> QED BY <1>3

\* Only a Workflow changes an image, that of its target.
LEMMA ImageStep ==
  ASSUME TypeOK, [Next]_vars, NEW h \in Hardware, box'[h].image # box[h].image
  PROVE  \E m \in Machines :
           /\ wf[m].state = "pending" /\ wf[m].target = h
           /\ \/ WorkflowSucceeds(m) /\ box'[h].image = m
              \/ WorkflowFails(m) /\ box'[h].image = None
           /\ UNCHANGED hw
<1> USE DEF caches, boundVars
<1>1. box \in [Hardware -> BoxRec]
  BY DEF TypeOK
<1>2. ASSUME NEW m \in Machines, WorkflowSucceeds(m)
      PROVE  /\ wf[m].state = "pending" /\ wf[m].target = h
             /\ box'[h].image = m /\ UNCHANGED hw
  BY <1>1, <1>2 DEF WorkflowSucceeds
<1>3. ASSUME NEW m \in Machines, WorkflowFails(m)
      PROVE  /\ wf[m].state = "pending" /\ wf[m].target = h
             /\ box'[h].image = None /\ UNCHANGED hw
  BY <1>1, <1>3 DEF WorkflowFails
<1>4. ASSUME NEW m \in Machines, PowerOffCompletes(m) PROVE FALSE
  <2>1. box' = [box EXCEPT ![job[m].target] = [box[job[m].target] EXCEPT !.on = FALSE]]
    BY <1>4 DEF PowerOffCompletes
  <2> QED BY <1>1, <2>1 DEF BoxRec
<1>5. ASSUME NEW m \in Machines,
             \/ Worker(m) \/ CallFails(m) \/ PatchFailsHalfway(m) \/ Crash(m)
             \/ PowerOffFails(m) \/ Environment(m)
      PROVE  FALSE
  BY <1>5 DEF Worker, Reconcile, ListAssigned, ListFree, ClaimRefused, Claim, UserData,
              SetStatus, GetWorkflow, CreateWorkflow, MarkProvisioned, AddFinalizer,
              GetHardware, RemoveDependencies, PowerOff, Release, RemoveFinalizer, CallFails, PatchFailsHalfway,
              Crash, PowerOffFails, Environment, CreateMachine, DeleteMachine, CollectGarbage
<1>6. CASE (\E g \in Hardware : DeleteHardware(g)) \/ SyncMachines \/ SyncHardware
           \/ UNCHANGED vars
  BY <1>6 DEF DeleteHardware, SyncMachines, SyncHardware, vars
<1> QED BY <1>2, <1>3, <1>4, <1>5, <1>6 DEF Next, Fault, Tinkerbell

\* The life of a Workflow.
LEMMA WorkflowStep ==
  ASSUME TypeOK, [Next]_vars, NEW m \in Machines, wf'[m] # wf[m]
  PROVE  \/ /\ CreateWorkflow(m)
            /\ wf'[m] = [state |-> "pending", target |-> snap[m].name]
         \/ /\ RemoveDependencies(m) \/ CollectGarbage(m)
            /\ wf'[m] = NoTask
         \/ /\ wf[m].state = "pending" /\ WorkflowSucceeds(m)
            /\ wf'[m] = [wf[m] EXCEPT !.state = "done"]
         \/ /\ wf[m].state = "pending" /\ WorkflowFails(m)
            /\ wf'[m] = [wf[m] EXCEPT !.state = "failed"]
<1> USE DEF caches, boundVars
<1>1. wf \in [Machines -> TaskRec]
  BY DEF TypeOK
<1>2. ASSUME NEW x \in Machines, CreateWorkflow(x)
      PROVE  x = m /\ wf'[m] = [state |-> "pending", target |-> snap[m].name]
  BY <1>1, <1>2 DEF CreateWorkflow
<1>3. ASSUME NEW x \in Machines, RemoveDependencies(x) \/ CollectGarbage(x)
      PROVE  x = m /\ wf'[m] = NoTask
  BY <1>1, <1>3 DEF RemoveDependencies, CollectGarbage
<1>4. ASSUME NEW x \in Machines, WorkflowSucceeds(x)
      PROVE  x = m /\ wf[m].state = "pending" /\ wf'[m] = [wf[m] EXCEPT !.state = "done"]
  BY <1>1, <1>4 DEF WorkflowSucceeds
<1>5. ASSUME NEW x \in Machines, WorkflowFails(x)
      PROVE  x = m /\ wf[m].state = "pending" /\ wf'[m] = [wf[m] EXCEPT !.state = "failed"]
  BY <1>1, <1>5 DEF WorkflowFails
<1>6. ASSUME NEW x \in Machines,
             \/ Reconcile(x) \/ ListAssigned(x) \/ ListFree(x) \/ ClaimRefused(x)
             \/ Claim(x) \/ UserData(x) \/ SetStatus(x) \/ GetWorkflow(x)
             \/ MarkProvisioned(x) \/ AddFinalizer(x) \/ GetHardware(x) \/ PowerOff(x)
             \/ Release(x) \/ RemoveFinalizer(x) \/ CallFails(x) \/ PatchFailsHalfway(x) \/ Crash(x)
             \/ PowerOffFails(x) \/ PowerOffCompletes(x) \/ CreateMachine(x)
             \/ DeleteMachine(x)
      PROVE  FALSE
  BY <1>6 DEF Reconcile, ListAssigned, ListFree, ClaimRefused, Claim, UserData,
              SetStatus, GetWorkflow, MarkProvisioned, AddFinalizer, GetHardware, PowerOff,
              Release, RemoveFinalizer, CallFails, PatchFailsHalfway, Crash, PowerOffFails, PowerOffCompletes,
              CreateMachine, DeleteMachine
<1>7. CASE (\E g \in Hardware : DeleteHardware(g)) \/ SyncMachines \/ SyncHardware
           \/ UNCHANGED vars
  BY <1>7 DEF DeleteHardware, SyncMachines, SyncHardware, vars
<1> QED BY <1>2, <1>3, <1>4, <1>5, <1>6, <1>7
        DEF Next, Worker, Fault, Tinkerbell, Environment

\* At first no Hardware is owned and there are no Workflows.
LEMMA ImageAtFirst == Init => ImageInv
<1> SUFFICES ASSUME Init PROVE ImageInv
  OBVIOUS
<1>1. OwnershipInv /\ FreeHardwareIsClean
  BY OwnershipAtFirst DEF Init, FreeHardwareIsClean, FreeHardware
<1>2. \A h \in Hardware : hw[h].owner = None
  BY DEF Init, FreeHardware
<1>3. \A m \in Machines : wf[m].state = "none" /\ pc[m] = "idle" /\ ~tm[m].exists
  BY DEF Init, NoTask, NoMachine
<1>4. \A h \in Hardware : ImageOfOwner(h)
  BY <1>2 DEF ImageOfOwner
<1>5. \A m \in Machines : WorkflowAgrees(m) /\ WorkerAgrees(m)
  BY <1>3 DEF WorkflowAgrees, WorkerAgrees, Imaging
<1>6. \A m \in Machines : LocalAgrees(m)
  BY <1>2, <1>3, NoneAssumption DEF LocalAgrees, Active
<1> QED BY <1>1, <1>4, <1>5, <1>6 DEF ImageInv

\* At the steps that image Hardware and mark it, the machine owns it.
LEMMA WorkerOwns ==
  ASSUME OwnershipInv, NEW m \in Machines,
         \/ pc[m] \in Imaging \cup {"userData", "setStatus"}
         \/ pc[m] = "claim" /\ snap[m].copy.owner = m
  PROVE  snap[m].name \in Hardware /\ hw[snap[m].name].owner = m
<1>1. HolderOwns(m) /\ snap[m].name \in Hardware
  BY DEF OwnershipInv, TypeOK, Imaging, Holding
<1> QED BY <1>1, NoneAssumption DEF HolderOwns, Imaging, OnHardware, Holding, Attempt,
                                    Provisioning

\* The Workflow a worker finds at those steps runs on the Hardware it holds.
LEMMA TargetIsHeld ==
  ASSUME ImageInv, NEW m \in Machines, pc[m] \in Imaging, wf[m].state # "none"
  PROVE  wf[m].target = snap[m].name
<1>1. OwnershipInv /\ WorkflowAgrees(m)
  BY DEF ImageInv
<1>2. CASE HardwareCacheLags
  BY <1>2 DEF ImageInv, LocalAgrees
<1>3. CASE ~HardwareCacheLags
  <2>1. wf[m].target \in Hardware /\ hw[wf[m].target].owner = m
    BY <1>1 DEF WorkflowAgrees
  <2>2. snap[m].name \in Hardware /\ hw[snap[m].name].owner = m
    BY <1>1, WorkerOwns
  <2> QED BY <1>1, <1>3, <2>1, <2>2, NoneAssumption
          DEF OwnershipInv, OneHardwareInv, OneHardwarePerMachine
<1> QED BY <1>2, <1>3

\* Until its deletion works, what a machine owns marked carries its image,
LEMMA ProvisionedIsImaged ==
  ASSUME ImageInv, NEW m \in Machines, Active(m), NEW h \in Hardware,
         hw[h].owner = m, hw[h].provisioned
  PROVE  box[h].image = m
<1>1. CASE HardwareCacheLags
  <2>1. wf[m] = [state |-> "done", target |-> h]
    BY <1>1 DEF ImageInv, LocalAgrees
  <2>2. wf[m].state = "done" /\ wf[m].target = h
    BY <2>1
  <2> QED BY <2>2 DEF ImageInv, WorkflowAgrees
<1>2. CASE ~HardwareCacheLags
  BY <1>2, NoneAssumption DEF ImageInv, ImageOfOwner
<1> QED BY <1>1, <1>2

\* and its Workflow has yet to write only what is not marked.
LEMMA PendingIsUnmarked ==
  ASSUME ImageInv, NEW m \in Machines, Active(m), wf[m].state = "pending"
  PROVE  ~hw[wf[m].target].provisioned
<1>1. CASE HardwareCacheLags
  <2> SUFFICES ASSUME hw[wf[m].target].provisioned PROVE FALSE
    OBVIOUS
  <2>1. wf[m].target \in Hardware /\ hw[wf[m].target].owner = m
    BY DEF ImageInv, WorkflowAgrees
  <2>2. wf[m] = [state |-> "done", target |-> wf[m].target]
    BY <1>1, <2>1 DEF ImageInv, LocalAgrees
  <2>3. wf[m].state = "done"
    BY <2>2
  <2> QED BY <2>3
<1>2. CASE ~HardwareCacheLags
  BY <1>2 DEF ImageInv, WorkflowAgrees
<1> QED BY <1>1, <1>2

\* Where reads are current, Hardware is marked only when it carries its owner's
\* image, and a Workflow runs only on Hardware that is not marked.
LEMMA ImageOfOwnerStep ==
  ASSUME ~HardwareCacheLags, ImageInv, [Next]_vars, NEW h \in Hardware
  PROVE  ImageOfOwner(h)'
<1> SUFFICES ASSUME hw'[h].owner # None, hw'[h].provisioned
             PROVE  box'[h].image = hw'[h].owner
  BY DEF ImageOfOwner
<1>1. /\ hw[h] \in HardwareRec /\ TypeOK /\ CopiesAreCurrent /\ OwnershipInv
      /\ ImageOfOwner(h)
      /\ hw[h].owner = None => ~hw[h].provisioned
  BY DEF ImageInv, OwnershipInv, TypeOK, FreeHardwareIsClean
<1>2. CASE box'[h].image # box[h].image
  <2>1. PICK m \in Machines :
               /\ wf[m].state = "pending" /\ wf[m].target = h
               /\ \/ WorkflowSucceeds(m) /\ box'[h].image = m
                  \/ WorkflowFails(m) /\ box'[h].image = None
               /\ UNCHANGED hw
    BY <1>1, <1>2, ImageStep
  <2>2. WorkflowAgrees(m)
    BY DEF ImageInv
  <2> QED BY <2>1, <2>2 DEF WorkflowAgrees
<1>3. CASE box'[h].image = box[h].image /\ hw'[h] # hw[h]
  <2>1. CASE /\ DeleteHardware(h)
             /\ hw'[h] = IF hw[h].owner = None THEN [FreeHardware EXCEPT !.exists = FALSE]
                                               ELSE [hw[h] EXCEPT !.deleting = TRUE]
    BY <1>1, <1>3, <2>1 DEF FreeHardware, HardwareRec, ImageOfOwner
  <2>2. ASSUME NEW m \in Machines, hw[h].owner = None, hw'[h] = [hw[h] EXCEPT !.owner = m]
        PROVE  FALSE
    BY <1>1, <2>2 DEF HardwareRec
  <2>3. ASSUME NEW m \in Machines, hw'[h] = [hw[h] EXCEPT !.userData = m]
        PROVE  box'[h].image = hw'[h].owner
    BY <1>1, <1>3, <2>3 DEF HardwareRec, ImageOfOwner
  <2>4. ASSUME NEW m \in Machines, snap[m].name = h, MarkProvisioned(m),
               hw'[h] = [hw[h] EXCEPT !.provisioned = TRUE]
        PROVE  box'[h].image = hw'[h].owner
    <3>1. pc[m] = "markProvisioned" /\ WorkerAgrees(m)
      BY <2>4 DEF MarkProvisioned, ImageInv
    <3>2. hw[h].owner = m /\ box[h].image = m
      BY <1>1, <2>4, <3>1, WorkerOwns DEF WorkerAgrees, Imaging
    <3> QED BY <1>1, <1>3, <2>4, <3>2 DEF HardwareRec
  <2>5. ASSUME hw'[h] = Released(hw[h]) PROVE FALSE
    BY <1>1, <2>5 DEF Released, FreeHardware, HardwareRec
  <2> QED BY <1>1, <1>3, <2>1, <2>2, <2>3, <2>4, <2>5, HardwareStep
<1>4. CASE box'[h].image = box[h].image /\ hw'[h] = hw[h]
  BY <1>1, <1>4 DEF ImageOfOwner
<1> QED BY <1>2, <1>3, <1>4

\* A Workflow's target stays with its machine until the Workflow is removed.
LEMMA WorkflowAgreesStep ==
  ASSUME ImageInv, [Next]_vars, NEW m \in Machines
  PROVE  WorkflowAgrees(m)'
<1>1. /\ wf[m] \in TaskRec /\ TypeOK /\ OwnershipInv
      /\ WorkflowAgrees(m) /\ WorkerAgrees(m) /\ m # None
  BY NoneAssumption DEF ImageInv, OwnershipInv, TypeOK
<1>2. CASE wf'[m] = wf[m] /\ wf[m].state # "none"
  <2>1. wf[m].target \in Hardware /\ hw[wf[m].target].owner = m
    BY <1>1, <1>2 DEF WorkflowAgrees
  <2>2. ~Release(m)
    BY <1>1, <1>2 DEF Release, WorkerAgrees
  <2>3. hw'[wf[m].target].owner = m
    BY <1>1, <2>1, <2>2, OwnedStays
  <2>4. CASE wf[m].state = "done"
    <3>1. ASSUME box'[wf[m].target].image # box[wf[m].target].image PROVE FALSE
      <4>1. PICK x \in Machines : wf[x].state = "pending" /\ wf[x].target = wf[m].target
        BY <1>1, <2>1, <3>1, ImageStep
      <4>2. hw[wf[x].target].owner = x
        BY <4>1 DEF ImageInv, WorkflowAgrees
      <4> QED BY <2>1, <2>4, <4>1, <4>2
    <3> QED BY <1>1, <1>2, <2>1, <2>3, <2>4, <3>1 DEF WorkflowAgrees
  <2>5. CASE wf[m].state \in {"pending", "failed"}
    <3>1. ~MarkProvisioned(m)
      BY <1>1, <2>5 DEF MarkProvisioned, WorkerAgrees
    <3>2. hw'[wf[m].target].provisioned = hw[wf[m].target].provisioned
      BY <1>1, <2>1, <2>2, <3>1, ProvisionedStays
    <3> QED BY <1>1, <1>2, <2>1, <2>3, <2>5, <3>2 DEF WorkflowAgrees
  <2> QED BY <1>1, <1>2, <2>4, <2>5 DEF TaskRec
<1>3. CASE wf'[m].state = "none"
  BY <1>3 DEF WorkflowAgrees
<1>4. CASE CreateWorkflow(m) /\ wf'[m] = [state |-> "pending", target |-> snap[m].name]
  <2>1. pc[m] = "createWorkflow" /\ UNCHANGED hw
    BY <1>4 DEF CreateWorkflow
  <2>2. snap[m].name \in Hardware /\ hw[snap[m].name].owner = m
    BY <1>1, <2>1, WorkerOwns DEF Imaging
  <2>3. HardwareCacheLags \/ ~hw[snap[m].name].provisioned
    BY <1>1, <2>1 DEF WorkerAgrees, Imaging
  <2>4. wf'[m].state = "pending" /\ wf'[m].target = snap[m].name
    BY <1>4
  <2> QED BY <2>1, <2>2, <2>3, <2>4 DEF WorkflowAgrees
<1>5. CASE wf[m].state = "pending" /\ (WorkflowSucceeds(m) \/ WorkflowFails(m))
  <2>1. /\ wf[m].target \in Hardware /\ hw[wf[m].target].owner = m /\ UNCHANGED hw
        /\ HardwareCacheLags \/ ~hw[wf[m].target].provisioned
    BY <1>1, <1>5 DEF WorkflowAgrees, WorkflowSucceeds, WorkflowFails
  <2>2. CASE WorkflowSucceeds(m)
    <3>1. /\ wf' = [wf EXCEPT ![m] = [wf[m] EXCEPT !.state = "done"]]
          /\ box' = [box EXCEPT ![wf[m].target] = [on |-> TRUE, image |-> m]]
      BY <2>2 DEF WorkflowSucceeds
    <3>2. wf'[m].state = "done" /\ wf'[m].target = wf[m].target
      BY <1>1, <3>1 DEF TypeOK, TaskRec
    <3>3. box'[wf[m].target].image = m
      BY <1>1, <2>1, <3>1 DEF TypeOK
    <3> QED BY <2>1, <3>2, <3>3 DEF WorkflowAgrees
  <2>3. CASE WorkflowFails(m)
    <3>1. wf' = [wf EXCEPT ![m] = [wf[m] EXCEPT !.state = "failed"]]
      BY <2>3 DEF WorkflowFails
    <3>2. wf'[m].state = "failed" /\ wf'[m].target = wf[m].target
      BY <1>1, <3>1 DEF TypeOK, TaskRec
    <3> QED BY <2>1, <3>2 DEF WorkflowAgrees
  <2> QED BY <1>5, <2>2, <2>3
<1>6. NoTask.state = "none"
  BY DEF NoTask
<1> QED BY <1>1, <1>2, <1>3, <1>4, <1>5, <1>6, WorkflowStep

\* What a worker concluded about its Hardware and its Workflow stays true.
LEMMA WorkerAgreesStep ==
  ASSUME ImageInv, [Next]_vars, NEW m \in Machines
  PROVE  WorkerAgrees(m)'
<1> USE DEF caches, boundVars, Imaging, Holding, Goto, Return
<1>1. /\ wf[m] \in TaskRec /\ TypeOK /\ OwnershipInv
      /\ WorkflowAgrees(m) /\ WorkerAgrees(m) /\ m # None
      /\ pc \in [Machines -> Steps] /\ snap \in [Machines -> SnapRec]
      /\ wf \in [Machines -> TaskRec] /\ hw \in [Hardware -> HardwareRec]
      /\ pc[m] \in Holding => snap[m].name \in Hardware
  BY NoneAssumption DEF ImageInv, OwnershipInv, TypeOK
<1>2. ~HardwareCacheLags => \A h \in Hardware : ReadHardware(h) = hw[h]
  BY DEF ReadHardware
<1>3. CASE ~Own(m)
  <2>1. pc'[m] = pc[m] /\ snap'[m] = snap[m]
    BY <1>1, <1>3, OthersMemory
  <2>2. ~Release(m) /\ ~MarkProvisioned(m) /\ ~CreateWorkflow(m)
    BY <1>3 DEF Own, Worker
  <2>3. \/ pc[m] \in Imaging \cup {"userData", "setStatus"}
        \/ pc[m] = "claim" /\ snap[m].copy.owner = m
        => /\ snap[m].name \in Hardware /\ hw[snap[m].name].owner = m
           /\ hw'[snap[m].name].provisioned = hw[snap[m].name].provisioned
    BY <1>1, <2>2, WorkerOwns, ProvisionedStays
  <2>4. wf'[m] = wf[m] \/ wf'[m].state = "none" \/ wf[m].state = "pending"
    <3>1. NoTask.state = "none"
      BY DEF NoTask
    <3> QED BY <1>1, <2>2, <3>1, WorkflowStep
  <2>5. /\ wf[m].state = "none" => wf'[m].state = "none"
        /\ wf[m].state \in {"none", "done"} => wf'[m].state \in {"none", "done"}
    BY <2>4
  <2>6. pc[m] = "markProvisioned" => box'[snap[m].name].image = m
    <3> SUFFICES ASSUME pc[m] = "markProvisioned",
                        box'[snap[m].name].image # box[snap[m].name].image
                 PROVE  FALSE
      BY <1>1 DEF WorkerAgrees
    <3>1. PICK x \in Machines : wf[x].state = "pending" /\ wf[x].target = snap[m].name
      BY <1>1, ImageStep
    <3>2. hw[wf[x].target].owner = x
      BY <3>1 DEF ImageInv, WorkflowAgrees
    <3> QED BY <1>1, <2>3, <3>1, <3>2 DEF WorkerAgrees
  <2> QED BY <1>1, <2>1, <2>3, <2>4, <2>5, <2>6 DEF WorkerAgrees
<1>4. CASE Reconcile(m) \/ AddFinalizer(m) \/ RemoveFinalizer(m) \/ ClaimRefused(m)
           \/ CreateWorkflow(m) \/ MarkProvisioned(m) \/ GetHardware(m) \/ Crash(m)
           \/ PatchFailsHalfway(m)
  <2>1. pc'[m] \in {"idle", "getHardware", "listAssigned", "addFinalizer",
                    "removeDependencies"}
    BY <1>1, <1>4 DEF Reconcile, AddFinalizer, RemoveFinalizer, ClaimRefused,
                      CreateWorkflow, MarkProvisioned, GetHardware, Crash,
                      PatchFailsHalfway
  <2> QED BY <2>1 DEF WorkerAgrees
<1>5. CASE CallFails(m)
  <2>1. pc'[m] \in {"idle", "addFinalizer"}
    BY <1>1, <1>5 DEF CallFails
  <2> QED BY <2>1 DEF WorkerAgrees
<1>6. CASE ListAssigned(m)
  <2>1. CASE pc'[m] = "listFree"
    BY <2>1 DEF WorkerAgrees
  <2>2. ASSUME NEW h \in Assigned(m), Take(m, h), pc'[m] = "claim"
        PROVE  WorkerAgrees(m)'
    <3>1. h \in Hardware /\ ReadHardware(h).owner = m /\ pc[m] \in Attempt /\ UNCHANGED hw
      BY <1>6 DEF ListAssigned, Assigned, Attempt, Provisioning
    <3>2. snap'[m].name = h /\ snap'[m].copy = ReadHardware(h)
      BY <1>1, <2>2 DEF Take
    <3>3. ReadHardware(h).provisioned => hw[h].provisioned
      BY <1>1, <3>1, ListedIsOwned
    <3> QED BY <1>2, <2>2, <3>1, <3>2, <3>3 DEF WorkerAgrees
  <2> QED BY <1>1, <1>6, <2>1, <2>2 DEF ListAssigned
<1>7. CASE ListFree(m)
  <2>1. \A h \in Best(m, Free(m)) : ReadHardware(h).owner = None
    BY DEF Best, Free
  <2>2. /\ UNCHANGED hw
        /\ \/ pc'[m] = "addFinalizer"
           \/ pc'[m] = "claim" /\ snap'[m].copy.owner # m
    BY <1>1, <1>7, <2>1 DEF ListFree, Take
  <2> QED BY <2>2 DEF WorkerAgrees
<1>8. CASE Claim(m)
  <2>1. pc[m] = "claim" /\ pc'[m] = "userData" /\ snap[m].name \in Hardware
    BY <1>1, <1>8 DEF Claim
  <2>2. /\ snap'[m].copy.provisioned => hw'[snap'[m].name].provisioned
        /\ HardwareCacheLags \/ (hw'[snap'[m].name].provisioned => snap'[m].copy.provisioned)
    <3>1. CASE snap[m].copy.owner = m /\ UNCHANGED <<hw, snap>>
      BY <1>1, <2>1, <3>1 DEF WorkerAgrees
    <3>2. CASE PatchHardware(m, snap[m].name, [snap[m].copy EXCEPT !.owner = m])
      BY <1>1, <2>1, <3>2 DEF PatchHardware, SetHardware
    <3> QED BY <1>8, <3>1, <3>2 DEF Claim
  <2> QED BY <2>1, <2>2 DEF WorkerAgrees
<1>9. CASE UserData(m)
  <2>1. pc[m] = "userData" /\ pc'[m] \in {"setStatus", "addFinalizer"}
        /\ snap[m].name \in Hardware
    BY <1>1, <1>9 DEF UserData
  <2>2. /\ snap'[m].copy.provisioned => hw'[snap'[m].name].provisioned
        /\ HardwareCacheLags \/ (hw'[snap'[m].name].provisioned => snap'[m].copy.provisioned)
    <3>1. CASE UNCHANGED <<hw, snap>>
      BY <1>1, <2>1, <3>1 DEF WorkerAgrees
    <3>2. CASE PatchHardware(m, snap[m].name, [hw[snap[m].name] EXCEPT !.userData = m])
      BY <1>1, <2>1, <3>2 DEF PatchHardware, SetHardware
    <3> QED BY <1>9, <3>1, <3>2 DEF UserData
  <2> QED BY <2>1, <2>2 DEF WorkerAgrees
<1>10. CASE SetStatus(m)
  <2>1. /\ pc[m] = "setStatus" /\ UNCHANGED <<hw, snap>>
        /\ \/ pc'[m] = "addFinalizer"
           \/ pc'[m] = "getWorkflow" /\ ~snap[m].copy.provisioned
    BY <1>1, <1>10 DEF SetStatus
  <2> QED BY <1>1, <2>1 DEF WorkerAgrees
<1>11. CASE GetWorkflow(m)
  <2>1. /\ pc[m] = "getWorkflow" /\ UNCHANGED <<hw, snap, wf, box>>
        /\ \/ pc'[m] = "addFinalizer"
           \/ pc'[m] = "createWorkflow" /\ wf[m].state = "none"
           \/ pc'[m] = "markProvisioned" /\ wf[m].state = "done"
    BY <1>1, <1>11 DEF GetWorkflow
  <2>2. wf[m].state = "done" => wf[m].target = snap[m].name
    BY <2>1, TargetIsHeld
  <2> QED BY <1>1, <2>1, <2>2 DEF WorkerAgrees, WorkflowAgrees
<1>12. CASE RemoveDependencies(m)
  <2>1. wf'[m].state = "none" /\ pc'[m] \in {"powerOff", "release", "removeFinalizer"}
    BY <1>1, <1>12 DEF RemoveDependencies, NoTask
  <2> QED BY <2>1 DEF WorkerAgrees
<1>13. CASE PowerOff(m) \/ Release(m)
  <2>1. /\ pc[m] \in {"powerOff", "release"} /\ UNCHANGED wf
        /\ pc'[m] \in {"idle", "release", "removeFinalizer"}
    BY <1>1, <1>13 DEF PowerOff, Release
  <2> QED BY <1>1, <2>1 DEF WorkerAgrees
<1> QED BY <1>3, <1>4, <1>5, <1>6, <1>7, <1>8, <1>9, <1>10, <1>11, <1>12, <1>13
        DEF Own, Worker

\* A machine that is created for the only time has and had nothing.
LEMMA CreatedOnce ==
  ASSUME Timely, HardwareCacheLags, ImageInv, [Next]_vars, NEW m \in Machines,
         CreateMachine(m)
  PROVE  /\ births[m] = 0 /\ wf'[m].state = "none"
         /\ \A h \in Hardware : hw[h].owner # m
         /\ pc'[m] = "idle"
<1>1. births[m] \in Nat /\ births[m] < MaxBirths /\ MaxBirths <= 1
  BY BoundAssumption DEF Timely, CreateMachine, ImageInv, OwnershipInv, TypeOK
<1>2. births[m] = 0 /\ LocalAgrees(m)
  BY <1>1, BoundAssumption DEF ImageInv
<1>3. UNCHANGED <<wf, pc>> /\ pc[m] = "idle"
  BY DEF CreateMachine
<1> QED BY <1>2, <1>3 DEF LocalAgrees

\* A deletion that works does not turn into an attempt.
LEMMA ActiveBefore ==
  ASSUME Timely, OwnershipInv, [Next]_vars, NEW m \in Machines,
         tm[m].exists, Active(m)'
  PROVE  Active(m)
<1> SUFFICES ASSUME tm[m].deleting, pc[m] \notin Attempt PROVE FALSE
  BY DEF Active
<1>1. /\ TypeOK /\ pc \in [Machines -> Steps]
      /\ tm'[m].exists /\ (tm'[m].deleting => pc'[m] \in Attempt)
  BY DEF OwnershipInv, TypeOK, Active
<1>2. pc'[m] \in Attempt
  BY <1>1, RecordedStays
<1>3. CASE ~Own(m)
  BY <1>1, <1>2, <1>3, OthersMemory
<1>4. CASE Own(m)
  BY <1>1, <1>2, <1>4 DEF Own, Worker, Reconcile, ListAssigned, ListFree, ClaimRefused,
       Claim, UserData, SetStatus, GetWorkflow, CreateWorkflow, MarkProvisioned,
       AddFinalizer, GetHardware, RemoveDependencies, PowerOff, Release, RemoveFinalizer,
       CallFails, PatchFailsHalfway, Crash, ReadMachine, Timely, Attempt, Provisioning, Goto, Return
<1> QED BY <1>3, <1>4

\* A Workflow that is done stays until the machine's deletion works.
LEMMA DoneStays ==
  ASSUME ImageInv, [Next]_vars, NEW m \in Machines, Active(m), wf[m].state = "done"
  PROVE  wf'[m] = wf[m]
<1>1. TypeOK /\ MachineAgrees(m) /\ WorkerAgrees(m)
  BY DEF ImageInv, OwnershipInv
<1>2. ~CreateWorkflow(m)
  BY <1>1 DEF CreateWorkflow, WorkerAgrees
<1>3. ~RemoveDependencies(m) /\ ~CollectGarbage(m)
  BY <1>1 DEF RemoveDependencies, CollectGarbage, Active, MachineAgrees, Attempt,
              Provisioning, Deleting
<1> QED BY <1>1, <1>2, <1>3, WorkflowStep

\* What a Workflow runs on is decided when it is created.
LEMMA TargetStep ==
  ASSUME ImageInv, [Next]_vars, NEW m \in Machines, wf'[m].state # "none"
  PROVE  \/ CreateWorkflow(m) /\ wf'[m].target = snap[m].name
         \/ wf[m].state # "none" /\ wf'[m].target = wf[m].target
<1>1. TypeOK /\ wf[m] \in TaskRec
  BY DEF ImageInv, OwnershipInv, TypeOK
<1>2. NoTask.state = "none"
  BY DEF NoTask
<1>3. \/ wf'[m] = [wf[m] EXCEPT !.state = "done"]
      \/ wf'[m] = [wf[m] EXCEPT !.state = "failed"]
      => wf'[m].target = wf[m].target
  BY <1>1 DEF TaskRec
<1>4. CreateWorkflow(m) /\ wf'[m] = [state |-> "pending", target |-> snap[m].name]
        => wf'[m].target = snap[m].name
  OBVIOUS
<1>5. CASE wf'[m] # wf[m]
  BY <1>1, <1>2, <1>3, <1>4, <1>5, WorkflowStep
<1> QED BY <1>5

\* What a machine has marked it has imaged with its one Workflow.
LEMMA MarkedStep ==
  ASSUME Timely, HardwareCacheLags, ImageInv, [Next]_vars, NEW m \in Machines,
         Active(m)', NEW h \in Hardware, hw'[h].owner = m, hw'[h].provisioned
  PROVE  wf'[m] = [state |-> "done", target |-> h]
<1>1. /\ TypeOK /\ OwnershipInv /\ LocalAgrees(m) /\ WorkerAgrees(m) /\ MachineAgrees(m)
      /\ wf[m] \in TaskRec /\ hw[h] \in HardwareRec /\ m # None
      /\ tm'[m].exists
  BY NoneAssumption DEF ImageInv, OwnershipInv, TypeOK, Active
<1>2. tm[m].exists
  <2>1. ~CreateMachine(m)
    <3> SUFFICES ASSUME CreateMachine(m) PROVE FALSE
      OBVIOUS
    <3>1. hw[h].owner # m /\ UNCHANGED hw
      BY CreatedOnce DEF CreateMachine
    <3> QED BY <3>1
  <2>2. CASE tm'[m] # tm[m]
    BY <1>1, <2>1, <2>2, MachineStep, PatchHalfway DEF DeleteMachine
  <2> QED BY <1>1, <2>2
<1>3. Active(m)
  BY <1>1, <1>2, ActiveBefore
<1>4. hw[h].owner = m
  <2> SUFFICES ASSUME hw[h].owner # m PROVE FALSE
    OBVIOUS
  <2>1. Claim(m)
    BY <1>1, NotOwnedStays
  <2>2. hw[h].owner = None => ~hw[h].provisioned
    BY DEF ImageInv, FreeHardwareIsClean
  <2>3. hw'[h].provisioned = FALSE
    <3>1. pc[m] = "claim"
      BY <2>1 DEF Claim
    <3>2. hw' = [hw EXCEPT ![snap[m].name] = [snap[m].copy EXCEPT !.owner = m]]
      BY <2>1 DEF Claim, PatchHardware, SetHardware
    <3>3. CopiesAreCurrent /\ m \in fresh /\ snap[m].copy.owner = None
      BY <1>1, <2>1 DEF Claim, OwnershipInv
    <3>4. snap[m].name = h /\ snap[m].copy = hw[h]
      BY <1>1, <3>2, <3>3 DEF CopiesAreCurrent, TypeOK
    <3> QED BY <1>1, <2>2, <3>2, <3>3, <3>4 DEF TypeOK, HardwareRec
  <2> QED BY <2>3
<1>5. ~Release(m)
  BY <1>1, <1>3 DEF Release, Active, MachineAgrees, Deleting, Attempt, Provisioning
<1>6. CASE hw[h].provisioned
  <2>1. wf[m] = [state |-> "done", target |-> h]
    BY <1>1, <1>3, <1>4, <1>6 DEF LocalAgrees
  <2>2. wf[m].state = "done"
    BY <2>1
  <2> QED BY <1>3, <2>1, <2>2, DoneStays
<1>7. CASE ~hw[h].provisioned
  <2>1. MarkProvisioned(m)
    BY <1>1, <1>4, <1>5, <1>7, ProvisionedStays
  <2>2. pc[m] = "markProvisioned" /\ pc[m] \in Imaging /\ UNCHANGED wf
    BY <2>1 DEF MarkProvisioned, Imaging
  <2>3. snap[m].name = h
    <3>1. hw' = [hw EXCEPT ![snap[m].name] = [hw[snap[m].name] EXCEPT !.provisioned = TRUE]]
      BY <1>7, <2>1 DEF MarkProvisioned, PatchHardware, SetHardware
    <3> QED BY <1>1, <1>7, <3>1 DEF TypeOK
  <2>4. wf[m].state = "done"
    BY <1>1, <1>2, <2>2 DEF LocalAgrees
  <2>5. wf[m].target = h
    BY <2>2, <2>3, <2>4, TargetIsHeld
  <2> QED BY <1>1, <2>2, <2>4, <2>5 DEF TaskRec
<1> QED BY <1>6, <1>7

\* One machine, one Workflow, on the Hardware it recorded.
LEMMA LocalStep ==
  ASSUME Timely, HardwareCacheLags, ImageInv, [Next]_vars, NEW m \in Machines
  PROVE  LocalAgrees(m)'
<1>1. /\ TypeOK /\ OwnershipInv /\ LocalAgrees(m) /\ WorkerAgrees(m) /\ MachineAgrees(m)
      /\ HolderOwns(m) /\ WorkflowAgrees(m)
      /\ wf[m] \in TaskRec /\ tm[m] \in MachineRec /\ m # None /\ None \notin Hardware
      /\ pc \in [Machines -> Steps] /\ births[m] \in Nat /\ births'[m] \in Nat
      /\ tm \in [Machines -> MachineRec] /\ mem \in [Machines -> MachineRec]
      /\ pc[m] \in Holding => snap[m].name \in Hardware
  <2>1. TypeOK'
    BY TypeStep DEF ImageInv, OwnershipInv
  <2> QED BY <2>1, NoneAssumption, BoundAssumption DEF ImageInv, OwnershipInv, TypeOK
<1>2. ASSUME births'[m] = 0
      PROVE  wf'[m].state = "none" /\ \A h \in Hardware : hw'[h].owner # m
  <2>1. births[m] = 0 /\ ~CreateMachine(m)
    BY <1>1, <1>2, BirthStep, BornStays
  <2>2. ~tm[m].exists /\ pc[m] = "idle" /\ wf[m].state = "none"
        /\ \A h \in Hardware : hw[h].owner # m
    BY <1>1, <2>1 DEF MachineAgrees, LocalAgrees
  <2>3. ~Claim(m) /\ ~CreateWorkflow(m)
    BY <2>2 DEF Claim, CreateWorkflow
  <2>4. wf'[m].state = "none"
    BY <2>2, <2>3, TargetStep
  <2> QED BY <1>1, <2>2, <2>3, <2>4, NotOwnedStays
<1>3. ASSUME tm'[m].exists, wf'[m].state # "none"
      PROVE  tm'[m].hardware # None /\ wf'[m].target = tm'[m].hardware
  <2>1. ~CreateMachine(m)
    BY <1>3, CreatedOnce
  <2>2. tm[m].exists
    <3>1. CASE tm'[m] # tm[m]
      BY <1>1, <1>3, <2>1, <3>1, MachineStep, PatchHalfway DEF DeleteMachine
    <3> QED BY <1>3, <3>1
  <2>3. CASE CreateWorkflow(m) /\ wf'[m].target = snap[m].name
    <3>1. pc[m] = "createWorkflow" /\ UNCHANGED tm
      BY <2>3 DEF CreateWorkflow
    <3>2. tm[m].hardware = mem[m].hardware /\ snap[m].name = mem[m].hardware
      BY <1>1, <2>2, <3>1 DEF MachineAgrees, HolderOwns, Imaging, OnHardware, Holding
    <3>3. snap[m].name \in Hardware
      BY <1>1, <3>1 DEF Holding
    <3> QED BY <1>1, <2>3, <3>1, <3>2, <3>3
  <2>4. CASE wf[m].state # "none" /\ wf'[m].target = wf[m].target
    BY <1>1, <1>3, <2>2, <2>4, RecordedStays DEF LocalAgrees
  <2> QED BY <1>3, <2>3, <2>4, TargetStep
<1>4. ASSUME pc'[m] \in Imaging, wf'[m].state # "none"
      PROVE  wf'[m].target = snap'[m].name
  <2>1. ~CreateWorkflow(m)
    BY <1>1, <1>4 DEF CreateWorkflow, Goto, Imaging
  <2>2. wf[m].state # "none" /\ wf'[m].target = wf[m].target
    BY <1>4, <2>1, TargetStep
  <2>3. CASE pc[m] \in Imaging /\ snap'[m] = snap[m]
    BY <2>2, <2>3, TargetIsHeld
  <2>4. CASE SetStatus(m)
    <3>1. /\ pc[m] = "setStatus" /\ tm[m].exists /\ ~Rejected(m, mem[m])
          /\ UNCHANGED snap /\ tm'[m] = Patched(m, mem[m])
      BY <1>1, <1>4, <2>4 DEF SetStatus, Goto, Imaging
    <3>2. tm'[m].exists /\ tm'[m].hardware = mem[m].hardware
      BY <1>1, <3>1, PatchInAttempt DEF Attempt, Provisioning
    <3>3. snap[m].name = mem[m].hardware
      BY <1>1, <3>1 DEF HolderOwns, OnHardware, Holding
    <3> QED BY <1>3, <1>4, <3>1, <3>2, <3>3
  <2>5. CASE ~Own(m)
    BY <1>1, <1>4, <2>3, <2>5, OthersMemory
  <2>6. CASE Own(m) /\ ~SetStatus(m)
    <3>1. GetWorkflow(m)
      BY <1>1, <1>4, <2>6 DEF Own, Worker, Reconcile, ListAssigned, ListFree, ClaimRefused,
         Claim, UserData, CreateWorkflow, MarkProvisioned, AddFinalizer, GetHardware,
         RemoveDependencies, PowerOff, Release, RemoveFinalizer, CallFails, PatchFailsHalfway, Crash, Imaging,
         Goto, Return
    <3> QED BY <2>3, <3>1 DEF GetWorkflow, Imaging
  <2> QED BY <2>4, <2>5, <2>6
<1>5. ASSUME tm'[m].exists, pc'[m] = "markProvisioned"
      PROVE  wf'[m].state = "done"
  <2>1. tm[m].exists
    <3>1. ~CreateMachine(m)
      BY <1>5, CreatedOnce
    <3>2. CASE tm'[m] # tm[m]
      BY <1>1, <1>5, <3>1, <3>2, MachineStep, PatchHalfway DEF DeleteMachine
    <3> QED BY <1>5, <3>2
  <2>2. CASE pc[m] = "markProvisioned"
    <3>1. wf[m].state = "done" /\ Active(m)
      BY <1>1, <2>1, <2>2 DEF LocalAgrees, Active, Attempt, Provisioning
    <3> QED BY <3>1, DoneStays
  <2>3. CASE ~Own(m)
    BY <1>1, <1>5, <2>2, <2>3, OthersMemory
  <2>4. CASE Own(m)
    <3>1. GetWorkflow(m)
      BY <1>1, <1>5, <2>4 DEF Own, Worker, Reconcile, ListAssigned, ListFree, ClaimRefused,
         Claim, UserData, SetStatus, CreateWorkflow, MarkProvisioned, AddFinalizer,
         GetHardware, RemoveDependencies, PowerOff, Release, RemoveFinalizer, CallFails, PatchFailsHalfway,
         Crash, Goto, Return
    <3> QED BY <1>1, <1>5, <3>1 DEF GetWorkflow, Goto
  <2> QED BY <2>3, <2>4
<1>6. Active(m)' => \A h \in Hardware : hw'[h].owner = m /\ hw'[h].provisioned
                                          => wf'[m] = [state |-> "done", target |-> h]
  BY MarkedStep
<1> QED BY <1>2, <1>3, <1>4, <1>5, <1>6 DEF LocalAgrees

\* ImageInv is kept by every step.
LEMMA ImageInvStep ==
  ASSUME Timely, ImageInv, [Next]_vars
  PROVE  ImageInv'
<1>1. OwnershipInv' /\ FreeHardwareIsClean'
  BY OwnershipStep, CleanStep DEF ImageInv
<1>2. HardwareCacheLags \/ \A h \in Hardware : ImageOfOwner(h)'
  BY ImageOfOwnerStep
<1>3. HardwareCacheLags => \A m \in Machines : LocalAgrees(m)'
  BY LocalStep
<1>4. \A m \in Machines : (WorkflowAgrees(m) /\ WorkerAgrees(m))'
  BY WorkflowAgreesStep, WorkerAgreesStep
<1> QED BY <1>1, <1>2, <1>3, <1>4 DEF ImageInv

\* What a machine that is ready rests on: the image is its own, and neither the
\* Workflow that wrote it nor another is going to run again.
ReadyOn(m, h) ==
  /\ h # None /\ box[h].image = m
  /\ hw[h].provisioned \/ (wf[m].state = "done" /\ wf[m].target = h)

\* A machine that is ready rests on the Hardware it recorded; so does one whose
\* worker has found it ready and not written it yet.
ReadyAgrees(m) ==
  tm[m].exists /\ ~tm[m].deleting =>
    /\ tm[m].ready => ReadyOn(m, tm[m].hardware)
    /\ pc[m] \in Attempt /\ mem[m].ready # read[m].ready =>
         /\ mem[m].ready /\ mem[m].hardware = tm[m].hardware
         /\ ReadyOn(m, tm[m].hardware)

\* The inductive invariant for readiness.
ReadyInv == ImageInv /\ \A m \in Machines : ReadyAgrees(m)

\* It stays so on Hardware the machine owns, until the machine is deleted.
LEMMA ReadyOnStays ==
  ASSUME ImageInv, [Next]_vars, NEW m \in Machines, NEW h \in Hardware,
         hw[h].owner = m, ReadyOn(m, h), tm[m].exists, ~tm[m].deleting
  PROVE  ReadyOn(m, h)'
<1>1. /\ TypeOK /\ OwnershipInv /\ WorkflowAgrees(m) /\ WorkerAgrees(m) /\ MachineAgrees(m)
      /\ hw[h] \in HardwareRec /\ wf[m] \in TaskRec /\ Active(m)
  BY DEF ImageInv, OwnershipInv, TypeOK, Active
<1>2. box'[h].image = m
  <2> SUFFICES ASSUME box'[h].image # box[h].image PROVE FALSE
    BY DEF ReadyOn
  <2>1. PICK x \in Machines : wf[x].state = "pending" /\ wf[x].target = h
    BY <1>1, ImageStep
  <2>2. hw[h].owner = x
    BY <2>1 DEF ImageInv, WorkflowAgrees
  <2>3. ~hw[h].provisioned /\ wf[m].state = "pending"
    BY <1>1, <2>1, <2>2, PendingIsUnmarked
  <2> QED BY <2>3 DEF ReadyOn
<1>3. ~Release(m)
  BY <1>1 DEF Release, Deleting, MachineAgrees
<1>4. hw[h].provisioned => hw'[h].provisioned
  BY <1>1, <1>3, OwnedStays
<1>5. CASE wf[m].state = "done" /\ wf[m].target = h
  BY <1>1, <1>2, <1>5, DoneStays DEF ReadyOn
<1>6. CASE hw[h].provisioned
  BY <1>2, <1>4, <1>6 DEF ReadyOn
<1> QED BY <1>5, <1>6 DEF ReadyOn

\* A machine that is not being deleted owns what it has recorded, and what its
\* worker has in memory.
LEMMA LivingOwns ==
  ASSUME OwnershipInv, NEW m \in Machines, tm[m].exists, ~tm[m].deleting
  PROVE  /\ pc[m] \notin Deleting
         /\ tm[m].hardware # None =>
              tm[m].hardware \in Hardware /\ hw[tm[m].hardware].owner = m
         /\ pc[m] \in Attempt /\ mem[m].hardware # None =>
              mem[m].hardware \in Hardware /\ hw[mem[m].hardware].owner = m
<1>1. /\ MachineAgrees(m) /\ HolderOwns(m)
      /\ tm[m] \in MachineRec /\ mem[m] \in MachineRec
  BY DEF OwnershipInv, TypeOK
<1>2. pc[m] \notin Deleting /\ pc[m] # "removeFinalizer"
  BY <1>1 DEF MachineAgrees, Deleting
<1> QED BY <1>1, <1>2 DEF HolderOwns, MachineRec, Names

\* A machine gets ready, on the server or in memory, only by what makes it so.
LEMMA ReadyStep ==
  ASSUME Timely, ReadyInv, [Next]_vars, NEW m \in Machines
  PROVE  ReadyAgrees(m)'
<1> USE DEF caches, boundVars, Attempt, Provisioning, Deleting, Holding, Goto, Return
<1> DEFINE Rests(h) == /\ h # None /\ box'[h].image = m
                       /\ hw'[h].provisioned \/ (wf'[m].state = "done" /\ wf'[m].target = h)
<1> SUFFICES ASSUME tm'[m].exists, ~tm'[m].deleting
             PROVE  /\ tm'[m].ready => Rests(tm'[m].hardware)
                    /\ pc'[m] \in Attempt /\ mem'[m].ready # read'[m].ready =>
                         /\ mem'[m].ready /\ mem'[m].hardware = tm'[m].hardware
                         /\ Rests(tm'[m].hardware)
  BY DEF ReadyAgrees, ReadyOn
<1>1. /\ ReadyAgrees(m) /\ MachineAgrees(m) /\ HolderOwns(m) /\ WorkerAgrees(m)
      /\ WorkflowAgrees(m)
      /\ ImageInv /\ OwnershipInv /\ TypeOK
      /\ tm[m] \in MachineRec /\ mem[m] \in MachineRec /\ read[m] \in MachineRec
      /\ tm \in [Machines -> MachineRec] /\ mem \in [Machines -> MachineRec]
      /\ read \in [Machines -> MachineRec] /\ pc \in [Machines -> Steps]
      /\ pc[m] \in Holding => snap[m].name \in Hardware
      /\ None \notin Hardware /\ m # None
      /\ ReadMachine(m) = tm[m]
  BY NoneAssumption DEF ReadyInv, ImageInv, OwnershipInv, TypeOK, Timely, ReadMachine
\* What readiness rested on before the step it rests on after it.
<1>2. ASSUME tm[m].exists, ~tm[m].deleting, ReadyOn(m, tm[m].hardware)
      PROVE  tm[m].hardware # None /\ Rests(tm[m].hardware)
  <2>1. tm[m].hardware # None
    BY <1>2 DEF ReadyOn
  <2>2. tm[m].hardware \in Hardware /\ hw[tm[m].hardware].owner = m
    BY <1>1, <1>2, <2>1, LivingOwns
  <2> QED BY <1>1, <1>2, <2>1, <2>2, ReadyOnStays DEF ReadyOn
\* So does what the worker sees done, on the Hardware it holds.
<1>3. ASSUME UNCHANGED <<hw, box, wf>>, tm[m].exists, ~tm[m].deleting,
             \/ pc[m] = "setStatus" /\ snap[m].copy.provisioned
             \/ pc[m] = "getWorkflow" /\ wf[m].state = "done"
      PROVE  Rests(mem[m].hardware)
  <2>1. snap[m].name = mem[m].hardware
    BY <1>1, <1>3 DEF HolderOwns, OnHardware
  <2>2. mem[m].hardware \in Hardware /\ hw[mem[m].hardware].owner = m
    BY <1>1, <1>3, <2>1, WorkerOwns DEF Imaging
  <2>3. CASE pc[m] = "setStatus" /\ snap[m].copy.provisioned
    <3>1. hw[mem[m].hardware].provisioned
      BY <1>1, <2>1, <2>3 DEF WorkerAgrees
    <3>2. box[mem[m].hardware].image = m
      BY <1>1, <1>3, <2>2, <3>1, ProvisionedIsImaged DEF Active
    <3> QED BY <1>1, <1>3, <2>2, <3>1, <3>2
  <2>4. CASE pc[m] = "getWorkflow" /\ wf[m].state = "done"
    <3>1. wf[m].target = mem[m].hardware
      BY <1>1, <2>1, <2>4, TargetIsHeld DEF Imaging
    <3>2. box[mem[m].hardware].image = m
      BY <1>1, <2>4, <3>1 DEF WorkflowAgrees
    <3> QED BY <1>1, <1>3, <2>2, <2>4, <3>1, <3>2
  <2> QED BY <1>3, <2>3, <2>4
<1> HIDE DEF Rests
\* Both writes of the machine send what the worker has found.
<1>4. ASSUME pc[m] \in Attempt, tm[m].exists,
             NEW now \in {mem[m], [mem[m] EXCEPT !.finalizer = TRUE]},
             tm'[m] = Patched(m, now)
      PROVE  /\ ~tm[m].deleting
             /\ tm'[m].ready => Rests(tm'[m].hardware)
             /\ mem[m].ready # read[m].ready =>
                  /\ mem[m].ready /\ mem[m].hardware = tm'[m].hardware
                  /\ Rests(tm'[m].hardware)
  <2>1. /\ ~tm[m].deleting
        /\ tm[m].hardware # None => tm'[m].hardware = tm[m].hardware
        /\ tm'[m].ready = (IF mem[m].ready = read[m].ready THEN tm[m].ready ELSE mem[m].ready)
    <3>1. /\ Patched(m, now).deleting = tm[m].deleting
          /\ tm[m].hardware # None => Patched(m, now).hardware = tm[m].hardware
          /\ Patched(m, now).ready = (IF mem[m].ready = read[m].ready THEN tm[m].ready
                                                                    ELSE mem[m].ready)
      BY <1>1, <1>4, PatchInAttempt
    <3> QED BY <1>4, <3>1
  <2>2. CASE mem[m].ready = read[m].ready
    <3>1. ASSUME tm'[m].ready PROVE Rests(tm'[m].hardware)
      <4>1. ReadyOn(m, tm[m].hardware)
        BY <1>1, <1>4, <2>1, <2>2, <3>1 DEF ReadyAgrees
      <4> QED BY <1>2, <1>4, <2>1, <4>1
    <3> QED BY <2>1, <2>2, <3>1
  <2>3. CASE mem[m].ready # read[m].ready
    <3>1. /\ mem[m].ready /\ mem[m].hardware = tm[m].hardware
          /\ ReadyOn(m, tm[m].hardware)
      BY <1>1, <1>4, <2>1, <2>3 DEF ReadyAgrees
    <3> QED BY <1>2, <1>4, <2>1, <3>1
  <2> QED BY <2>2, <2>3
\* Steps that leave the machine and what is to be written of it.
<1>5. ASSUME tm'[m] = tm[m],
             pc'[m] \in Attempt /\ mem'[m].ready # read'[m].ready =>
               /\ pc[m] \in Attempt /\ mem[m].ready # read[m].ready
               /\ mem'[m].ready = mem[m].ready /\ mem'[m].hardware = mem[m].hardware
      PROVE  /\ tm'[m].ready => Rests(tm'[m].hardware)
             /\ pc'[m] \in Attempt /\ mem'[m].ready # read'[m].ready =>
                  /\ mem'[m].ready /\ mem'[m].hardware = tm'[m].hardware
                  /\ Rests(tm'[m].hardware)
  <2>1. ASSUME tm[m].ready PROVE Rests(tm[m].hardware)
    BY <1>1, <1>2, <1>5, <2>1 DEF ReadyAgrees
  <2>2. ASSUME pc[m] \in Attempt, mem[m].ready # read[m].ready
        PROVE  /\ mem[m].ready /\ mem[m].hardware = tm[m].hardware
               /\ Rests(tm[m].hardware)
    BY <1>1, <1>2, <1>5, <2>2 DEF ReadyAgrees
  <2> QED BY <1>5, <2>1, <2>2
<1>6. CASE ~Own(m)
  <2>1. /\ pc'[m] = pc[m] /\ read'[m] = read[m] /\ mem'[m] = mem[m]
        /\ tm'[m] = tm[m] \/ CreateMachine(m) \/ DeleteMachine(m)
    BY <1>1, <1>6, OthersMemory
  <2>2. CASE tm'[m] = tm[m]
    BY <1>5, <2>1, <2>2
  <2>3. CASE CreateMachine(m)
    <3>1. pc[m] = "idle" /\ ~tm'[m].ready
      BY <1>1, <2>3 DEF CreateMachine, NoMachine
    <3> QED BY <2>1, <3>1
  <2>4. CASE DeleteMachine(m)
    BY <1>1, <2>4 DEF DeleteMachine, NoMachine, MachineRec
  <2> QED BY <2>1, <2>2, <2>3, <2>4
<1>7. CASE Reconcile(m)
  <2>1. tm'[m] = tm[m] /\ mem'[m] = read'[m]
    BY <1>1, <1>7 DEF Reconcile
  <2> QED BY <1>5, <2>1
<1>8. CASE Claim(m)
  <2>1. /\ UNCHANGED <<tm, read>> /\ mem[m] = read[m]
        /\ mem'[m] = [mem[m] EXCEPT !.hardware = snap[m].name]
    BY <1>1, <1>8 DEF Claim, MachineAgrees
  <2>2. mem'[m].ready = read'[m].ready
    BY <1>1, <2>1 DEF MachineRec
  <2> QED BY <1>5, <2>1, <2>2
<1>9. CASE SetStatus(m)
  <2>1. /\ pc[m] = "setStatus" /\ tm[m].exists /\ UNCHANGED <<hw, box, wf, read>>
        /\ tm'[m] = Patched(m, mem[m])
        /\ \/ mem'[m] = mem[m]
           \/ /\ mem'[m] = [mem[m] EXCEPT !.ready = TRUE]
              /\ snap[m].copy.provisioned /\ ~Rejected(m, mem[m])
    BY <1>1, <1>9 DEF SetStatus
  <2>2. /\ ~tm[m].deleting
        /\ tm'[m].ready => Rests(tm'[m].hardware)
        /\ mem[m].ready # read[m].ready =>
             /\ mem[m].ready /\ mem[m].hardware = tm'[m].hardware
             /\ Rests(tm'[m].hardware)
    BY <1>4, <2>1
  <2>3. CASE mem'[m] = mem[m]
    BY <2>1, <2>2, <2>3
  <2>4. CASE /\ mem'[m] = [mem[m] EXCEPT !.ready = TRUE]
             /\ snap[m].copy.provisioned /\ ~Rejected(m, mem[m])
    <3>1. mem'[m].ready /\ mem'[m].hardware = mem[m].hardware
      BY <1>1, <2>4 DEF MachineRec
    <3>2. tm'[m].hardware = mem[m].hardware
      BY <1>1, <2>1, <2>4, PatchInAttempt
    <3>3. Rests(mem[m].hardware)
      BY <1>3, <2>1, <2>2, <2>4
    <3> QED BY <2>2, <3>1, <3>2, <3>3
  <2> QED BY <2>1, <2>3, <2>4
<1>10. CASE GetWorkflow(m)
  <2>1. /\ UNCHANGED <<tm, hw, box, wf, read>> /\ pc[m] = "getWorkflow"
        /\ \/ mem'[m] = mem[m]
           \/ mem'[m] = [mem[m] EXCEPT !.ready = TRUE] /\ wf[m].state = "done"
    BY <1>1, <1>10 DEF GetWorkflow
  <2>2. CASE mem'[m] = mem[m]
    BY <1>5, <2>1, <2>2
  <2>3. CASE mem'[m] = [mem[m] EXCEPT !.ready = TRUE] /\ wf[m].state = "done"
    <3>1. mem'[m].ready /\ mem'[m].hardware = mem[m].hardware
      BY <1>1, <2>3 DEF MachineRec
    <3>2. tm'[m].hardware = mem[m].hardware
      BY <1>1, <2>1 DEF MachineAgrees, Imaging
    <3>3. Rests(mem[m].hardware)
      BY <1>3, <2>1, <2>3
    <3> QED BY <3>1, <3>2, <3>3
  <2> QED BY <2>1, <2>2, <2>3
<1>11. CASE AddFinalizer(m)
  <2>1. /\ pc[m] = "addFinalizer" /\ pc'[m] = "idle"
        /\ tm'[m] = IF tm[m].exists THEN Patched(m, [mem[m] EXCEPT !.finalizer = TRUE])
                                    ELSE tm[m]
    BY <1>1, <1>11 DEF AddFinalizer
  <2>2. tm[m].exists
    BY <2>1
  <2> QED BY <1>4, <2>1, <2>2
<1>12. CASE RemoveFinalizer(m)
  BY <1>1, <1>12, PatchAtEnd DEF RemoveFinalizer, NoMachine
<1>13. CASE \/ ListAssigned(m) \/ ListFree(m) \/ ClaimRefused(m) \/ UserData(m)
            \/ CreateWorkflow(m) \/ MarkProvisioned(m)
  <2>1. UNCHANGED <<tm, mem, read>> /\ pc[m] \in Attempt
    BY <1>1, <1>13 DEF ListAssigned, ListFree, ClaimRefused, UserData, CreateWorkflow,
                       MarkProvisioned
  <2> QED BY <1>5, <2>1
<1>14. CASE CallFails(m) \/ Crash(m)
  <2>1. /\ UNCHANGED tm
        /\ pc'[m] = "idle" \/ (pc[m] \in Attempt /\ UNCHANGED <<mem, read>>)
    BY <1>1, <1>14 DEF CallFails, Crash
  <2> QED BY <1>5, <2>1
<1>16. CASE PatchFailsHalfway(m)
  <2>1. /\ pc[m] \in Attempt /\ tm[m].exists /\ pc'[m] = "idle"
        /\ tm'[m].deleting = tm[m].deleting
        /\ tm'[m].hardware \in {tm[m].hardware, mem[m].hardware}
        /\ tm[m].hardware # None => tm'[m].hardware = tm[m].hardware
        /\ tm'[m].ready # tm[m].ready =>
             mem[m].ready # read[m].ready /\ tm'[m].ready = mem[m].ready
    BY <1>1, <1>16, PatchHalfway DEF Attempt
  <2>2. ASSUME tm'[m].ready PROVE Rests(tm'[m].hardware)
    <3>1. CASE tm[m].ready
      <4>1. ReadyOn(m, tm[m].hardware)
        BY <1>1, <2>1, <3>1 DEF ReadyAgrees
      <4> QED BY <1>2, <2>1, <4>1
    <3>2. CASE ~tm[m].ready
      <4>1. /\ mem[m].hardware = tm[m].hardware
            /\ ReadyOn(m, tm[m].hardware)
        BY <1>1, <2>1, <2>2, <3>2 DEF ReadyAgrees
      <4> QED BY <1>2, <2>1, <4>1
    <3> QED BY <3>1, <3>2
  <2> QED BY <2>1, <2>2
<1>15. CASE GetHardware(m) \/ RemoveDependencies(m) \/ PowerOff(m) \/ Release(m)
  <2>1. pc[m] \in Deleting /\ UNCHANGED tm
    BY <1>15 DEF GetHardware, RemoveDependencies, PowerOff, Release
  <2> QED BY <1>1, <2>1 DEF MachineAgrees
<1> QED BY <1>6, <1>7, <1>8, <1>9, <1>10, <1>11, <1>12, <1>13, <1>14, <1>15, <1>16
        DEF Own, Worker

\* Images, Workflows and readiness agree in every reachable state.
THEOREM ReadyCorrect ==
  ASSUME Timely
  PROVE  Spec => []ReadyInv
<1>1. Init => ReadyInv
  <2>1. Init => \A m \in Machines : ReadyAgrees(m)
    BY DEF Init, ReadyAgrees, NoMachine
  <2> QED BY <2>1, ImageAtFirst DEF ReadyInv
<1>2. ReadyInv /\ [Next]_vars => ReadyInv'
  <2> SUFFICES ASSUME ReadyInv, [Next]_vars PROVE ReadyInv'
    OBVIOUS
  <2>1. ImageInv'
    BY ImageInvStep DEF ReadyInv
  <2>2. \A m \in Machines : ReadyAgrees(m)'
    BY ReadyStep
  <2> QED BY <2>1, <2>2 DEF ReadyInv
<1> QED BY <1>1, <1>2, PTL DEF Spec

\* A machine that is ready runs its own image on the Hardware it recorded, and
\* keeps doing so until it is deleted.
THEOREM ReadyIsImaged ==
  ASSUME Timely
  PROVE  Spec => []ReadyMachineIsImaged
<1>1. ReadyInv => ReadyMachineIsImaged
  BY DEF ReadyInv, ReadyAgrees, ReadyOn, ReadyMachineIsImaged
<1> QED BY <1>1, ReadyCorrect, PTL

\* No Workflow writes to Hardware that a ready machine runs on.
THEOREM ReadyIsNotReimaged ==
  ASSUME Timely
  PROVE  Spec => ReadyMachineIsNotReimaged
<1>1. ASSUME ReadyInv, [Next]_vars, NEW m \in Machines,
             tm[m].exists, ~tm[m].deleting, tm[m].ready, tm[m].hardware # None
      PROVE  box'[tm[m].hardware].image = box[tm[m].hardware].image
  <2>1. ReadyOn(m, tm[m].hardware) /\ OwnershipInv /\ ImageInv
    BY <1>1 DEF ReadyInv, ReadyAgrees, ImageInv
  <2>2. PICK h \in Hardware : h = tm[m].hardware /\ hw[h].owner = m
    BY <1>1, <2>1, LivingOwns
  <2>3. ReadyOn(m, h) /\ ReadyOn(m, h)'
    BY <1>1, <2>1, <2>2, LivingOwns, ReadyOnStays
  <2> QED BY <2>2, <2>3 DEF ReadyOn
<1>2. ReadyInv /\ [Next]_vars
        => [\A m \in Machines :
              tm[m].exists /\ ~tm[m].deleting /\ tm[m].ready /\ tm[m].hardware # None
                => box'[tm[m].hardware].image = box[tm[m].hardware].image]_vars
  BY <1>1
<1> QED BY <1>2, ReadyCorrect, PTL DEF Spec, ReadyMachineIsNotReimaged

-------------------------------------------------------------------------------
(***************************************************************************)
(* FreeHardwareIsOff.  A power-off Job has the name of its machine: where  *)
(* no owner reference takes it away with the machine, a second machine of   *)
(* the name finds the Job of the first, done, and its Hardware is released  *)
(* while it is on.  Hence one of the two is needed.                         *)
(***************************************************************************)
JobsAreOfThisLife == OwnerRefs \/ MaxBirths <= 1

\* A Job was created by the deletion under way, for the Hardware the machine
\* recorded; once it is done that Hardware is off, until it is released.
JobAgrees(m) ==
  /\ births[m] = 0 => ~tm[m].exists /\ pc[m] = "idle" /\ job[m].state = "none"
  /\ job[m].state # "none" => job[m].target # None
  /\ tm[m].exists /\ job[m].state # "none" =>
       /\ tm[m].deleting /\ job[m].target = tm[m].hardware
       /\ wf[m].state = "none" /\ pc[m] \notin Attempt
       /\ job[m].state = "done" /\ pc[m] # "removeFinalizer" => ~box[job[m].target].on
  /\ pc[m] = "release" /\ snap[m].name \in BMC => ~box[snap[m].name].on

\* The inductive invariant for power.
PowerInv == ImageInv /\ FreeHardwareIsOff /\ \A m \in Machines : JobAgrees(m)

\* The life of a power-off Job.
LEMMA JobStep ==
  ASSUME TypeOK, [Next]_vars, NEW m \in Machines, job'[m] # job[m]
  PROVE  \/ /\ PowerOff(m) /\ job[m].state = "none"
            /\ job'[m] = [state |-> "pending", target |-> snap[m].name]
            /\ pc'[m] = "idle"
         \/ CollectGarbage(m) /\ job'[m] = NoTask
         \/ /\ job[m].state = "pending" /\ PowerOffCompletes(m)
            /\ job'[m] = [job[m] EXCEPT !.state = "done"]
         \/ /\ job[m].state = "pending" /\ PowerOffFails(m)
            /\ job'[m] = [job[m] EXCEPT !.state = "failed"]
<1> USE DEF caches, boundVars
<1>1. job \in [Machines -> TaskRec] /\ pc \in [Machines -> Steps]
  BY DEF TypeOK
<1>2. ASSUME NEW x \in Machines, PowerOff(x)
      PROVE  /\ x = m /\ job[m].state = "none" /\ pc'[m] = "idle"
             /\ job'[m] = [state |-> "pending", target |-> snap[m].name]
  BY <1>1, <1>2 DEF PowerOff, Return, Goto
<1>3. ASSUME NEW x \in Machines, CollectGarbage(x)
      PROVE  x = m /\ job'[m] = NoTask
  BY <1>1, <1>3 DEF CollectGarbage
<1>4. ASSUME NEW x \in Machines, PowerOffCompletes(x)
      PROVE  x = m /\ job[m].state = "pending" /\ job'[m] = [job[m] EXCEPT !.state = "done"]
  BY <1>1, <1>4 DEF PowerOffCompletes
<1>5. ASSUME NEW x \in Machines, PowerOffFails(x)
      PROVE  x = m /\ job[m].state = "pending" /\ job'[m] = [job[m] EXCEPT !.state = "failed"]
  BY <1>1, <1>5 DEF PowerOffFails
<1>6. ASSUME NEW x \in Machines,
             \/ Reconcile(x) \/ ListAssigned(x) \/ ListFree(x) \/ ClaimRefused(x)
             \/ Claim(x) \/ UserData(x) \/ SetStatus(x) \/ GetWorkflow(x)
             \/ CreateWorkflow(x) \/ MarkProvisioned(x) \/ AddFinalizer(x)
             \/ GetHardware(x) \/ RemoveDependencies(x) \/ Release(x)
             \/ RemoveFinalizer(x) \/ CallFails(x) \/ PatchFailsHalfway(x) \/ Crash(x) \/ WorkflowFails(x)
             \/ WorkflowSucceeds(x) \/ CreateMachine(x) \/ DeleteMachine(x)
      PROVE  FALSE
  BY <1>6 DEF Reconcile, ListAssigned, ListFree, ClaimRefused, Claim, UserData,
              SetStatus, GetWorkflow, CreateWorkflow, MarkProvisioned, AddFinalizer,
              GetHardware, RemoveDependencies, Release, RemoveFinalizer, CallFails, PatchFailsHalfway, Crash,
              WorkflowFails, WorkflowSucceeds, CreateMachine, DeleteMachine
<1>7. CASE (\E g \in Hardware : DeleteHardware(g)) \/ SyncMachines \/ SyncHardware
           \/ UNCHANGED vars
  BY <1>7 DEF DeleteHardware, SyncMachines, SyncHardware, vars
<1> QED BY <1>2, <1>3, <1>4, <1>5, <1>6, <1>7
        DEF Next, Worker, Fault, Tinkerbell, Environment

\* Only a Workflow powers Hardware on, that of the machine that owns it.
LEMMA PowerStep ==
  ASSUME ImageInv, [Next]_vars, NEW h \in Hardware, box'[h].on, ~box[h].on
  PROVE  \E m \in Machines :
           /\ wf[m].state = "pending" /\ hw[h].owner = m
           /\ WorkflowSucceeds(m) \/ WorkflowFails(m)
           /\ UNCHANGED hw
<1> USE DEF caches, boundVars
<1>1. box \in [Hardware -> BoxRec]
  BY DEF ImageInv, OwnershipInv, TypeOK
<1>2. ASSUME NEW m \in Machines, WorkflowSucceeds(m) \/ WorkflowFails(m)
      PROVE  wf[m].state = "pending" /\ hw[h].owner = m /\ UNCHANGED hw
  <2>1. wf[m].state = "pending" /\ wf[m].target = h /\ UNCHANGED hw
    BY <1>1, <1>2 DEF WorkflowSucceeds, WorkflowFails
  <2> QED BY <2>1 DEF ImageInv, WorkflowAgrees
<1>3. ASSUME NEW m \in Machines, PowerOffCompletes(m) PROVE FALSE
  <2>1. box' = [box EXCEPT ![job[m].target] = [box[job[m].target] EXCEPT !.on = FALSE]]
    BY <1>3 DEF PowerOffCompletes
  <2> QED BY <1>1, <2>1 DEF BoxRec
<1>4. ASSUME NEW m \in Machines,
             \/ Worker(m) \/ CallFails(m) \/ PatchFailsHalfway(m) \/ Crash(m)
             \/ PowerOffFails(m) \/ Environment(m)
      PROVE  FALSE
  BY <1>4 DEF Worker, Reconcile, ListAssigned, ListFree, ClaimRefused, Claim, UserData,
              SetStatus, GetWorkflow, CreateWorkflow, MarkProvisioned, AddFinalizer,
              GetHardware, RemoveDependencies, PowerOff, Release, RemoveFinalizer, CallFails, PatchFailsHalfway,
              Crash, PowerOffFails, Environment, CreateMachine, DeleteMachine, CollectGarbage
<1>5. CASE (\E g \in Hardware : DeleteHardware(g)) \/ SyncMachines \/ SyncHardware
           \/ UNCHANGED vars
  BY <1>5 DEF DeleteHardware, SyncMachines, SyncHardware, vars
<1> QED BY <1>2, <1>3, <1>4, <1>5 DEF Next, Fault, Tinkerbell

\* Hardware that no Workflow of its owner is running on stays off.
LEMMA OffStays ==
  ASSUME ImageInv, [Next]_vars, NEW m \in Machines, NEW h \in Hardware,
         hw[h].owner = m, wf[m].state = "none", ~box[h].on
  PROVE  ~box'[h].on
BY PowerStep

\* Hardware becomes free only by the release that follows its power-off.
LEMMA OffStep ==
  ASSUME PowerInv, [Next]_vars
  PROVE  FreeHardwareIsOff'
<1> SUFFICES ASSUME NEW h \in BMC, hw'[h].exists, hw'[h].owner = None, box'[h].on
             PROVE  FALSE
  BY DEF FreeHardwareIsOff
<1>1. /\ h \in Hardware /\ hw[h] \in HardwareRec /\ TypeOK /\ CopiesAreCurrent
      /\ ImageInv /\ OwnershipInv
      /\ ~hw[h].exists => hw[h].owner = None
  BY HardwareAssumption DEF PowerInv, ImageInv, OwnershipInv, OwnedExists, TypeOK
<1>2. CASE hw'[h] # hw[h]
  <2>1. ASSUME NEW m \in Machines, snap[m].name = h, Release(m) PROVE FALSE
    <3>1. pc[m] = "release" /\ UNCHANGED box
      BY <2>1 DEF Release
    <3> QED BY <2>1, <3>1 DEF PowerInv, JobAgrees
  <2>2. ASSUME NEW m \in Machines, hw'[h] = [hw[h] EXCEPT !.owner = m] PROVE FALSE
    BY <1>1, <2>2, NoneAssumption DEF HardwareRec
  <2>3. ASSUME NEW m \in Machines, snap[m].name = h, UserData(m) \/ MarkProvisioned(m),
               \/ hw'[h] = [hw[h] EXCEPT !.userData = m]
               \/ hw'[h] = [hw[h] EXCEPT !.provisioned = TRUE]
        PROVE  FALSE
    <3>1. hw'[h].owner = hw[h].owner
      BY <1>1, <2>3 DEF HardwareRec
    <3>2. pc[m] \in {"userData", "markProvisioned"}
      BY <2>3 DEF UserData, MarkProvisioned
    <3>3. hw[h].owner = m
      BY <1>1, <2>3, <3>2, WorkerOwns DEF Imaging
    <3> QED BY <3>1, <3>3, NoneAssumption
  <2>4. CASE hw'[h] = IF hw[h].owner = None THEN [FreeHardware EXCEPT !.exists = FALSE]
                                            ELSE [hw[h] EXCEPT !.deleting = TRUE]
    BY <1>1, <2>4 DEF FreeHardware, HardwareRec
  <2> QED BY <1>1, <1>2, <2>1, <2>2, <2>3, <2>4, HardwareStep
<1>3. CASE hw'[h] = hw[h]
  <2>1. ~box[h].on
    BY <1>3 DEF PowerInv, FreeHardwareIsOff
  <2> QED BY <1>1, <1>3, <2>1, PowerStep, NoneAssumption
<1> QED BY <1>2, <1>3

\* A power-off Job belongs to the deletion that is under way, and when it is
\* done the Hardware stays off until it is released.
LEMMA JobAgreesStep ==
  ASSUME Timely, JobsAreOfThisLife, PowerInv, [Next]_vars, NEW m \in Machines
  PROVE  JobAgrees(m)'
<1> USE DEF caches, boundVars, Holding, Deleting, Goto, Return
<1>1. /\ MachineAgrees(m) /\ HolderOwns(m) /\ JobAgrees(m) /\ WorkerAgrees(m)
      /\ OwnershipInv /\ ImageInv /\ TypeOK
      /\ tm[m] \in MachineRec /\ job[m] \in TaskRec /\ tm \in [Machines -> MachineRec]
      /\ job \in [Machines -> TaskRec] /\ births \in [Machines -> 0..MaxBirths]
      /\ pc \in [Machines -> Steps]
      /\ pc[m] \in Holding => snap[m].name \in Hardware
      /\ None \notin Hardware /\ m # None
  BY NoneAssumption DEF PowerInv, ImageInv, OwnershipInv, TypeOK
<1>2. births'[m] = 0 => ~tm'[m].exists /\ pc'[m] = "idle" /\ job'[m].state = "none"
  <2> SUFFICES ASSUME births'[m] = 0
               PROVE  ~tm'[m].exists /\ pc'[m] = "idle" /\ job'[m].state = "none"
    OBVIOUS
  <2>1. ~CreateMachine(m)
    BY <1>1, BoundAssumption DEF CreateMachine
  <2>2. births[m] = 0
    BY <1>1, <2>1, BirthStep
  <2>3. ~tm[m].exists /\ pc[m] = "idle" /\ job[m].state = "none"
    BY <1>1, <2>2 DEF JobAgrees
  <2>4. tm'[m] = tm[m]
    BY <1>1, <2>1, <2>3, MachineStep, PatchHalfway DEF DeleteMachine
  <2>5. ~Own(m)
    BY <2>3 DEF Own, Worker, Reconcile, ListAssigned, ListFree, ClaimRefused, Claim,
              UserData, SetStatus, GetWorkflow, CreateWorkflow, MarkProvisioned,
              AddFinalizer, GetHardware, RemoveDependencies, PowerOff, Release,
              RemoveFinalizer, CallFails, PatchFailsHalfway, Crash, ReadMachine, Timely
  <2>6. pc'[m] = pc[m]
    BY <1>1, <2>5, OthersMemory
  <2>7. job'[m] = job[m] \/ job'[m] = NoTask
    BY <1>1, <2>3, JobStep DEF PowerOff
  <2> QED BY <2>3, <2>4, <2>6, <2>7 DEF NoTask
<1>3. job'[m].state # "none" => job'[m].target # None
  <2>1. CASE job'[m] = job[m]
    BY <1>1, <2>1 DEF JobAgrees
  <2>2. CASE PowerOff(m) /\ job'[m] = [state |-> "pending", target |-> snap[m].name]
    BY <1>1, <2>2 DEF PowerOff
  <2>3. CASE /\ job[m].state = "pending"
             /\ \/ job'[m] = [job[m] EXCEPT !.state = "done"]
                \/ job'[m] = [job[m] EXCEPT !.state = "failed"]
    <3>1. job'[m].target = job[m].target
      BY <1>1, <2>3 DEF TaskRec
    <3> QED BY <1>1, <2>3, <3>1 DEF JobAgrees
  <2> QED BY <1>1, <2>1, <2>2, <2>3, JobStep DEF NoTask
<1>4. ASSUME tm'[m].exists, job'[m].state # "none"
      PROVE  /\ tm'[m].deleting /\ job'[m].target = tm'[m].hardware
             /\ wf'[m].state = "none" /\ pc'[m] \notin Attempt
             /\ job'[m].state = "done" /\ pc'[m] # "removeFinalizer"
                  => ~box'[job'[m].target].on
  <2>1. ~CreateMachine(m)
    <3> SUFFICES ASSUME CreateMachine(m) PROVE FALSE
      OBVIOUS
    <3>1. job'[m] = job[m] /\ births[m] < MaxBirths /\ (OwnerRefs => job[m] = NoTask)
      BY DEF CreateMachine
    <3>2. ~OwnerRefs => births[m] = 0
      BY <1>1, <3>1, BoundAssumption DEF JobsAreOfThisLife
    <3> QED BY <1>1, <1>4, <3>1, <3>2 DEF JobAgrees, NoTask
  <2>2. tm[m].exists
    BY <1>1, <1>4, <2>1, MachineStep, PatchHalfway DEF DeleteMachine
  <2>3. ~CollectGarbage(m) /\ ~(RemoveFinalizer(m) /\ tm'[m] = NoMachine)
    BY <1>4, <2>2 DEF CollectGarbage, NoMachine
  <2>4. CASE job[m].state # "none"
    <3>1. /\ tm[m].deleting /\ job[m].target = tm[m].hardware /\ tm[m].hardware # None
          /\ wf[m].state = "none" /\ pc[m] \notin Attempt
          /\ job[m].state = "done" /\ pc[m] # "removeFinalizer" => ~box[job[m].target].on
      BY <1>1, <2>2, <2>4 DEF JobAgrees
    <3>2. tm'[m] = tm[m]
      <4>1. pc[m] # "addFinalizer"
        BY <3>1 DEF Attempt, Provisioning
      <4> QED BY <1>1, <2>1, <2>3, <3>1, <4>1, MachineStep, PatchHalfway DEF DeleteMachine
    <3>3. wf'[m].state = "none"
      <4>1. ~CreateWorkflow(m)
        BY <3>1 DEF CreateWorkflow, Attempt, Provisioning
      <4>2. NoTask.state = "none"
        BY DEF NoTask
      <4> QED BY <1>1, <3>1, <4>1, <4>2, WorkflowStep
    <3>4. \/ job'[m] = job[m]
          \/ /\ job[m].state = "pending" /\ PowerOffCompletes(m)
             /\ job'[m] = [job[m] EXCEPT !.state = "done"]
          \/ job'[m] = [job[m] EXCEPT !.state = "failed"]
      BY <1>1, <2>3, <2>4, JobStep
    <3>5. job'[m].target = job[m].target
      BY <1>1, <3>4 DEF TaskRec
    <3>6. pc'[m] \notin Attempt
      <4>1. CASE ~Own(m)
        BY <1>1, <3>1, <4>1, OthersMemory
      <4>2. CASE Own(m)
        BY <1>1, <3>1, <4>2 DEF Own, Worker, Reconcile, ListAssigned, ListFree, ClaimRefused,
              Claim, UserData, SetStatus, GetWorkflow, CreateWorkflow, MarkProvisioned,
              AddFinalizer, GetHardware, RemoveDependencies, PowerOff, Release,
              RemoveFinalizer, CallFails, PatchFailsHalfway, Crash, ReadMachine, Timely, Attempt, Provisioning
      <4> QED BY <4>1, <4>2
    <3>7. ASSUME job'[m].state = "done", pc'[m] # "removeFinalizer"
          PROVE  ~box'[tm[m].hardware].on
      <4>1. tm[m].hardware \in Hardware
        BY <1>1, <3>1 DEF MachineRec, Names
      <4>2. CASE PowerOffCompletes(m)
        <5>1. box' = [box EXCEPT ![tm[m].hardware] = [box[tm[m].hardware] EXCEPT !.on = FALSE]]
          BY <3>1, <4>2 DEF PowerOffCompletes
        <5> QED BY <1>1, <4>1, <5>1 DEF TypeOK, BoxRec
      <4>3. CASE ~PowerOffCompletes(m)
        <5>1. job[m].state = "done"
          BY <1>1, <3>4, <3>7, <4>3 DEF TaskRec
        <5>2. pc[m] # "removeFinalizer"
          <6> SUFFICES ASSUME pc[m] = "removeFinalizer" PROVE FALSE
            OBVIOUS
          <6>1. ~Own(m)
            BY <2>3, PatchAtEnd, <1>1, <1>4
               DEF Own, Worker, Reconcile, ListAssigned, ListFree, ClaimRefused, Claim,
              UserData, SetStatus, GetWorkflow, CreateWorkflow, MarkProvisioned,
              AddFinalizer, GetHardware, RemoveDependencies, PowerOff, Release,
              RemoveFinalizer, CallFails, PatchFailsHalfway, Crash, Timely
          <6> QED BY <1>1, <3>7, <6>1, OthersMemory
        <5>3. hw[tm[m].hardware].owner = m
          BY <1>1, <3>1, <5>2 DEF HolderOwns
        <5> QED BY <1>1, <3>1, <4>1, <5>1, <5>2, <5>3, OffStays
      <4> QED BY <4>2, <4>3
    <3> QED BY <3>1, <3>2, <3>3, <3>5, <3>6, <3>7
  <2>5. CASE job[m].state = "none"
    <3>1. /\ PowerOff(m) /\ pc'[m] = "idle"
          /\ job'[m] = [state |-> "pending", target |-> snap[m].name]
      BY <1>1, <1>4, <2>3, <2>5, JobStep
    <3>2. pc[m] = "powerOff" /\ UNCHANGED <<tm, wf>>
      BY <3>1 DEF PowerOff
    <3>3. tm[m].deleting /\ tm[m].hardware = snap[m].name /\ wf[m].state = "none"
      BY <1>1, <3>2 DEF MachineAgrees, HolderOwns, OnHardware, WorkerAgrees
    <3>4. job'[m].state = "pending" /\ job'[m].target = snap[m].name
      BY <3>1
    <3> QED BY <3>1, <3>2, <3>3, <3>4 DEF Attempt, Provisioning
  <2> QED BY <2>4, <2>5
<1>5. ASSUME pc'[m] = "release", snap'[m].name \in BMC
      PROVE  ~box'[snap'[m].name].on
  <2>1. CASE pc[m] = "release" /\ snap'[m] = snap[m]
    <3>1. snap[m].name = tm[m].hardware /\ wf[m].state = "none" /\ snap[m].name \in Hardware
      BY <1>1, <2>1 DEF MachineAgrees, HolderOwns, OnHardware, WorkerAgrees
    <3>2. hw[snap[m].name].owner = m
      BY <1>1, <2>1, <3>1 DEF HolderOwns
    <3>3. ~box[snap[m].name].on
      BY <1>1, <1>5, <2>1 DEF JobAgrees
    <3> QED BY <1>1, <2>1, <3>1, <3>2, <3>3, OffStays
  <2>2. CASE PowerOff(m)
    <3>1. pc[m] = "powerOff" /\ job[m].state = "done" /\ UNCHANGED <<snap, box>>
      BY <1>1, <1>5, <2>2 DEF PowerOff
    <3>2. snap[m].name = tm[m].hardware /\ tm[m].exists
      BY <1>1, <3>1 DEF MachineAgrees, HolderOwns, OnHardware, NoMachine
    <3> QED BY <1>1, <3>1, <3>2 DEF JobAgrees
  <2>3. CASE RemoveDependencies(m)
    BY <1>1, <1>5, <2>3 DEF RemoveDependencies
  <2>4. CASE ~Own(m)
    BY <1>1, <1>5, <2>1, <2>4, OthersMemory
  <2>5. CASE Own(m) /\ ~PowerOff(m) /\ ~RemoveDependencies(m)
    <3>1. pc'[m] # "release"
      BY <1>1, <2>5 DEF Own, Worker, Reconcile, ListAssigned, ListFree, ClaimRefused, Claim,
              UserData, SetStatus, GetWorkflow, CreateWorkflow, MarkProvisioned,
              AddFinalizer, GetHardware, Release, RemoveFinalizer, CallFails, PatchFailsHalfway, Crash
    <3> QED BY <1>5, <3>1
  <2> QED BY <2>2, <2>3, <2>4, <2>5
<1> QED BY <1>2, <1>3, <1>4, <1>5 DEF JobAgrees

\* Jobs, Workflows and the power of Hardware agree in every reachable state.
THEOREM PowerCorrect ==
  ASSUME Timely, JobsAreOfThisLife
  PROVE  Spec => []PowerInv
<1>1. Init => PowerInv
  <2>1. Init => FreeHardwareIsOff
    BY HardwareAssumption DEF Init, FreeHardwareIsOff
  <2>2. Init => \A m \in Machines : JobAgrees(m)
    <3> SUFFICES ASSUME Init, NEW m \in Machines PROVE JobAgrees(m)
      OBVIOUS
    <3>1. ~tm[m].exists /\ pc[m] = "idle" /\ job[m].state = "none"
      BY DEF Init, NoMachine, NoTask
    <3> QED BY <3>1 DEF JobAgrees
  <2> QED BY <2>1, <2>2, ImageAtFirst DEF PowerInv
<1>2. PowerInv /\ [Next]_vars => PowerInv'
  <2> SUFFICES ASSUME PowerInv, [Next]_vars PROVE PowerInv'
    OBVIOUS
  <2>1. ImageInv'
    BY ImageInvStep DEF PowerInv
  <2>2. FreeHardwareIsOff'
    BY OffStep
  <2>3. \A m \in Machines : JobAgrees(m)'
    BY JobAgreesStep
  <2> QED BY <2>1, <2>2, <2>3 DEF PowerInv
<1> QED BY <1>1, <1>2, PTL DEF Spec

\* Hardware with a BMC that is free to claim is off: it went through power-off
\* after the last Workflow that ran on it was removed.
THEOREM FreeIsOff ==
  ASSUME Timely, JobsAreOfThisLife
  PROVE  Spec => []FreeHardwareIsOff
<1>1. PowerInv => FreeHardwareIsOff
  BY DEF PowerInv
<1> QED BY <1>1, PowerCorrect, PTL
===============================================================================
