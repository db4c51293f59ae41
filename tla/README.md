# Verification of cluster-api-provider-tinkerbell

TLA+ models of the Cluster API infrastructure provider for Tinkerbell (CAPT),
the TLC runs that check them on small instances, and theorems about them that
TLAPS checks. Paths are relative to the repository; `machine/` stands for
`src/controller/machine/`.

To check a run: `tlc -config lifecycle_direct.cfg MCMachineLifecycle`.
To check the proofs: `tlapm MachineLifecycleProofs.tla` (and the other seven
`*Proofs.tla`).

## The system

CAPT runs on a management cluster and turns each `TinkerbellMachine` into an
installed physical machine. The `Hardware`, `Workflow`, `Template`, `Task` and
bmc `Job` objects live on the Tinkerbell cluster, which is the management
cluster itself (*local mode*) or another one (*external mode*). The components
share no memory; they meet in these objects.

| Component | Code | State | Operations |
|---|---|---|---|
| Machine controller | `machine/tinkerbellmachine.go`, `scope.go`, `hardware.go`, `bmc.go` | `TinkerbellMachine` (hardwareName, finalizer, status), owner labels, finalizer, user data and provisioned annotation of `Hardware`, the power-off `Job` | Reconcile: find or select Hardware, claim it, user data, status, Workflow, provisioned; delete: Workflow, power-off, release, finalizer |
| Hardware selection | `hardware.go` | none | affinity terms, weights, a total order |
| Workflow creation | `workflow.go`, `template.go` | `Workflow`, `Task`s, `Template` | find the template, choose Tasks or v1alpha1 compatibility mode, create and remove them in an order that survives a stop |
| IPAM | `ipam.go` | `IPAddressClaim`, the address on the Hardware | claim, wait, reserve, release, hand back |
| In-place recovery | `inplace_recovery.go` | an annotation, the Job `<machine>-inplace-recovery` | one power cycle for a stalled update |
| Namespace watches | `src/pkg/cluster/watch.go` | two maps, one goroutine per cache, a singleflight | EnsureWatch, StopWatch, StopAll |
| Cluster controller | `src/controller/cluster/` | owner reference, endpoint and ready of `TinkerbellCluster` | adopt, put the endpoint together, mark ready |
| Watches and mappers | `SetupWithManager`, `TinkerbellClusterToTinkerbellMachines` | the work queues | turn a change of one object into the keys of others |
| Webhooks, conversion | `src/webhooks`, `src/api/v1beta1` | none | validate, convert |
| Wiring, clients, rendering | `src/main.go`, `src/pkg` | none | flags, clients, text |

Interactions: the machine controller calls the others (selection, IPAM,
in-place recovery, watches) in the course of one Reconcile. Cluster API creates
and deletes `TinkerbellMachine`s and marks updates; Tinkerbell runs Workflows,
Rufio runs Jobs, an IPAM provider binds claims, the operator deletes Hardware.
All of them act between any two calls of a Reconcile.

What is hard: two machines that want the same Hardware; reads from caches that
lag; patches of which some carry a lock and some do not; a Reconcile that is cut
short and started again from the top; a deletion that spans many Reconciles; a
finalizer that is added last; claims whose name the next machine uses too;
goroutines that clean up after someone else has taken over; several objects that
must be created together by an attempt that may stop anywhere; returns that put
nothing back into the queue and count on an event. `PROJECT.json` lists
these hazards at their lines, each with the properties that would catch it.

What makes each component correct:

- *Machine controller*: Hardware has one owner, a machine has one Hardware; a
  machine that says it has Hardware has it; Hardware is given back clean and
  off; a ready machine runs its own image and is not installed over; nothing is
  left behind; deletion and provisioning end.
- *Selection*: all machines rank Hardware consistently with their terms.
- *Workflow creation*: whatever step fails and whatever changes before the
  retry, the machine ends with one Workflow that runs what one template says,
  nothing of another owner is touched, and deletion removes everything.
- *IPAM*: an address that is served is claimed; it never changes under a machine;
  deletion finds the claim and lets go of it.
- *Cluster controller, watches*: a ready endpoint is kept; a machine that can go
  on is woken up.
- *In-place recovery*: one power cycle per stalled update, not two, not none.
- *Watches*: nil means watched, and stays true; no cache is lost.

## The modules

`MachineLifecycle` - the machine controller. One worker per machine name, as
the work queue gives it, and one action per call to an API server. `tm` is what
the server has, `tmSeen` what the informer shows; likewise `hw` and `hwSeen`;
`hwCurrent` are the Hardware whose cached resourceVersion is the server's. A worker has the object
it read (`read`), the object it has changed in memory (`mem`; the difference of
the two is the patch, `Patched`), and its copy of the Hardware (`snap`), whose
resourceVersion is the server's as long as the worker is in `fresh`: that is
the whole of the optimistic lock. `ClaimRefused`, `Claim` and `Release` look at
`fresh`, `UserData` and `MarkProvisioned` do not, as in the code.

| Action | Code |
|---|---|
| `Reconcile` | `tinkerbellmachine.go:94` |
| `ListAssigned`, `ListFree` | `hardwareForMachine`, `assignedHardware` |
| `Claim`, `ClaimRefused`, `UserData` | `takeHardwareOwnership`, `ensureHardware`, `ensureHardwareUserData` |
| `SetStatus`, `GetWorkflow`, `CreateWorkflow`, `MarkProvisioned` | `setStatus`, `ensureWorkflow`, `reconcile`, `patchHardwareAnnotations` |
| `AddFinalizer` | the deferred `addFinalizer` of `scope.Reconcile` |
| `GetHardware` ... `RemoveFinalizer` | `DeleteMachineWithDependencies` |
| `CallFails`, `Crash` | an error return (the deferred call still runs); a process that stops |
| `PatchFailsHalfway` | the last patch sends spec and status apart, and one of the two is lost |
| the rest | Cluster API, the garbage collector, Tinkerbell, Rufio, the operator, the informers |

`HardwareLease` - the promise: Hardware is leased to one machine at a time, a
machine registers what it holds, and only a machine that is leaving gives its
Hardware back, before it goes. `MachineLifecycle!Lease` maps the owner labels,
hardwareName together with the finalizer, and the deletion timestamp to it.

`WorkflowCreation` - one machine and its worker with the Tasks, the Template and
the Workflow of its name. `GetWorkflow` ... `CreateWorkflow` are the calls of
`ensureWorkflow` and `createWorkflow` in their order, `RemoveTemplate` ...
`RemoveWorkflow` those of `removeDependencies`; `plan` is the form the attempt has
chosen and `todo` the Tasks of the loop it is in. `setup` is what users and
operators configure: the template at the three levels, the boot options, the
disks of the Hardware. A template that is there but empty (`Empty`) counts as
none, and the next level is asked. `served` says whether Tinkerbell still has the Template
CRD. What a template converts to is a constant, `Needs`. In `MachineLifecycle`
all of this is the one step `CreateWorkflow`.

`ClusterGate` - from the queue to the point where `scope.Reconcile` is called. The
actions before `Machine controller` are the `TinkerbellCluster` controller, one
per call; then the looks of a machine's worker (`StartMachine`, `LookAtCluster`,
`GetSecret`, `GetReady`), which end in a return, a retry or `passed`. `Sync...`
move an object into its informer's cache, `Handle...` run the mappers of the
watches later, on the caches as they are then; `woken` are the machines that such
handlers have yet to name. A `TinkerbellCluster` comes with the label of its
cluster or without (`UserClusters`), and without it nobody adopts it. `Merged` is
the merge patch: it writes what differs from the copy read, over what is there.
`EditsInFlight` says whether users may edit the Cluster's endpoint while a copy of
the `TinkerbellCluster` is out of date; nothing in the code keeps them from it.
`Resync` is the resync of the informers, taken only when everything rests, so that
no property owes its truth to it by accident: `NoLostWakeup` is about the states
before. It is controller-runtime's default of ten hours: `--sync-period` is parsed
(`src/main.go:365`) and never read.

`IPAMClaim` - `addressFromPool` in its whole life: `EnsureHardware` (one step
here), `GetClaim` ... `SetStatus` for `reconcileIPAM` and `setStatus`,
`GetHardware` ... `RemoveFinalizer` for the deletion, with `Release` for the
part of `releaseHardware` that clears the address. The claim's name is made of
the Hardware and the pool and not of the machine, as in `ipAddressClaimKey`, so
that the claims of two machines in turn collide. `held` is the address on the
worker's copy of the Hardware, which decides whether there is anything to
reserve; `External` whether a Get with an empty name is an error. `asked` is the pool in the copy
of the machine the worker has read. Users edit the pool of a machine as v1beta2
clients (`EditPool`) or as v1beta1 clients, which know it only as part of an
annotation (`ConvertMachineFromHub`, `ConvertMachineToHub`); every update passes
`ValidateUpdate`, and so does the controller's own patch.

`InPlaceRecovery` - one machine, its worker, Cluster API with the update and the
`UpToDate` condition written apart, the Job, the node and the clock.

`NamespaceWatch` - each section of `EnsureWatch` under `m.mu`, the singleflight
(lead, or wait for the leader's answer), the calls of `startAndRegister`, the
recording and, as a step of its own, the return to those who wait; and each cache's goroutine with the moment between its look at the context and its
delete from the map.

`MC*` give the constants of the runs. `*Proofs` hold the theorems. Operators
whose comment begins with "A slip" are the modelled definitions with a plausible
error; each shows that a property can tell the difference (`PROJECT.json`,
"mutants").

## The runs

| Run | What it asks |
|---|---|
| `lifecycle_direct` | External mode, two machines and two Hardware, one with a BMC and one that the operator may delete, one fault anywhere but at `removeFinalizer`; Workflows and Jobs may fail. All safety properties, `ImplementsLease`, and that deleted machines go and the others get ready. |
| `lifecycle_stale` | Both caches lag, one Hardware for two machines. Claims stay exclusive. |
| `watch` | Two workers, one namespace, three cache starts, clock to 4 with back-off 1 to 3. Also that nobody waits for ever: deadlock is checked. |
| `inplace` | Two updates, timeout 2, clock to 4, two faults, lagging cache. |
| `ipam` | Two machines, one Hardware, two pools of which one is exhausted, two addresses, two faults or writes of others; claims are deleted and pools edited by users, but not while the machine's first Reconcile is under way. |
| `workflow` | External mode: one machine, two contents that need overlapping Tasks, one that does not convert and one that is empty, every level a template may come from, two edits, two faults, another owner's Tasks (not between the two looks at them), the Template CRD dropped at any moment. |
| `gate` | One machine and its cluster, four caches that lag one by one, endpoints in either object, with the cluster's label and without, one pause, one failed call. Whether a machine that can go on is woken up without a resync, and gets through with it; whether a ready endpoint stays when users edit the Cluster's only while no copy is out of date. |

These are expected to fail, each because the code does what its comment excludes
(`PROJECT.json`, "findings"):

| Run | What it shows |
|---|---|
| `release_retried` | After a stop between `releaseHardware` and `removeFinalizer`, the retry releases the Hardware of another machine (`FreeHardwareIsClean`). |
| `deleted_before_finalizer` | A machine deleted in its first Reconcile leaves its Hardware claimed (`OwnerExists`). |
| `watch_dies` | A cache that stops before it is recorded is recorded all the same (`WatchedNamespaceIsAlive`). |
| `endpoint_edited` | A user who gives the Cluster an endpoint while the controller works on a copy from before ready has a ready endpoint changed (`ReadyEndpointIsKept`, whose guard `tinkerbellcluster.go:171` sees only the copy). |
| `inplace_second_update` | The second stalled update gets no power cycle (`LaterUpdateHasABudget`). |

Bounds. Two machines are what contention takes where machines are read as they
are: every property relates at most two machines and one Hardware, or two
Hardware and one machine, and the theorems below say the same for any number.
With a cache of machines that lags a third one matters (`stale_deletion.cfg`);
`lifecycle_stale` checks there only what is proved for every number too. Each name is
created once (`MaxBirths`), so a machine that comes back under an old name is
outside the runs, and with it a power-off Job left over from its earlier life
(the theorems take no bound on births; what they assume instead is below).
One fault at any call reaches every place where a Reconcile can be cut
short; two in `ipam` and `inplace`, where the first moves the interesting case
past the first retry, and in `workflow`, where the second cuts the retry short as
well. Three caches let a start fail, be replaced, and fail again. The safety
properties of `ipam` hold with two Hardware and one fault too. In `workflow` two
Tasks make a set that can be half there, and two edits lead there and back. The
machines of `gate` share nothing that they write, so one stands for all. `CHECK_DEADLOCK FALSE`
is set where machines, updates or faults run out and the system rests.

What the properties do *not* survive, as TLC shows on variations of the runs.
Five of the variations are kept as configurations of their own:

- `deleted_without_hardware.cfg` (`MCMachineLifecycle`, `EveryDeletedMachineGoes`): in
  external mode a machine deleted before it got Hardware never goes. The direct
  client answers a Get with an empty name with an error of its own and not with
  NotFound, and `DeleteMachineWithDependencies` (`scope.go:317`) returns it.
  `DeletedMachineGoes` leaves these machines out in external mode;
  `ReleasedMachineGoes` is checked without `External`.
- `pool_edited.cfg` (`MCIPAMClaim`, `DeletionFindsTheClaim`): the webhook freezes
  `addressFromPool` once hardwareName is stored, but the claim is created earlier
  in the same Reconcile. A pool edited in between leaves the claim under a name
  that nobody looks for again (`tinkerbellmachine_webhook.go:68-70`: "changing the
  pool would orphan it").
- `workflow_left_behind.cfg` (`MCWorkflowCreation`, `NothingIsLeftBehind`): with
  caches that lag, as in local mode, deletion takes the NotFound of a cache for
  "already removed" (`workflow.go:311`) and leaves the Workflow or the Template
  the last attempt created. Where it has an owner reference the garbage
  collector takes it later, when the Hardware has been given back.
- `stale_deletion.cfg` (`MCMachineLifecycle`, `ReadyMachineIsImaged`): the cache of
  `TinkerbellMachine`s still shows as being deleted a machine that has released
  its Hardware and gone. Its deletion, started again from that cache, reads the
  Hardware by name, which the second machine has claimed since, and releases it;
  the third claims and installs it while the second is ready. It takes three
  machines and no fault, and has the cause of `release_retried`: deletion finds
  Hardware by name and does not ask who owns it.
- `lifecycle_local.cfg` passes (`MCMachineLifecycle`): local mode with a Hardware
  cache that lags, machines read as they are, and the garbage collector. A
  machine may claim a second Hardware; still what it recorded is its own, free
  Hardware is clean and off, and a ready machine runs its image and is not
  installed over. The theorems below cover this mode with the other.

And further:

- `OneHardwarePerMachine` needs Hardware reads without lag: a machine whose cache
  does not show its claim takes a second Hardware. `MachineGetsReady` fails then
  too: the webhook refuses the second name for ever.
- With a lagging cache of `TinkerbellMachine`s, `RecordedHardwareIsOwned`,
  `FreeHardwareIsClean`, `FreeHardwareIsOff` and
  `HardwareReleasedBeforeMachineGoes` fail: a worker provisions for a machine
  that is already gone. `ReadyMachineIsImaged` fails with three machines, as above, and
  with it `ReadyMachineIsNotReimaged`. `lifecycle_stale` therefore checks
  exclusive claims only.
- With a Hardware cache that lags, a machine created again under an old name takes
  the owner label of its predecessor, which the cache still shows, for its own,
  and `RecordedHardwareIsOwned` fails.
- In external mode nothing collects the power-off Job of a machine that is gone. A
  machine created again under its name finds that Job done (`bmc.go:77`), and its
  Hardware is given back running: `FreeHardwareIsOff` fails.
- A conflict on the claim's finalizer restarts the deletion after the release,
  with the effect of `release_retried` and no fault at all. The machine whose
  Hardware is given back under it takes another one and a claim for that, which
  its deletion does not find: `DeletionFindsTheClaim` and
  `ClaimIsReleasedBeforeMachineGoes` speak of the Hardware a machine has recorded.
- A user that takes the pool away from a machine (`None` among `Edits`) while a
  deletion is being retried leaves the address on free Hardware.
- A machine that has its finalizer but no Hardware yet, claims one, cannot patch
  hardwareName and is deleted: deletion finds no name.
- `OthersTasksAreLeftAlone` needs other owners kept out between `taskConflict` and
  `ensureTasks` (`Intrusions`): the second does not look again.
- `ReadyEndpointIsKept` needs `~EditsInFlight`; the run `endpoint_edited` is this
  variation.
- `RunningCachesAreKept` needs no cache to stop by itself. One that stops while it
  is being synced is given up, the next EnsureWatch records another, and then the
  goroutine of the first forgets the namespace (`watch.go:240` does not ask whose
  cache is kept): the second runs on, and nothing can stop it.
- A caller may join a call whose leader has recorded its cache and has not returned
  yet. A `StopWatch` between the two lets it return nil for a namespace that is not
  watched. `SuccessMeansEstablished` therefore speaks of the moment the leader
  decides. Production code calls neither `StopWatch` nor `StopAll`.
- A Cluster that the cache does not have is no error for the `TinkerbellCluster`
  controller, and its creation is no event for it: only a change of another
  object or `Resync` helps. `NoLostWakeup` is therefore about machines, and
  `MachineProceeds` owes what it says of such a Cluster to `Resync`.

## Fairness

`MachineLifecycle!Fairness`: each worker is weakly fair, since the queue retries
on errors with back-off, on `RequeueAfter` and on the watch events set up in
`SetupWithManager`; informers catch up; Tinkerbell and Rufio finish what they are
given, well or badly. `errWorkflowFailed` is final in the code, and a failed
power-off Job is waited for without end: `MachineGetsReady` and
`DeletedMachineGoes` name these outcomes, and a machine for which no Hardware is
left (`NothingLeft`). `FairIPAMSpec` adds that
the IPAM provider lets go of a claim that is deleted and answers one it can
answer. `FairWorkflowSpec` has the worker alone: an error puts the machine back, and
templates, Tasks of others and edits come as they like. `FairGateSpec` has the two
work queues, each informer and each handler, and `Resync`; nothing that users and
Cluster API do has to happen, so `MachineProceeds` is a promise only to machines
that have everything. `FairRecoverySpec` assumes the worker and the cache only: neither the node nor
the update has to come to an end.

No fairness rests on `--sync-period`: the flag is dead (`src/main.go:365`; the
manager's options at `src/main.go:118-137` set no `Cache.SyncPeriod`), although
`docs/superpowers/specs/2026-09-06-ipam-design.md:194` counts on it. Where a return puts
nothing back and no event is sure to come, it is controller-runtime's default resync
of ten hours that helps: `Resync` in `ClusterGate`, and in `FairRecoverySpec` the
Reconcile after the timeout of an update. "Eventually" may mean ten hours there.

Fairness is of a worker as a whole and not of
its steps, because a worker has one next call at a time.

## The proofs

| Theorem | Says |
|---|---|
| `TypeCorrect` | `Spec => []TypeOK`, with the fact that a worker at a step on Hardware holds one |
| `CopiesCorrect` | a copy that counts as current, a worker's or the cache's, equals the server's |
| `ExclusiveClaims` | `Spec => OwnershipPassesThroughNone`, in both modes, with every lag and fault |
| `OneHardware` | (D) `Spec => []OneHardwarePerMachine` |
| `OwnershipCorrect` | (T) `Spec => []OwnershipInv`, on which the next nine rest |
| `RecordedIsOwned` | (T) `Spec => []RecordedHardwareIsOwned` |
| `ReleasedBeforeItGoes` | (T) `Spec => HardwareReleasedBeforeMachineGoes` |
| `FreeIsClean` | (T) `Spec => []FreeHardwareIsClean` |
| `LeaseImplemented` | (T, D) `Spec => ImplementsLease`, the refinement of `HardwareLease` |
| `ReadyCorrect`, `ReadyIsImaged` | (T) `Spec => []ReadyInv`, and from it `[]ReadyMachineIsImaged` |
| `ReadyIsNotReimaged` | (T) `Spec => ReadyMachineIsNotReimaged` |
| `PowerCorrect`, `FreeIsOff` | (T, J) `Spec => []PowerInv`, and from it `[]FreeHardwareIsOff` |
| `LeaseIsExclusive`, `LeaseCommitmentsHold` | what the lease promises |
| `RecoveryTypeCorrect`, `OneCycle` | in-place recovery: `RecoveryTypeOK`, `OneCyclePerUpdate` |
| `GateTypeCorrect` | `GateSpec => []GateTypeOK`: a TinkerbellCluster that is ready has a valid endpoint |
| `WakeupsAreKept` | `GateSpec => []NoLostWakeup` |
| `EndpointIsKept` | (C) `GateSpec => ReadyEndpointIsKept` |
| `WatchCorrect`, `WatchTypesCorrect` | `WatchSpec => []WatchInv`, and from it `[]WatchTypeOK` |
| `NoCacheIsLost` | `WatchSpec => []RunningCachesAreKept` |
| `SuccessIsEstablished` | `WatchSpec => SuccessMeansEstablished`: nil is decided only over a cache with all its watches, and handed on only from such a decision |
| `IPAMTypesCorrect` | `IPAMSpec => []IPAMTypeOK` |
| `IPAMCorrect` | (S) `IPAMSpec => []IPAMInv`, on which the next five rest |
| `ReservedIsClaimed`, `FreeHasNoAddress`, `DeletionFinds` | (S) `[]ReservedAddressIsClaimed`, `[]FreeHardwareHasNoAddress`, `[]DeletionFindsTheClaim` |
| `ClaimIsReleased`, `AddressIsKept` | (S) `ClaimIsReleasedBeforeMachineGoes`, `RunningMachineKeepsItsAddress` |
| `WorkflowTypesCorrect` | `WorkflowSpec => []WorkflowTypeOK` |
| `WorkflowCorrect` | (E) `WorkflowSpec => []WorkflowInv`, on which the next four rest |
| `WorkflowHasItsTasks`, `WorkflowHasOneForm`, `RemovalIsComplete` | (E) `[]NativeWorkflowHasItsTasks`, `[]OneFormOfWorkflow`, `[]NothingIsLeftBehind` |
| `OthersTasksAreKept` | (E) `WorkflowSpec => OthersTasksAreLeftAlone` |

They hold for any sets of machines, Hardware, hosts, ports, endpoints, workers,
namespaces, pools, addresses, contents and Tasks, any bounds and any set of fault
points, from the `ASSUME`s of the modules: `None` is none of the named things,
`Rank` is total on Hardware, the constants have their types, external mode has
neither owner references nor a Hardware cache, what users write as an endpoint is
one (`EndpointAssumption`), with any part left out, and a content needs named
Tasks. The marked ones assume more, which is where the code needs more:

- D: `~HardwareCacheLags`. With the cache, a machine that does not see its claim takes
  a second Hardware.
- T, `Timely`: machines are read as the server has them, nothing fails between the
  release and the removal of the machine's finalizer, and where the Hardware cache
  lags no name of a machine comes back. Each part has its counterexample above:
  `stale_deletion.cfg`, `release_retried`, and the label of the predecessor. It does
  not fix the mode: external mode and local mode both satisfy it, and faults
  are allowed at every other call.
- J, `JobsAreOfThisLife`: Jobs have owner references or no name comes back.
- S, `Settled`: no user edits the pool during the Reconcile that creates the claim
  (`pool_edited.cfg`) and none takes it away (`None` among `Edits`).
- C, `~EditsInFlight`: users give the Cluster its endpoint before the
  `TinkerbellCluster` names a host, or when it is ready and no copy of it is out of
  date (`endpoint_edited`). The caches and copies may be as old as they like otherwise.
- E, `External`: reads are not behind (`workflow_left_behind.cfg`) and nobody takes
  the name of a Task between `taskConflict` and `ensureTasks`.

The hypotheses of each are met by the constants of a passing run that checks the
property: `lifecycle_direct` for T, D and J, `ipam` for S, `gate` for C, `workflow` for E. T and J without D
are the constants of `lifecycle_local.cfg`. `RunningCachesAreKept` itself speaks of runs in which no
cache has stopped by itself; what becomes of the others is `watch_dies`.

The arguments. *Type*: one lemma for each action, with a step for each variable
it writes. `TypeOK` says nothing of who owns what, so it is inductive by itself.
*Copies*: `TypeOK` alone does not say what `fresh` means. `CopiesAreCurrent`
(`m \in fresh` implies `snap[m].copy = hw[snap[m].name]`, and the cache's copy of
Hardware in `hwCurrent` is the server's) is the strengthening; every write takes
the other holders out of `fresh`, which is what a new resourceVersion does.
*Exclusive claims* then follows without a further invariant: `Claim` writes an
owner only over a current copy without one, and nothing else sets one. *One
Hardware* needs more than the present state of the labels: a worker that has
found no Hardware of its own must still have none when it claims. The
invariant `OneHardwareInv` adds that the machine of a worker at `listFree`, or at
`claim` with Hardware it does not own yet, owns none. It holds because only the
machine's own worker claims for it and a list without lag sees what it claimed.
That Hardware that is gone has no owner (`OwnedExists`) holds in every mode.

*Ownership* (`OwnershipInv`): what a machine has recorded is its own until its
worker has released it, and what its worker holds is its own from the claim on
(`HolderOwns`). The machine on the server and the worker's copy of it differ all the
time, so `MachineAgrees` says by how much: a deletion works with the present
machine, an attempt may be overtaken by a deletion and has in memory at most a
hardwareName more. A cache of Hardware that lags adds `CacheAgrees`: what it shows as
a machine's own is, unless that machine is `Retired` and will not look again;
hence the condition on names that come back. `Release` is by name and safe
because the machine that releases recorded the name and no other Reconcile stands
between it and the finalizer. `FreeIsClean` needs no invariant beyond this one: user data
and annotation are written by a worker that owns the Hardware, and the release
clears both.

*The lease*, step by step: under the mapping `Claim` is an `Acquire`, and `OneHardware`
is its guard; the first patch that leaves a machine with its finalizer and a
hardwareName is a `Register` (`RegisterStep`: the patch of the status or that of the
finalizer, in either order with a failure between them, and each time the
invariant says who owns that Hardware); `DeleteMachine` is `StartLeaving`, `Release`
is `GiveBack`, the patch that takes the finalizer away is `Leave`, and all other
steps stutter.

*Images* (`ImageInv`): a Workflow's target belongs to its machine, and what it has
written carries that machine's image. Where Hardware is read as it is, marked
Hardware carries its owner's image and a worker on its way to a Workflow holds
Hardware that is not marked. With a cache that is behind neither holds: a worker may
miss the annotation. What saves it is the Workflow, which it looks at next.
`LocalAgrees` says that until its deletion works a machine has one Workflow, on
the Hardware it recorded, and that without it nothing of its Hardware is marked.
*Readiness* (`ReadyInv`): a machine that is ready, or whose worker is about to
say so, rests on Hardware that carries its image and is marked or has the finished
Workflow; so no Workflow that still writes can have that target. *Power*
(`PowerInv`): a Job belongs to the deletion under way and is for the Hardware the
machine recorded; by then the machine's Workflow is gone, so nothing turns the
Hardware on again before the release.

*In-place recovery*: one cycle rests on the name of the Job: one Job per machine
name, so at most one creation over all updates; this is also why
`LaterUpdateHasABudget` fails.

*The gate*: `CopiesAgree` says that what the caches and a worker show of the
Cluster and of the TinkerbellCluster (there is one, it is owned, ready, has a
valid endpoint) has not been undone since. Even the type invariant needs it:
`SetReady` leaves the endpoint alone when what it puts together is what it read,
and that is valid only if the one it read has not been taken back. *Wakeups*: a
return that puts nothing back has a reason in the caches, and the reason goes
only with a step that leaves a key or an event; for the event of a TinkerbellCluster
this needs that the caches show its owner by the time they show it ready
(`CopiesAgree`), since its handler wakes nobody otherwise. *Endpoints*: the
action property is about one `SetReady`, but what that writes depends on reads made
long before. `EndpointsAgree` is about every endpoint a Reconcile may still put
together from the copies that are around (`Ours`, `Theirs`): before ready all of
them are the same or none, after it all are the one there is. Two steps of the environment
add an endpoint. `ProvisionCluster` keeps this because it adds the one that is
there, `SetClusterEndpoint` because of the hypothesis, and only because of it.

*Watches* (`WatchInv`): between the second look at the map and the recording a
leader's namespace has no cache (`CallAgrees`); that is what the singleflight is
for, because nobody else records one for it. A cache that is recorded is of its
namespace and has its watches (`CachesAgree`), so a leader decides for nil only over such a cache. A caller
that waited gets the leader's answer.

*IPAM* (`IPAMInv`): the name of a claim is made of the Hardware and the pool, so
everything turns on the worker, the machine and its claims having the same pool
(`PoolAgrees`), hence on `Settled`. `HardwareAgrees` says that a copy that counts as
current shows Hardware that is still the machine's; the reservation is written over
such a copy, so an address goes only on Hardware of the machine that claimed it.
`ClaimAgrees` says that a claim a machine controls carries CAPT's finalizer until
the machine retires, so the address between `getAddress` and `reserve` stays the
claim's whatever users and providers do.

*Workflows* (`WorkflowInv`): one conjunct for each thing the code has looked at and
counts on later. `PlanAgrees` ties the form chosen to the step the worker is at,
`TasksAgree` says which Tasks are made, free or gone at each place of the loops,
`TemplateAgrees` that no Template stands beside Tasks. An attempt that is cut short
forgets its plan and leaves Tasks or a Template behind; the next one may choose
the other form, and the invariant asks no more of it than what it looks at
again before it creates the Workflow.

Only model-checked: liveness, that is `DeletedMachineGoes`, `MachineGetsReady`,
`MachineProceeds`, `ReleasedMachineGoes`, `WorkflowIsCreated`, `RemovalEnds` and
`FirstStalledUpdateIsCycled`. Liveness under fairness and `ENABLED` are out of the
prover's reach and stay with TLC; so would be anything computed by recursion over
data, of which these modules have none. Every invariant and action property of a
passing run has its theorem.

## Not modelled

Template rendering and what a template converts to, conversion between API
versions other than of the pool, defaulting and validation other than of
hardwareName and the pool, client construction, flags: see the components in
`PROJECT.json`. Inside the modelled parts:

- affinity terms (a constant order instead), IPv6, conditions and the patch of the
  paused condition, the pause annotation of a single object (`ClusterGate` has the
  Cluster's), Clusters that are deleted;
- caches that lag beyond those named: of claims in `IPAMClaim` (`GetAddress` reads the
  claim as it is), of Workflows and Jobs in `MachineLifecycle`, which local mode
  reads through caches too, and of all in `WorkflowCreation` but for the one variation;
- the two requests of a patch, spec and status, in `ClusterGate!SetReady` (they are
  two in `MachineLifecycle`). When the first, with the endpoint, is lost and the
  second is not, a `TinkerbellCluster` is ready without an endpoint
  (`tinkerbellcluster.go:233`), and `GateTypeOK` says the contrary: it holds only of
  patches that go through as a whole or not at all.

Conversion and selection have been left to the repository's tests on purpose: they are
functions of one or two objects without state, which the fuzz and table tests
cover, and a model would repeat them field by field.

## Plan

Done: `MachineLifecycle`, `HardwareLease`, `NamespaceWatch`, `InPlaceRecovery`,
`IPAMClaim` with pools and their edits, `WorkflowCreation`, `ClusterGate`; the proofs
of all their safety properties and of the refinement.

Next, in this order:

1. What is left of ownership where the cache of `TinkerbellMachine`s lags: which
   weaker property holds of recorded Hardware there, and its proof.
2. A lease that lets a machine hold two Hardware, as in local mode, refined without
   `~HardwareCacheLags`.
3. A claim cache that lags in `IPAMClaim` (`ipam.go:207`), and which of the
   theorems survive it.
4. The spec and the status patch of `ClusterGate!SetReady` as two steps.
