---------------------------- MODULE InPlaceRecovery ----------------------------
(***************************************************************************)
(* reconcileInPlaceRecovery: the worker of a provisioned machine offers it *)
(* one power cycle when an in-place update has stalled                     *)
(* (src/controller/machine/inplace_recovery.go).                           *)
(*                                                                         *)
(* The module follows one machine: its worker, Cluster API, which marks    *)
(* the Machine with the update and with the UpToDate condition, Rufio, the *)
(* node and the clock.  A worker's step is one call to an API server.      *)
(***************************************************************************)
EXTENDS Naturals

CONSTANTS
  Timeout,     \* DefaultInPlaceRecoveryTimeout
  MaxTime,     \* bound on the clock
  MaxUpdates,  \* bound on the in-place updates of the machine
  MaxFaults,   \* bound on the calls that fail
  CacheLags    \* the manager's cache, which all is read from, may be behind

ASSUME RecoveryAssumption ==
  /\ {Timeout, MaxTime, MaxUpdates, MaxFaults} \subseteq Nat
  /\ CacheLags \in BOOLEAN

VARIABLES
  machine,   \* the owning Machine and the annotation on the TinkerbellMachine
  seen,      \* the cache's copy of both
  bmc,       \* hasBMC of its Hardware
  job,       \* the bmc Job <machine>-inplace-recovery
  up,        \* whether the node is up
  pc,        \* the call the worker makes next
  attempted, \* the annotation as Reconcile read it
  started,   \* how many updates have been started
  issued,    \* for each update, the Jobs that were created during it
  faults,
  clock

recoveryVars == <<machine, seen, bmc, job, up, pc, attempted, started, issued, faults,
                  clock>>
history == <<started, issued>>
environment == <<seen, bmc, up, clock>>

Never == MaxTime + 1
Updates == 1..MaxUpdates

\* update: the one in progress, 0 without UpdateInProgressAnnotation.
\* since: when the UpToDate condition became False.
MachineState == [update : 0..MaxUpdates, since : 0..Never, marker : BOOLEAN]

RecoveryInit ==
  /\ machine = [update |-> 0, since |-> Never, marker |-> FALSE]
  /\ seen = machine
  /\ bmc \in BOOLEAN
  /\ job = "none"
  /\ up = TRUE
  /\ pc = "idle"
  /\ attempted = FALSE
  /\ started = 0
  /\ issued = [u \in Updates |-> 0]
  /\ faults = 0
  /\ clock = 0

Read == IF CacheLags THEN seen ELSE machine

\* inPlaceUpdateStalledFor: without a start time nothing is stalled.
Stalled(m) == m.since # Never /\ clock >= m.since + Timeout

-------------------------------------------------------------------------------
\* Reconcile reads the TinkerbellMachine.  Its Hardware is provisioned, so it
\* comes to reconcileInPlaceRecovery.
Reconcile ==
  /\ pc = "idle"
  /\ attempted' = Read.marker
  /\ pc' = "look"
  /\ UNCHANGED <<machine, job, faults, history, environment>>

\* A slip: whether the Hardware has a BMC is not looked at.
LookWithoutBMC ==
  /\ pc = "look"
  /\ pc' = IF Read.update = 0 /\ attempted THEN "clear"
           ELSE IF Read.update # 0 /\ ~attempted /\ Stalled(Read) THEN "cycle"
           ELSE "idle"
  /\ UNCHANGED <<machine, job, attempted, faults, history, environment>>

\* A slip: the attempt is recorded before the Job is created.
LookAndMark ==
  /\ pc = "look"
  /\ LET stalled == Read.update # 0 /\ ~attempted /\ Stalled(Read) /\ bmc IN
     /\ pc' = IF stalled THEN "cycle"
              ELSE IF Read.update = 0 /\ attempted THEN "clear" ELSE "idle"
     /\ machine' = [machine EXCEPT !.marker = @ \/ stalled]
  /\ UNCHANGED <<job, attempted, faults, history, environment>>

\* getOwningMachine, and what is to be done about it.
Look ==
  /\ pc = "look"
  /\ pc' = IF Read.update = 0 /\ attempted THEN "clear"
           ELSE IF Read.update # 0 /\ ~attempted /\ Stalled(Read) /\ bmc THEN "cycle"
           ELSE "idle"
  /\ UNCHANGED <<machine, job, attempted, faults, history, environment>>

\* A slip: the Job gets a name of its own each time.
CreateAnotherJob ==
  /\ pc = "cycle"
  /\ job' = "pending"
  /\ issued' = IF machine.update = 0 THEN issued
               ELSE [issued EXCEPT ![machine.update] = @ + 1]
  /\ pc' = "mark"
  /\ UNCHANGED <<machine, attempted, started, faults, environment>>

\* createPowerCycleJob: a Job of that name that exists already is as good.
CreateJob ==
  /\ pc = "cycle"
  /\ \/ /\ job = "none"
        /\ job' = "pending"
        /\ issued' = IF machine.update = 0 THEN issued
                     ELSE [issued EXCEPT ![machine.update] = @ + 1]
     \/ /\ job # "none"
        /\ UNCHANGED <<job, issued>>
  /\ pc' = "mark"
  /\ UNCHANGED <<machine, attempted, started, faults, environment>>

\* markRecoveryAttempted
Mark ==
  /\ pc = "mark"
  /\ machine' = [machine EXCEPT !.marker = TRUE]
  /\ pc' = "idle"
  /\ UNCHANGED <<job, attempted, faults, history, environment>>

\* clearRecoveryAttempted
Clear ==
  /\ pc = "clear"
  /\ machine' = [machine EXCEPT !.marker = FALSE]
  /\ pc' = "idle"
  /\ UNCHANGED <<job, attempted, faults, history, environment>>

\* A call fails, or the controller stops.
Fault ==
  /\ pc # "idle"
  /\ faults < MaxFaults
  /\ faults' = faults + 1
  /\ pc' = "idle"
  /\ UNCHANGED <<machine, job, attempted, history, environment>>

-------------------------------------------------------------------------------
\* Cluster API finds the Machine out of date, starts an in-place update, in
\* which the node reboots and may hang, and ends it when the node is back.
\* UpToDate and the annotation are written apart.
OutOfDate ==
  /\ machine.since = Never
  /\ machine' = [machine EXCEPT !.since = clock]
  /\ UNCHANGED <<job, pc, attempted, faults, history, environment>>

UpToDate ==
  /\ machine.since # Never /\ machine.update = 0
  /\ machine' = [machine EXCEPT !.since = Never]
  /\ UNCHANGED <<job, pc, attempted, faults, history, environment>>

StartUpdate ==
  /\ machine.update = 0 /\ machine.since # Never
  /\ started < MaxUpdates
  /\ started' = started + 1
  /\ machine' = [machine EXCEPT !.update = started + 1]
  /\ up' = FALSE
  /\ UNCHANGED <<job, pc, attempted, issued, faults, seen, bmc, clock>>

EndUpdate ==
  /\ machine.update # 0 /\ up
  /\ machine' = [machine EXCEPT !.update = 0]
  /\ UNCHANGED <<job, pc, attempted, faults, history, environment>>

NodeReturns ==
  /\ ~up
  /\ up' = TRUE
  /\ UNCHANGED <<machine, job, pc, attempted, faults, history, seen, bmc, clock>>

\* Rufio runs the Job: off, and on again.
PowerCycles ==
  /\ job = "pending"
  /\ job' = "done"
  /\ up' = FALSE
  /\ UNCHANGED <<machine, pc, attempted, faults, history, seen, bmc, clock>>

Sync ==
  /\ CacheLags /\ seen # machine
  /\ seen' = machine
  /\ UNCHANGED <<machine, bmc, job, up, pc, attempted, faults, history, clock>>

Tick ==
  /\ clock < MaxTime
  /\ clock' = clock + 1
  /\ UNCHANGED <<machine, seen, bmc, job, up, pc, attempted, faults, history>>

Worker == Reconcile \/ Look \/ CreateJob \/ Mark \/ Clear

ClusterAPI == OutOfDate \/ UpToDate \/ StartUpdate \/ EndUpdate

RecoveryNext ==
  Worker \/ Fault \/ ClusterAPI \/ NodeReturns \/ PowerCycles \/ Sync \/ Tick

RecoverySpec == RecoveryInit /\ [][RecoveryNext]_recoveryVars

\* The informers' resync reconciles every machine again, and the cache catches
\* up.  Nothing in the code asks for it: main.go sets no Cache.SyncPeriod, and
\* the library's default is ten hours.  Nothing makes the node return or an
\* update end.
FairRecoverySpec ==
  RecoverySpec /\ WF_recoveryVars(Worker) /\ WF_recoveryVars(Sync)

-------------------------------------------------------------------------------
(* Properties *)

\* Every variable holds values of its kind, and a Job is made, or about to be
\* made, only for Hardware that has a BMC.
RecoveryTypeOK ==
  /\ machine \in MachineState
  /\ seen \in MachineState
  /\ bmc \in BOOLEAN
  /\ job \in {"none", "pending", "done"}
  /\ up \in BOOLEAN
  /\ pc \in {"idle", "look", "cycle", "mark", "clear"}
  /\ attempted \in BOOLEAN
  /\ started \in 0..MaxUpdates
  /\ issued \in [Updates -> Nat]
  /\ faults \in 0..MaxFaults
  /\ clock \in 0..MaxTime
  /\ pc = "cycle" \/ job # "none" => bmc

\* However often the controller loses its place between creating the Job and
\* recording the attempt, and however stale the record it reads, no update has
\* its node power cycled twice: "One hard power cycle is attempted".
OneCyclePerUpdate == \A u \in Updates : issued[u] <= 1

\* The first stalled update does not wait for ever: it gets its power cycle,
\* unless it ends by itself, whichever call fails.
FirstStalledUpdateIsCycled ==
  bmc /\ machine.update = 1 /\ Stalled(machine)
    ~> job # "none" \/ machine.update # 1

\* A later update has a budget of its own once the marker is cleared: "Clear
\* the marker so a later update starts with a fresh budget".
LaterUpdateHasABudget ==
  \A u \in Updates :
    bmc /\ machine.update = u /\ Stalled(machine) /\ ~machine.marker /\ pc = "idle"
      ~> issued[u] > 0 \/ machine.update # u
===============================================================================
