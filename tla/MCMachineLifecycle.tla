-------------------------- MODULE MCMachineLifecycle --------------------------
(* Small instances of MachineLifecycle for TLC. *)
EXTENDS MachineLifecycle, TLC

CONSTANTS m1, m2, h1, h2

MCMachines == {m1, m2}
MCHardware == {h1, h2}
OnlyFirst == {h1}
AllEligible == [m \in Machines |-> Hardware]

\* Every machine prefers h1: the most contention.
SameRank == [m \in Machines |-> [h \in Hardware |-> IF h = h1 THEN 0 ELSE 1]]

AllFaultPoints == Steps \cup {"workflow", "bmc"}

\* Every fault but one: giving Hardware back and removing the finalizer are
\* two calls, and nothing fails between them.
FaultsButAfterRelease == AllFaultPoints \ {"removeFinalizer"}

\* A fault between the two.
FaultsAfterRelease == {"removeFinalizer"}

NoFaults == {}

\* The controller's own calls fail or it crashes, Workflows and power-off Jobs
\* succeed.
ControllerFaults == Steps

MachineSymmetry == Permutations(Machines)
===============================================================================
