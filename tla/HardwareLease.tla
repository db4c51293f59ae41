---------------------------- MODULE HardwareLease -----------------------------
(***************************************************************************)
(* What the machine controller promises about Hardware, without caches,    *)
(* resourceVersions, retries or crashes: Hardware is leased to one machine *)
(* at a time, a machine holds at most one, it registers what it holds, and *)
(* only it gives it back, once it is on its way out.                       *)
(***************************************************************************)
CONSTANTS Machines, Hardware, None

VARIABLES
  holder,      \* the machine each Hardware is leased to
  registered,  \* the Hardware a machine is committed to
  leaving      \* the machines that are being deleted

leaseVars == <<holder, registered, leaving>>

LeaseTypeOK ==
  /\ holder \in [Hardware -> Machines \cup {None}]
  /\ registered \in [Machines -> Hardware \cup {None}]
  /\ leaving \in SUBSET Machines

LeaseInit ==
  /\ holder = [h \in Hardware |-> None]
  /\ registered = [m \in Machines |-> None]
  /\ leaving = {}

\* A machine without Hardware takes a free one.
Acquire(m, h) ==
  /\ holder[h] = None
  /\ \A g \in Hardware : holder[g] # m
  /\ holder' = [holder EXCEPT ![h] = m]
  /\ UNCHANGED <<registered, leaving>>

\* It commits to what it holds.
Register(m, h) ==
  /\ holder[h] = m
  /\ registered[m] = None
  /\ registered' = [registered EXCEPT ![m] = h]
  /\ UNCHANGED <<holder, leaving>>

StartLeaving(m) ==
  /\ m \notin leaving
  /\ leaving' = leaving \cup {m}
  /\ UNCHANGED <<holder, registered>>

\* Only the holder gives Hardware back, and only on its way out.
GiveBack(m, h) ==
  /\ m \in leaving
  /\ registered[m] = h
  /\ holder[h] = m
  /\ holder' = [holder EXCEPT ![h] = None]
  /\ UNCHANGED <<registered, leaving>>

\* It goes when it holds nothing it is committed to.
Leave(m) ==
  /\ m \in leaving
  /\ registered[m] # None => holder[registered[m]] # m
  /\ registered' = [registered EXCEPT ![m] = None]
  /\ leaving' = leaving \ {m}
  /\ UNCHANGED holder

LeaseNext ==
  \E m \in Machines :
    \/ StartLeaving(m) \/ Leave(m)
    \/ \E h \in Hardware : Acquire(m, h) \/ Register(m, h) \/ GiveBack(m, h)

LeaseSpec == LeaseInit /\ [][LeaseNext]_leaseVars

\* Two Hardware are never leased to the same machine.
LeasesAreExclusive ==
  \A g, h \in Hardware : holder[g] # None /\ holder[g] = holder[h] => g = h

\* A machine that is not leaving still holds what it is committed to.
CommitmentsHold ==
  \A m \in Machines :
    registered[m] # None /\ m \notin leaving => holder[registered[m]] = m
===============================================================================
