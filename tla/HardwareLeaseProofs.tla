-------------------------- MODULE HardwareLeaseProofs --------------------------
(***************************************************************************)
(* What follows from the lease the controller implements, for every number *)
(* of machines and Hardware.                                               *)
(***************************************************************************)
EXTENDS HardwareLease, TLAPS

\* The lease keeps its types.
LEMMA LeaseTypeCorrect == LeaseSpec => []LeaseTypeOK
<1>1. LeaseInit => LeaseTypeOK
  BY DEF LeaseInit, LeaseTypeOK
<1>2. LeaseTypeOK /\ [LeaseNext]_leaseVars => LeaseTypeOK'
  <2> SUFFICES ASSUME LeaseTypeOK, [LeaseNext]_leaseVars PROVE LeaseTypeOK'
    OBVIOUS
  <2>1. ASSUME NEW m \in Machines, StartLeaving(m) \/ Leave(m) PROVE LeaseTypeOK'
    BY <2>1 DEF StartLeaving, Leave, LeaseTypeOK
  <2>2. ASSUME NEW m \in Machines, NEW h \in Hardware,
               Acquire(m, h) \/ Register(m, h) \/ GiveBack(m, h)
        PROVE  LeaseTypeOK'
    BY <2>2 DEF Acquire, Register, GiveBack, LeaseTypeOK
  <2>3. CASE UNCHANGED leaseVars
    BY <2>3 DEF leaseVars, LeaseTypeOK
  <2> QED BY <2>1, <2>2, <2>3 DEF LeaseNext
<1> QED BY <1>1, <1>2, PTL DEF LeaseSpec

\* Whoever implements the lease never gives one machine two Hardware.
THEOREM LeaseIsExclusive ==
  ASSUME None \notin Machines
  PROVE  LeaseSpec => []LeasesAreExclusive
<1>1. LeaseInit => LeasesAreExclusive
  BY DEF LeaseInit, LeasesAreExclusive
<1>2. LeaseTypeOK /\ LeasesAreExclusive /\ [LeaseNext]_leaseVars => LeasesAreExclusive'
  <2> SUFFICES ASSUME LeaseTypeOK, LeasesAreExclusive, [LeaseNext]_leaseVars
               PROVE  LeasesAreExclusive'
    OBVIOUS
  <2>1. ASSUME NEW m \in Machines, NEW h \in Hardware, Acquire(m, h)
        PROVE  LeasesAreExclusive'
    BY <2>1 DEF Acquire, LeasesAreExclusive, LeaseTypeOK
  <2>2. ASSUME NEW m \in Machines, NEW h \in Hardware, GiveBack(m, h)
        PROVE  LeasesAreExclusive'
    BY <2>2 DEF GiveBack, LeasesAreExclusive, LeaseTypeOK
  <2>3. CASE UNCHANGED holder
    BY <2>3 DEF LeasesAreExclusive
  <2> QED BY <2>1, <2>2, <2>3 DEF LeaseNext, leaseVars, Register, StartLeaving, Leave
<1> QED BY <1>1, <1>2, LeaseTypeCorrect, PTL DEF LeaseSpec

\* Whoever implements the lease leaves a machine that is not being deleted the
\* Hardware it has registered: no other machine's deletion gives it back.
THEOREM LeaseCommitmentsHold ==
  ASSUME None \notin Machines \cup Hardware
  PROVE  LeaseSpec => []CommitmentsHold
<1>1. LeaseInit => CommitmentsHold
  BY DEF LeaseInit, CommitmentsHold
<1>2. LeaseTypeOK /\ CommitmentsHold /\ [LeaseNext]_leaseVars => CommitmentsHold'
  <2> SUFFICES ASSUME LeaseTypeOK, CommitmentsHold, [LeaseNext]_leaseVars
               PROVE  CommitmentsHold'
    OBVIOUS
  <2>1. ASSUME NEW m \in Machines, NEW h \in Hardware, Acquire(m, h) PROVE CommitmentsHold'
    BY <2>1 DEF Acquire, CommitmentsHold, LeaseTypeOK
  <2>2. ASSUME NEW m \in Machines, NEW h \in Hardware, Register(m, h) PROVE CommitmentsHold'
    BY <2>2 DEF Register, CommitmentsHold, LeaseTypeOK
  <2>3. ASSUME NEW m \in Machines, NEW h \in Hardware, GiveBack(m, h) PROVE CommitmentsHold'
    BY <2>3 DEF GiveBack, CommitmentsHold, LeaseTypeOK
  <2>4. ASSUME NEW m \in Machines, StartLeaving(m) \/ Leave(m) PROVE CommitmentsHold'
    BY <2>4 DEF StartLeaving, Leave, CommitmentsHold, LeaseTypeOK
  <2>5. CASE UNCHANGED leaseVars
    BY <2>5 DEF leaseVars, CommitmentsHold
  <2> QED BY <2>1, <2>2, <2>3, <2>4, <2>5 DEF LeaseNext
<1> QED BY <1>1, <1>2, LeaseTypeCorrect, PTL DEF LeaseSpec
===============================================================================
