---------------------------- MODULE IPAMClaimProofs ----------------------------
(***************************************************************************)
(* The address of a machine is claimed before it is reserved and cleared   *)
(* before the claim is let go of: for every number of machines, Hardware   *)
(* and pools, every provider, and faults wherever they are.                *)
(*                                                                         *)
(* Of all theorems but the one on types two things are assumed, and both   *)
(* are needed.  The pool is not edited between the reading of the machine  *)
(* and the recording of its Hardware (pool_edited.cfg shows what becomes   *)
(* of it).  It is not removed: a machine without a pool that releases its  *)
(* Hardware a second time leaves the address of the machine that has it by *)
(* then.                                                                   *)
(***************************************************************************)
EXTENDS IPAMClaim, TLAPS

Settled == ~EditsInFlight /\ None \notin Edits

\* The worker's own steps.
OwnStep(m) == Worker(m) \/ CallFails(m) \/ Crash(m)

\* Users' changes of the machine.
UserStep(m) == DeleteMachine(m) \/ EditPool(m) \/ UpdateThroughV1beta1(m)

TouchHardwareStep == \E h \in Hardware : TouchHardware(h)

\* The machine has begun to go, or is gone.
Retiring(m) ==
  \/ pc[m] \in Releasing
  \/ pc[m] = "idle" /\ (machine[m].exists => machine[m].deleting)

\* The pool the worker has read is the machine's, and that of all its claims.
PoolAgrees(m) ==
  /\ machine[m].finalizer => machine[m].exists
  /\ machine[m].exists => machine[m].pool # None
  /\ pc[m] # "idle" => asked[m] # None
  /\ pc[m] # "idle" /\ machine[m].exists => asked[m] = machine[m].pool
  /\ \A n \in Names : Controls(m, n) =>
       /\ machine[m].exists => machine[m].pool = n[2]
       /\ pc[m] # "idle" => asked[m] = n[2]

\* A current copy shows that the Hardware is the machine's; past the release it
\* is not any more.
HardwareAgrees(m) ==
  /\ m \in fresh /\ pc[m] \in Reserving => owner[mem[m]] = m
  /\ pc[m] \in Releasing =>
       machine[m].exists /\ machine[m].deleting /\ mem[m] = machine[m].hardware
  /\ pc[m] \in Releasing \ {"release"} /\ mem[m] \in Hardware => owner[mem[m]] # m

\* CAPT's finalizer holds a claim until its machine retires, so the address that
\* is being reserved stays the claim's; past releaseIPAddressClaim it is off.
ClaimAgrees(m) ==
  /\ \A n \in Names : Controls(m, n) /\ ~claim[n].capt => Retiring(m)
  /\ pc[m] \in {"getAddress", "reserve"} =>
       Controls(m, Key(m)) /\ claim[Key(m)].bound # None
  /\ pc[m] = "reserve" => claim[Key(m)].bound = ip[m]
  /\ pc[m] = "removeClaimFinalizer" /\ m \in current => Controls(m, Key(m))
  /\ pc[m] \in {"deleteClaim", "removeFinalizer"} /\ Key(m) \in Names /\ Controls(m, Key(m))
       => ~claim[Key(m)].capt

WorkersAgree == \A m \in Machines : PoolAgrees(m) /\ HardwareAgrees(m) /\ ClaimAgrees(m)

IPAMInv == IPAMTypeOK /\ WorkersAgree /\ ReservedAddressIsClaimed /\ FreeHardwareHasNoAddress

-------------------------------------------------------------------------------
(* Names, types, and the cases of a step *)

\* A name is a pair.
LEMMA NameParts ==
  ASSUME NEW n \in Names
  PROVE  n[1] \in Hardware /\ n[2] \in Pools /\ n = <<n[1], n[2]>>
BY DEF Names

\* The name a worker's claim has.
LEMMA KeyParts ==
  ASSUME NEW m \in Machines
  PROVE  /\ Key(m)[1] = mem[m] /\ Key(m)[2] = asked[m]
         /\ Key(m) \in Names <=> mem[m] \in Hardware /\ asked[m] \in Pools
         /\ \A n \in Names : n[1] = mem[m] /\ n[2] = asked[m] => n = Key(m)
BY DEF Names, Key

\* Who takes a step.
LEMMA StepCases ==
  ASSUME [IPAMNext]_ipamVars
  PROVE  \/ \E m \in Machines : OwnStep(m)
         \/ \E m \in Machines : UserStep(m)
         \/ \E n \in Names : Bind(n) \/ Unbind(n) \/ UserDeletesClaim(n)
         \/ TouchHardwareStep
         \/ UNCHANGED ipamVars
BY DEF IPAMNext, OwnStep, UserStep, Provider, TouchHardwareStep

\* What a write makes of a claim.
LEMMA ClaimWritten ==
  ASSUME claim \in [Names -> ClaimState], NEW n \in Names, NEW new \in ClaimState,
         WriteClaim(n, new)
  PROVE  /\ claim' \in [Names -> ClaimState]
         /\ claim'[n] = new \/ (claim'[n] = NoClaim /\ ~new.capt)
         /\ \A o \in Names : o # n => claim'[o] = claim[o]
         /\ \A x \in current' : x \in current /\ Key(x) # n
<1>1. NoClaim \in ClaimState
  BY DEF NoClaim, ClaimState
<1> QED BY <1>1 DEF WriteClaim

\* The fields of the types.
LEMMA Typed ==
  ASSUME IPAMTypeOK, NEW m \in Machines
  PROVE  /\ machine[m] \in MachineState
         /\ mem[m] \in Hardware \cup {None}
         /\ asked[m] \in Pools \cup {None}
         /\ ip[m] \in Addresses \cup {None}
         /\ pc[m] \in Reserving \cup Releasing \cup {"idle", "addFinalizer"}
         /\ pc[m] \in {"reserve", "setStatus", "release"} => mem[m] \in Hardware
         /\ pc[m] \in {"getClaim", "createClaim", "getAddress", "reserve",
                       "removeClaimFinalizer", "deleteClaim"} => Key(m) \in Names
BY DEF IPAMTypeOK, Reserving

-------------------------------------------------------------------------------
(* What a step may do to each variable *)

\* A claim is made by the worker of its controller, under the name it looks for.
Made(m, n) ==
  /\ pc[m] = "createClaim" /\ pc'[m] = "addFinalizer" /\ n = Key(m)
  /\ machine' = machine /\ mem' = mem /\ asked' = asked
  /\ claim'[n] = [NoClaim EXCEPT !.exists = TRUE, !.capt = TRUE, !.controller = m]

\* Its finalizer is taken off by a worker whose copy is current.
LetGo(m, n) ==
  /\ pc[m] = "removeClaimFinalizer" /\ pc'[m] = "deleteClaim"
  /\ m \in current /\ n = Key(m)

\* The life of a claim: how it comes, what it keeps, and how it goes.
LEMMA ClaimSteps ==
  ASSUME IPAMTypeOK, [IPAMNext]_ipamVars, NEW n \in Names
  PROVE  /\ claim'[n] \in ClaimState
         /\ ~claim[n].exists /\ claim'[n].exists => \E m \in Machines : Made(m, n)
         /\ claim[n].exists /\ claim'[n].exists =>
              /\ claim'[n].controller = claim[n].controller
              /\ claim[n].bound # None => claim'[n].bound = claim[n].bound
              /\ claim'[n].capt => claim[n].capt
         /\ claim[n].exists /\ claim[n].capt =>
              \/ claim'[n].exists /\ claim'[n].capt
              \/ \E m \in Machines : LetGo(m, n)
         /\ \A x \in current : x \in current' => Key(x) # n \/ claim'[n] = claim[n]
<1>t. claim \in [Names -> ClaimState] /\ claim[n] \in ClaimState
  BY DEF IPAMTypeOK
<1>0. NoClaim.exists = FALSE /\ NoClaim \in ClaimState
  BY DEF NoClaim, ClaimState
\* A write of a claim that exists, by someone who keeps controller and address.
<1>w. ASSUME NEW o \in Names, NEW new \in ClaimState, WriteClaim(o, new),
             new.exists = claim[o].exists, new.controller = claim[o].controller,
             claim[o].bound # None => new.bound = claim[o].bound,
             new.capt => claim[o].capt,
             claim[o].capt => new.capt \/ \E m \in Machines : LetGo(m, o)
      PROVE  /\ claim'[n] \in ClaimState
             /\ ~claim[n].exists /\ claim'[n].exists => \E m \in Machines : Made(m, n)
             /\ claim[n].exists /\ claim'[n].exists =>
                  /\ claim'[n].controller = claim[n].controller
                  /\ claim[n].bound # None => claim'[n].bound = claim[n].bound
                  /\ claim'[n].capt => claim[n].capt
             /\ claim[n].exists /\ claim[n].capt =>
                  \/ claim'[n].exists /\ claim'[n].capt
                  \/ \E m \in Machines : LetGo(m, n)
             /\ \A x \in current : x \in current' => Key(x) # n \/ claim'[n] = claim[n]
  <2>1. CASE n = o
    BY <1>t, <1>0, <1>w, <2>1, ClaimWritten
  <2>2. CASE n # o
    BY <1>t, <1>w, <2>2, ClaimWritten
  <2> QED BY <2>1, <2>2
<1>1. ASSUME NEW m \in Machines, CreateClaim(m), ~claim[Key(m)].exists
      PROVE  /\ claim'[n] \in ClaimState
             /\ n # Key(m) => claim'[n] = claim[n]
             /\ n = Key(m) => Made(m, n) /\ claim'[n].exists
             /\ \A x \in current : x \in current' => Key(x) # Key(m)
  <2>1. Key(m) \in Names
    BY <1>1, Typed DEF CreateClaim
  <2>2. PICK new : new = [NoClaim EXCEPT !.exists = TRUE, !.capt = TRUE, !.controller = m]
    OBVIOUS
  <2>3. new \in ClaimState /\ new.exists /\ new.capt
    BY <2>2 DEF NoClaim, ClaimState
  <2>4. WriteClaim(Key(m), new)
    BY <1>1, <2>2 DEF CreateClaim
  <2>5. claim'[Key(m)] = new
    BY <1>t, <2>1, <2>3, <2>4, ClaimWritten
  <2>6. pc'[m] = "addFinalizer" /\ machine' = machine /\ mem' = mem /\ asked' = asked
    BY <1>1 DEF CreateClaim, Goto, memory, IPAMTypeOK
  <2>7. n = Key(m) => Made(m, n)
    BY <1>1, <2>2, <2>5, <2>6 DEF Made, CreateClaim
  <2>8. \A x \in current' : Key(x) # Key(m)
    BY <1>t, <2>1, <2>3, <2>4, ClaimWritten
  <2>9. n # Key(m) => claim'[n] = claim[n]
    BY <1>t, <2>1, <2>3, <2>4, ClaimWritten
  <2> QED BY <1>t, <2>3, <2>5, <2>7, <2>8, <2>9
<1>2. ASSUME NEW m \in Machines, OwnStep(m)
      PROVE  \/ claim' = claim
             \/ CreateClaim(m) /\ ~claim[Key(m)].exists
             \/ /\ RemoveClaimFinalizer(m) /\ m \in current
                /\ WriteClaim(Key(m), [claim[Key(m)] EXCEPT !.capt = FALSE])
                /\ LetGo(m, Key(m))
             \/ /\ DeleteClaim(m) /\ claim[Key(m)].exists
                /\ WriteClaim(Key(m), [claim[Key(m)] EXCEPT !.deleting = TRUE])
  <2>1. CASE RemoveClaimFinalizer(m)
    BY <2>1 DEF RemoveClaimFinalizer, LetGo, Goto, IPAMTypeOK
  <2>2. CASE DeleteClaim(m) \/ CreateClaim(m)
    BY <2>2 DEF DeleteClaim, CreateClaim, claimVars
  <2>3. CASE EnsureHardware(m) \/ GetClaim(m) \/ GetAddress(m) \/ Reserve(m) \/ SetStatus(m)
    BY <2>3 DEF EnsureHardware, GetClaim, GetAddress, Reserve, SetStatus, claimVars
  <2>4. CASE AddFinalizer(m) \/ GetHardware(m) \/ Release(m) \/ FindClaim(m) \/ RemoveFinalizer(m)
    BY <2>4 DEF AddFinalizer, GetHardware, Release, FindClaim, RemoveFinalizer, claimVars
  <2>5. CASE CallFails(m) \/ Crash(m)
    BY <2>5 DEF CallFails, Crash
  <2> QED BY <1>2, <2>1, <2>2, <2>3, <2>4, <2>5 DEF OwnStep, Worker
<1>3. ASSUME NEW m \in Machines, RemoveClaimFinalizer(m), m \in current, LetGo(m, Key(m)),
             NEW new, new = [claim[Key(m)] EXCEPT !.capt = FALSE]
      PROVE  /\ Key(m) \in Names /\ new \in ClaimState
             /\ new.exists = claim[Key(m)].exists
             /\ new.controller = claim[Key(m)].controller
             /\ new.bound = claim[Key(m)].bound
             /\ ~new.capt
  <2>1. Key(m) \in Names
    BY <1>3, Typed DEF RemoveClaimFinalizer
  <2>2. claim[Key(m)] \in ClaimState
    BY <1>t, <2>1
  <2> QED BY <1>3, <2>1, <2>2 DEF ClaimState
<1>4. ASSUME NEW m \in Machines, DeleteClaim(m),
             NEW new, new = [claim[Key(m)] EXCEPT !.deleting = TRUE]
      PROVE  /\ Key(m) \in Names /\ new \in ClaimState
             /\ new.exists = claim[Key(m)].exists
             /\ new.controller = claim[Key(m)].controller
             /\ new.bound = claim[Key(m)].bound
             /\ new.capt = claim[Key(m)].capt
  <2>1. Key(m) \in Names
    BY <1>4, Typed DEF DeleteClaim
  <2>2. claim[Key(m)] \in ClaimState
    BY <1>t, <2>1
  <2> QED BY <1>4, <2>1, <2>2 DEF ClaimState
<1>5. ASSUME NEW o \in Names, Bind(o) \/ Unbind(o) \/ UserDeletesClaim(o)
      PROVE  \E new \in ClaimState :
               /\ WriteClaim(o, new)
               /\ new.exists = claim[o].exists
               /\ new.controller = claim[o].controller
               /\ claim[o].bound # None => new.bound = claim[o].bound
               /\ new.capt = claim[o].capt
  <2>1. claim[o] \in ClaimState
    BY <1>t
  <2>2. CASE Bind(o)
    <3>1. PICK a \in Offers[o[2]] :
            WriteClaim(o, [claim[o] EXCEPT !.bound = a, !.provider = TRUE])
      BY <2>2 DEF Bind
    <3>2. a \in Addresses
      BY NameParts, IPAMAssumption
    <3>3. PICK new : new = [claim[o] EXCEPT !.bound = a, !.provider = TRUE]
      OBVIOUS
    <3>4. new \in ClaimState /\ new.exists = claim[o].exists /\ new.capt = claim[o].capt
          /\ new.controller = claim[o].controller
      BY <2>1, <3>2, <3>3 DEF ClaimState
    <3> QED BY <2>2, <3>1, <3>3, <3>4 DEF Bind
  <2>3. CASE Unbind(o)
    <3>1. PICK new : new = [claim[o] EXCEPT !.provider = FALSE]
      OBVIOUS
    <3>2. new \in ClaimState /\ new.exists = claim[o].exists /\ new.capt = claim[o].capt
          /\ new.controller = claim[o].controller /\ new.bound = claim[o].bound
      BY <2>1, <3>1 DEF ClaimState
    <3> QED BY <2>3, <3>1, <3>2 DEF Unbind
  <2>4. CASE UserDeletesClaim(o)
    <3>1. PICK new : new = [claim[o] EXCEPT !.deleting = TRUE]
      OBVIOUS
    <3>2. new \in ClaimState /\ new.exists = claim[o].exists /\ new.capt = claim[o].capt
          /\ new.controller = claim[o].controller /\ new.bound = claim[o].bound
      BY <2>1, <3>1 DEF ClaimState
    <3> QED BY <2>4, <3>1, <3>2 DEF UserDeletesClaim
  <2> QED BY <1>5, <2>2, <2>3, <2>4
<1>6. ASSUME NEW m \in Machines, UserStep(m)
      PROVE  claim' = claim
  BY <1>6 DEF UserStep, DeleteMachine, EditPool, UpdateThroughV1beta1, SetPool, claimVars
<1>7. ASSUME TouchHardwareStep \/ UNCHANGED ipamVars
      PROVE  claim' = claim
  BY <1>7 DEF TouchHardwareStep, TouchHardware, claimVars, ipamVars
<1>8. CASE claim' = claim
  BY <1>t, <1>8
<1>9. ASSUME NEW m \in Machines, OwnStep(m)
      PROVE  /\ claim'[n] \in ClaimState
             /\ ~claim[n].exists /\ claim'[n].exists => \E x \in Machines : Made(x, n)
             /\ claim[n].exists /\ claim'[n].exists =>
                  /\ claim'[n].controller = claim[n].controller
                  /\ claim[n].bound # None => claim'[n].bound = claim[n].bound
                  /\ claim'[n].capt => claim[n].capt
             /\ claim[n].exists /\ claim[n].capt =>
                  \/ claim'[n].exists /\ claim'[n].capt
                  \/ \E x \in Machines : LetGo(x, n)
             /\ \A x \in current : x \in current' => Key(x) # n \/ claim'[n] = claim[n]
  <2>1. CASE CreateClaim(m) /\ ~claim[Key(m)].exists
    BY <1>t, <1>1, <2>1
  <2>2. CASE RemoveClaimFinalizer(m) /\ m \in current /\ LetGo(m, Key(m))
             /\ WriteClaim(Key(m), [claim[Key(m)] EXCEPT !.capt = FALSE])
    <3>1. PICK new : new = [claim[Key(m)] EXCEPT !.capt = FALSE]
      OBVIOUS
    <3> QED BY <1>3, <1>w, <2>2, <3>1
  <2>3. CASE DeleteClaim(m)
             /\ WriteClaim(Key(m), [claim[Key(m)] EXCEPT !.deleting = TRUE])
    <3>1. PICK new : new = [claim[Key(m)] EXCEPT !.deleting = TRUE]
      OBVIOUS
    <3> QED BY <1>4, <1>w, <2>3, <3>1
  <2> QED BY <1>2, <1>8, <1>9, <2>1, <2>2, <2>3
<1> QED BY <1>w, <1>5, <1>6, <1>7, <1>8, <1>9, StepCases

\* What a worker remembers: it reads the machine when it begins, keeps what it
\* has read, and forgets it when it returns.
LEMMA MemorySteps ==
  ASSUME IPAMTypeOK, [IPAMNext]_ipamVars, NEW m \in Machines
  PROVE  /\ pc'[m] # "idle" =>
              \/ /\ pc[m] # "idle" /\ mem'[m] = mem[m] /\ asked'[m] = asked[m]
              \/ /\ pc[m] = "idle" /\ machine[m].exists /\ machine' = machine
                 /\ asked'[m] = machine[m].pool
                 /\ claim' = claim
                 /\ EnsureHardware(m) \/ GetHardware(m)
         /\ ~OwnStep(m) =>
              /\ pc'[m] = pc[m] /\ mem'[m] = mem[m] /\ asked'[m] = asked[m] /\ ip'[m] = ip[m]
              /\ m \in fresh' => m \in fresh
              /\ m \in current' => m \in current
<1> USE DEF IPAMTypeOK, Goto, Return, memory, hardwareVars, claimVars, WriteHardware, WriteClaim
<1>1. CASE OwnStep(m)
  <2> HIDE DEF WriteHardware, WriteClaim, Return, IPAMTypeOK
  <2>t. /\ pc \in [Machines -> Reserving \cup Releasing \cup {"idle", "addFinalizer"}]
        /\ mem \in [Machines -> Hardware \cup {None}]
        /\ asked \in [Machines -> Pools \cup {None}]
    BY DEF IPAMTypeOK
  <2>r. Return(m) => pc'[m] = "idle"
    BY <2>t DEF Return
  <2>1. CASE EnsureHardware(m)
    BY <1>1, <2>t, <2>1 DEF EnsureHardware
  <2>2. CASE GetHardware(m)
    BY <1>1, <2>t, <2>2 DEF GetHardware
  <2>3. CASE GetClaim(m) \/ CreateClaim(m) \/ GetAddress(m) \/ Reserve(m) \/ SetStatus(m)
             \/ FindClaim(m) \/ DeleteClaim(m)
    <3>1. pc[m] # "idle" /\ mem' = mem /\ asked' = asked
      BY <2>3 DEF GetClaim, CreateClaim, GetAddress, Reserve, SetStatus, FindClaim, DeleteClaim
    <3> QED BY <1>1, <3>1
  <2>4. CASE AddFinalizer(m) \/ RemoveFinalizer(m) \/ Crash(m)
    BY <1>1, <2>r, <2>4 DEF AddFinalizer, RemoveFinalizer, Crash
  <2>5. CASE Release(m) \/ RemoveClaimFinalizer(m) \/ CallFails(m)
    <3>1. pc'[m] = "idle" \/ (pc[m] # "idle" /\ mem' = mem /\ asked' = asked)
      BY <2>r, <2>5 DEF Release, RemoveClaimFinalizer, CallFails
    <3> QED BY <1>1, <3>1
  <2> QED BY <1>1, <2>1, <2>2, <2>3, <2>4, <2>5 DEF OwnStep, Worker
<1>2. ASSUME NEW x \in Machines, x # m, OwnStep(x)
      PROVE  /\ pc'[m] = pc[m] /\ mem'[m] = mem[m] /\ asked'[m] = asked[m] /\ ip'[m] = ip[m]
             /\ m \in fresh' => m \in fresh
             /\ m \in current' => m \in current
  <2> HIDE DEF WriteHardware, WriteClaim, Return, IPAMTypeOK
  <2>t. /\ pc \in [Machines -> Reserving \cup Releasing \cup {"idle", "addFinalizer"}]
        /\ mem \in [Machines -> Hardware \cup {None}]
        /\ asked \in [Machines -> Pools \cup {None}]
        /\ ip \in [Machines -> Addresses \cup {None}]
    BY DEF IPAMTypeOK
  <2>r. Return(x) => /\ pc'[m] = pc[m] /\ mem'[m] = mem[m] /\ asked'[m] = asked[m]
                     /\ ip'[m] = ip[m] /\ (m \in fresh' => m \in fresh)
                     /\ (m \in current' => m \in current)
    BY <1>2, <2>t DEF Return
  <2>h. \A h : WriteHardware(x, h) => (m \in fresh' => m \in fresh)
    BY <1>2 DEF WriteHardware
  <2>c. \A n, new : WriteClaim(n, new) => (m \in current' => m \in current)
    BY DEF WriteClaim
  <2>1. CASE EnsureHardware(x)
    BY <1>2, <2>t, <2>h, <2>1 DEF EnsureHardware
  <2>2. CASE GetHardware(x)
    BY <1>2, <2>t, <2>2 DEF GetHardware
  <2>3. CASE GetClaim(x) \/ GetAddress(x) \/ SetStatus(x)
    BY <1>2, <2>t, <2>3 DEF GetClaim, GetAddress, SetStatus
  <2>4. CASE CreateClaim(x)
    BY <1>2, <2>t, <2>c, <2>4 DEF CreateClaim
  <2>5. CASE Reserve(x)
    BY <1>2, <2>t, <2>h, <2>5 DEF Reserve
  <2>6. CASE AddFinalizer(x) \/ RemoveFinalizer(x) \/ Crash(x)
    BY <2>r, <2>6 DEF AddFinalizer, RemoveFinalizer, Crash
  <2>7. CASE Release(x)
    BY <1>2, <2>t, <2>h, <2>r, <2>7 DEF Release
  <2>8. CASE FindClaim(x)
    BY <1>2, <2>t, <2>8 DEF FindClaim
  <2>9. CASE RemoveClaimFinalizer(x)
    BY <1>2, <2>t, <2>c, <2>r, <2>9 DEF RemoveClaimFinalizer
  <2>10. CASE DeleteClaim(x)
    BY <1>2, <2>t, <2>c, <2>10 DEF DeleteClaim
  <2>11. CASE CallFails(x)
    BY <1>2, <2>t, <2>r, <2>11 DEF CallFails
  <2> QED BY <1>2, <2>1, <2>2, <2>3, <2>4, <2>5, <2>6, <2>7, <2>8, <2>9, <2>10, <2>11
          DEF OwnStep, Worker
<1>3. ASSUME NEW x \in Machines, UserStep(x)
      PROVE  UNCHANGED <<pc, mem, asked, ip, fresh, current>>
  BY <1>3 DEF UserStep, DeleteMachine, EditPool, UpdateThroughV1beta1, SetPool
<1>4. ASSUME NEW n \in Names, Bind(n) \/ Unbind(n) \/ UserDeletesClaim(n)
      PROVE  /\ UNCHANGED <<pc, mem, asked, ip, fresh>>
             /\ current' \subseteq current
  BY <1>4 DEF Bind, Unbind, UserDeletesClaim
<1>5. ASSUME TouchHardwareStep \/ UNCHANGED ipamVars
      PROVE  /\ UNCHANGED <<pc, mem, asked, ip, current>>
             /\ fresh' \subseteq fresh
  BY <1>5 DEF TouchHardwareStep, TouchHardware, ipamVars
<1> QED BY <1>1, <1>2, <1>3, <1>4, <1>5, StepCases

\* What may become of a machine.  Its pool changes only before it has Hardware,
\* between two Reconciles, and without a claim.
LEMMA MachineSteps ==
  ASSUME Settled, IPAMTypeOK, [IPAMNext]_ipamVars, NEW m \in Machines
  PROVE  /\ machine'[m] \in MachineState
         /\ \/ machine'[m] = machine[m]
            \/ /\ machine[m].exists /\ ~machine[m].deleting /\ pc'[m] = pc[m]
               /\ machine'[m] = IF machine[m].finalizer
                               THEN [machine[m] EXCEPT !.deleting = TRUE] ELSE NoMachine
            \/ /\ machine[m].exists /\ machine[m].hardware = None
               /\ pc[m] = "idle" /\ pc' = pc /\ claim' = claim
               /\ ~ \E n \in Names : Controls(m, n)
               /\ \E p \in Pools : machine'[m] = [machine[m] EXCEPT !.pool = p]
            \/ /\ machine[m].exists /\ machine[m].hardware \in {None, mem[m]}
               /\ pc[m] \in {"setStatus", "addFinalizer"}
               /\ \E f \in BOOLEAN :
                    machine'[m] = [machine[m] EXCEPT !.finalizer = f, !.hardware = mem[m]]
            \/ /\ RemoveFinalizer(m) /\ pc'[m] = "idle" /\ machine'[m] = NoMachine
<1> USE DEF Settled
<1>t. machine \in [Machines -> MachineState] /\ machine[m] \in MachineState
      /\ mem[m] \in Hardware \cup {None}
  BY DEF IPAMTypeOK
<1>0. NoMachine \in MachineState
  BY DEF NoMachine, MachineState
<1>1. ASSUME NEW new \in MachineState, SetPool(m, new), NEW q,
             new = [machine[m] EXCEPT !.pool = q]
      PROVE  \/ machine'[m] = machine[m]
             \/ /\ machine[m].exists /\ machine[m].hardware = None
                /\ pc[m] = "idle" /\ pc' = pc /\ claim' = claim
                /\ ~ \E n \in Names : Controls(m, n)
                /\ \E p \in Pools : machine'[m] = [machine[m] EXCEPT !.pool = p]
  <2>1. new.pool = q /\ q \in Pools /\ new.hardware = machine[m].hardware
    BY <1>t, <1>1, IPAMAssumption DEF SetPool, MachineState
  <2>2. machine'[m] = machine[m]
        \/ (machine'[m] = new /\ ValidateUpdate(machine[m], new))
    BY <1>t, <1>1 DEF SetPool, Patch
  <2>3. CASE machine[m].hardware # None
    <3>1. ValidateUpdate(machine[m], new) => q = machine[m].pool
      BY <2>1, <2>3 DEF ValidateUpdate
    <3>2. q = machine[m].pool => new = machine[m]
      BY <1>t, <1>1 DEF MachineState
    <3> QED BY <1>1, <2>2, <3>1, <3>2 DEF SetPool
  <2>4. CASE machine[m].hardware = None
    BY <1>1, <2>1, <2>2, <2>4 DEF SetPool, claimVars
  <2> QED BY <2>3, <2>4
<1>2. CASE EditPool(m)
  <2>1. PICK p \in Edits : SetPool(m, [machine[m] EXCEPT !.pool = p])
    BY <1>2 DEF EditPool
  <2>2. PICK new : new = [machine[m] EXCEPT !.pool = p]
    OBVIOUS
  <2>3. new \in MachineState
    BY <1>t, <2>2, IPAMAssumption DEF MachineState
  <2> QED BY <1>t, <1>1, <2>1, <2>2, <2>3 DEF MachineState
<1>3. CASE UpdateThroughV1beta1(m)
  <2>1. PICK data : SetPool(m, ConvertMachineToHub(machine[m],
                     [ConvertMachineFromHub(machine[m]) EXCEPT !.data = data]))
    BY <1>3 DEF UpdateThroughV1beta1
  <2>2. PICK new : new = ConvertMachineToHub(machine[m],
                     [ConvertMachineFromHub(machine[m]) EXCEPT !.data = data])
    OBVIOUS
  <2>3. PICK q : new = [machine[m] EXCEPT !.hardware = machine[m].hardware, !.pool = q]
    BY <2>2 DEF ConvertMachineToHub, ConvertMachineFromHub
  <2>4. new = [machine[m] EXCEPT !.pool = q]
    BY <1>t, <2>3 DEF MachineState
  <2>5. q \in Edits
    BY <1>t, <2>1, <2>2, <2>4 DEF SetPool, MachineState
  <2>6. new \in MachineState
    BY <1>t, <2>4, <2>5, IPAMAssumption DEF MachineState
  <2> QED BY <1>t, <1>1, <2>1, <2>2, <2>4, <2>6 DEF MachineState
<1>4. CASE DeleteMachine(m)
  BY <1>t, <1>0, <1>4 DEF DeleteMachine, MachineState
<1>5. CASE SetStatus(m) \/ AddFinalizer(m)
  <2>1. PICK f \in BOOLEAN : /\ Patch(m, [machine[m] EXCEPT !.finalizer = f, !.hardware = mem[m]])
                            /\ pc[m] \in {"setStatus", "addFinalizer"}
    <3>1. CASE SetStatus(m)
      <4>1. machine[m].finalizer \in BOOLEAN
            /\ [machine[m] EXCEPT !.hardware = mem[m]]
                = [machine[m] EXCEPT !.finalizer = machine[m].finalizer, !.hardware = mem[m]]
        BY <1>t DEF MachineState
      <4> QED BY <3>1, <4>1 DEF SetStatus
    <3>2. CASE AddFinalizer(m)
      BY <3>2 DEF AddFinalizer
    <3> QED BY <1>5, <3>1, <3>2
  <2>2. PICK new : new = [machine[m] EXCEPT !.finalizer = f, !.hardware = mem[m]]
    OBVIOUS
  <2>3. new \in MachineState /\ new.hardware = mem[m]
    BY <1>t, <2>2 DEF MachineState
  <2>4. machine'[m] = machine[m]
        \/ (machine'[m] = new /\ machine[m].exists /\ ValidateUpdate(machine[m], new))
    BY <1>t, <2>1, <2>2 DEF Patch
  <2> QED BY <1>t, <2>1, <2>2, <2>3, <2>4 DEF ValidateUpdate
<1>6. CASE RemoveFinalizer(m)
  BY <1>t, <1>0, <1>6 DEF RemoveFinalizer, Return, Goto, IPAMTypeOK
<1>7. ASSUME ~ (SetStatus(m) \/ AddFinalizer(m) \/ RemoveFinalizer(m) \/ UserStep(m))
      PROVE  machine'[m] = machine[m]
  <2>1. ASSUME NEW x \in Machines, OwnStep(x)
        PROVE  machine'[m] = machine[m]
    <3>1. CASE EnsureHardware(x) \/ GetHardware(x) \/ GetClaim(x) \/ CreateClaim(x)
               \/ GetAddress(x) \/ Reserve(x) \/ Release(x) \/ FindClaim(x)
      BY <3>1 DEF EnsureHardware, GetHardware, GetClaim, CreateClaim, GetAddress, Reserve,
                  Release, FindClaim
    <3>2. CASE RemoveClaimFinalizer(x) \/ DeleteClaim(x) \/ CallFails(x) \/ Crash(x)
      BY <3>2 DEF RemoveClaimFinalizer, DeleteClaim, CallFails, Crash
    <3>3. CASE SetStatus(x) \/ AddFinalizer(x) \/ RemoveFinalizer(x)
      BY <1>7, <1>t, <3>3 DEF SetStatus, AddFinalizer, RemoveFinalizer, Patch
    <3> QED BY <2>1, <3>1, <3>2, <3>3 DEF OwnStep, Worker
  <2>2. ASSUME NEW x \in Machines, UserStep(x)
        PROVE  machine'[m] = machine[m]
    BY <1>7, <1>t, <2>2 DEF UserStep, DeleteMachine, EditPool, UpdateThroughV1beta1, SetPool, Patch
  <2>3. ASSUME NEW n \in Names, Bind(n) \/ Unbind(n) \/ UserDeletesClaim(n)
        PROVE  machine' = machine
    BY <2>3 DEF Bind, Unbind, UserDeletesClaim
  <2>4. ASSUME TouchHardwareStep \/ UNCHANGED ipamVars
        PROVE  machine' = machine
    BY <2>4 DEF TouchHardwareStep, TouchHardware, ipamVars
  <2> QED BY <2>1, <2>2, <2>3, <2>4, StepCases
<1>8. pc'[m] = pc[m] \/ ~DeleteMachine(m)
  BY DEF DeleteMachine
<1> QED BY <1>t, <1>2, <1>3, <1>4, <1>5, <1>6, <1>7, <1>8 DEF UserStep

\* Who writes to Hardware has its current copy, or takes what is nobody's or its
\* own, and overtakes every other copy.
LEMMA HardwareSteps ==
  ASSUME IPAMTypeOK, [IPAMNext]_ipamVars, NEW h \in Hardware
  PROVE  \/ /\ owner'[h] = owner[h] /\ reserved'[h] = reserved[h]
         \/ \E m \in Machines :
              /\ \A x \in Machines : x # m /\ mem[x] = h => x \notin fresh'
              /\ reserved'[h] = reserved[h]
              /\ EnsureHardware(m) /\ mem'[m] = h /\ owner[h] = None /\ owner'[h] = m
         \/ \E m \in Machines :
              /\ \A x \in Machines : x # m /\ mem[x] = h => x \notin fresh'
              /\ Release(m) /\ m \in fresh /\ mem[m] = h /\ owner'[h] = None
              /\ pc[m] = "release"
              /\ reserved'[h] = IF asked[m] = None THEN reserved[h] ELSE None
         \/ \E m \in Machines :
              /\ \A x \in Machines : x # m /\ mem[x] = h => x \notin fresh'
              /\ Reserve(m) /\ m \in fresh /\ mem[m] = h /\ owner'[h] = owner[h]
              /\ pc[m] = "reserve"
              /\ reserved'[h] = ip[m]
<1>t. owner \in [Hardware -> Machines \cup {None}] /\ reserved \in [Hardware -> Addresses \cup {None}]
  BY DEF IPAMTypeOK
<1>1. ASSUME NEW m \in Machines, EnsureHardware(m)
      PROVE  \/ owner'[h] = owner[h]
             \/ /\ \A x \in Machines : x # m /\ mem[x] = h => x \notin fresh'
                /\ mem'[m] = h /\ owner[h] = None /\ owner'[h] = m
  BY <1>t, <1>1 DEF EnsureHardware, WriteHardware, IPAMTypeOK
<1>2. ASSUME NEW m \in Machines, Release(m)
      PROVE  \/ owner'[h] = owner[h] /\ reserved'[h] = reserved[h]
             \/ /\ \A x \in Machines : x # m /\ mem[x] = h => x \notin fresh'
                /\ m \in fresh /\ mem[m] = h /\ owner'[h] = None
                /\ reserved'[h] = IF asked[m] = None THEN reserved[h] ELSE None
  BY <1>t, <1>2 DEF Release, WriteHardware
<1>3. ASSUME NEW m \in Machines, Reserve(m)
      PROVE  \/ owner' = owner /\ reserved'[h] = reserved[h]
             \/ /\ \A x \in Machines : x # m /\ mem[x] = h => x \notin fresh'
                /\ m \in fresh /\ mem[m] = h /\ owner' = owner
                /\ reserved'[h] = ip[m]
  BY <1>t, <1>3 DEF Reserve, WriteHardware
<1>4. ASSUME NEW m \in Machines, OwnStep(m), ~EnsureHardware(m), ~Release(m), ~Reserve(m)
      PROVE  owner' = owner /\ reserved' = reserved
  BY <1>4 DEF OwnStep, Worker, GetClaim, CreateClaim, GetAddress, SetStatus, AddFinalizer,
              GetHardware, FindClaim, RemoveClaimFinalizer, DeleteClaim, RemoveFinalizer,
              CallFails, Crash, hardwareVars
<1>5. ASSUME NEW m \in Machines, UserStep(m)
      PROVE  owner' = owner /\ reserved' = reserved
  BY <1>5 DEF UserStep, DeleteMachine, EditPool, UpdateThroughV1beta1, SetPool, hardwareVars
<1>6. ASSUME NEW n \in Names, Bind(n) \/ Unbind(n) \/ UserDeletesClaim(n)
      PROVE  owner' = owner /\ reserved' = reserved
  BY <1>6 DEF Bind, Unbind, UserDeletesClaim, hardwareVars
<1>7. ASSUME TouchHardwareStep \/ UNCHANGED ipamVars
      PROVE  owner' = owner /\ reserved' = reserved
  BY <1>7 DEF TouchHardwareStep, TouchHardware, ipamVars
<1>8. \A m \in Machines : /\ EnsureHardware(m) => reserved' = reserved
                          /\ Release(m) => pc[m] = "release"
                          /\ Reserve(m) => pc[m] = "reserve"
  BY DEF EnsureHardware, Release, Reserve
<1> QED BY <1>1, <1>2, <1>3, <1>4, <1>5, <1>6, <1>7, <1>8, StepCases

-------------------------------------------------------------------------------
(* The workers agree with the machines, the Hardware and the claims *)

\* A claim that a machine controls after a step it controlled before, unless
\* its worker has just made it.
LEMMA ControlSteps ==
  ASSUME IPAMTypeOK, [IPAMNext]_ipamVars, NEW m \in Machines, NEW n \in Names,
         Controls(m, n)'
  PROVE  \/ Controls(m, n) /\ (claim'[n].capt => claim[n].capt)
            /\ (claim[n].bound # None => claim'[n].bound = claim[n].bound)
         \/ Made(m, n)
<1>1. CASE claim[n].exists
  BY <1>1, ClaimSteps DEF Controls
<1>2. CASE ~claim[n].exists
  <2>1. PICK x \in Machines : Made(x, n)
    BY <1>2, ClaimSteps DEF Controls
  <2>2. claim'[n].controller = x
    BY <2>1 DEF Made, NoClaim
  <2> QED BY <2>1, <2>2 DEF Controls
<1> QED BY <1>1, <1>2

\* The pool stays the same as long as it matters.
LEMMA PoolKeepsAgreeing ==
  ASSUME Settled, IPAMInv, [IPAMNext]_ipamVars, NEW m \in Machines
  PROVE  PoolAgrees(m)'
<1>0. IPAMTypeOK /\ PoolAgrees(m)
  BY DEF IPAMInv, WorkersAgree
<1>t. machine[m] \in MachineState
  BY <1>0 DEF IPAMTypeOK
<1>1. \/ ~machine'[m].exists
      \/ machine[m].exists /\ machine'[m].pool = machine[m].pool
      \/ /\ machine[m].exists /\ machine'[m].pool \in Pools
         /\ pc[m] = "idle" /\ pc' = pc /\ claim' = claim
         /\ ~ \E n \in Names : Controls(m, n)
  <2>1. ASSUME NEW p \in Pools, machine'[m] = [machine[m] EXCEPT !.pool = p]
        PROVE  machine'[m].pool = p
    BY <1>t, <2>1 DEF MachineState
  <2>2. ASSUME NEW f, machine'[m] = [machine[m] EXCEPT !.finalizer = f, !.hardware = mem[m]]
        PROVE  machine'[m].pool = machine[m].pool
    BY <1>t, <2>2 DEF MachineState
  <2>3. [machine[m] EXCEPT !.deleting = TRUE].pool = machine[m].pool
    BY <1>t DEF MachineState
  <2>4. ~NoMachine.exists
    BY DEF NoMachine
  <2> QED BY <1>0, <2>1, <2>2, <2>3, <2>4, MachineSteps
<1>2. machine'[m].exists => machine'[m].pool # None
  BY <1>0, <1>1, IPAMAssumption DEF PoolAgrees
<1>3. pc'[m] # "idle" => asked'[m] # None
  BY <1>0, MemorySteps DEF PoolAgrees
<1>4. pc'[m] # "idle" /\ machine'[m].exists => asked'[m] = machine'[m].pool
  BY <1>0, <1>1, MemorySteps DEF PoolAgrees
<1>5. ASSUME NEW n \in Names, Controls(m, n)'
      PROVE  /\ machine'[m].exists => machine'[m].pool = n[2]
             /\ pc'[m] # "idle" => asked'[m] = n[2]
  <2>1. CASE Made(m, n)
    <3>1. n[2] = asked[m]
      BY <2>1, KeyParts DEF Made
    <3> QED BY <1>0, <2>1, <3>1 DEF Made, PoolAgrees
  <2>2. CASE Controls(m, n)
    <3>1. /\ machine[m].exists => machine[m].pool = n[2]
          /\ pc[m] # "idle" => asked[m] = n[2]
      BY <1>0, <2>2 DEF PoolAgrees
    <3>2. machine'[m].exists => machine'[m].pool = n[2]
      BY <1>1, <2>2, <3>1
    <3>3. pc'[m] # "idle" => asked'[m] = n[2]
      BY <1>0, <3>1, MemorySteps
    <3> QED BY <3>2, <3>3
  <2> QED BY <1>0, <1>5, <2>1, <2>2, ControlSteps
<1>6. machine'[m].finalizer => machine'[m].exists
  <2>1. ASSUME NEW p, machine'[m] = [machine[m] EXCEPT !.pool = p]
        PROVE  machine'[m].exists = machine[m].exists
    BY <1>t, <2>1 DEF MachineState
  <2>2. ASSUME NEW f, machine'[m] = [machine[m] EXCEPT !.finalizer = f, !.hardware = mem[m]]
        PROVE  machine'[m].exists = machine[m].exists
    BY <1>t, <2>2 DEF MachineState
  <2>3. [machine[m] EXCEPT !.deleting = TRUE].exists = machine[m].exists
    BY <1>t DEF MachineState
  <2>4. ~NoMachine.finalizer
    BY DEF NoMachine
  <2> QED BY <1>0, <2>1, <2>2, <2>3, <2>4, MachineSteps DEF PoolAgrees
<1> QED BY <1>2, <1>3, <1>4, <1>5, <1>6 DEF PoolAgrees

\* Nobody else changes a machine that is being deleted and released.
LEMMA ReleasingMachineStays ==
  ASSUME Settled, IPAMInv, [IPAMNext]_ipamVars, NEW m \in Machines,
         machine[m].exists, machine[m].deleting,
         pc[m] \in Releasing \cup {"idle"}
  PROVE  \/ machine'[m].exists /\ machine'[m].deleting
            /\ (pc[m] \in Releasing => machine'[m] = machine[m])
         \/ pc'[m] = "idle" /\ ~machine'[m].exists
<1>0. IPAMTypeOK /\ machine[m] \in MachineState
  BY DEF IPAMInv, IPAMTypeOK
<1>1. ASSUME NEW p, machine'[m] = [machine[m] EXCEPT !.pool = p]
      PROVE  machine'[m].exists /\ machine'[m].deleting
  BY <1>0, <1>1 DEF MachineState
<1>2. machine'[m] = NoMachine => ~machine'[m].exists
  BY DEF NoMachine
<1>3. pc[m] \notin {"setStatus", "addFinalizer"} /\ (pc[m] \in Releasing => pc[m] # "idle")
  BY DEF Releasing
<1> QED BY <1>0, <1>1, <1>2, <1>3, MachineSteps

\* What is retiring goes on retiring.
LEMMA RetiringStays ==
  ASSUME Settled, IPAMInv, [IPAMNext]_ipamVars, NEW m \in Machines, Retiring(m)
  PROVE  Retiring(m)'
<1>0. IPAMTypeOK /\ HardwareAgrees(m) /\ machine[m] \in MachineState
  BY DEF IPAMInv, WorkersAgree, IPAMTypeOK
<1>1. CASE pc[m] \in Releasing
  <2>1. machine[m].exists /\ machine[m].deleting
    BY <1>0, <1>1 DEF HardwareAgrees
  <2>2. pc'[m] \in Releasing \cup {"idle"}
    <3>1. CASE OwnStep(m)
      <4> USE DEF Goto, Return, IPAMTypeOK, Releasing
      <4>1. CASE Release(m) \/ FindClaim(m) \/ RemoveClaimFinalizer(m)
        BY <1>0, <1>1, <4>1 DEF Release, FindClaim, RemoveClaimFinalizer
      <4>2. CASE DeleteClaim(m) \/ RemoveFinalizer(m) \/ CallFails(m) \/ Crash(m)
        BY <1>0, <1>1, <4>2 DEF DeleteClaim, RemoveFinalizer, CallFails, Crash, Reserving
      <4>3. CASE GetClaim(m) \/ CreateClaim(m) \/ GetAddress(m) \/ Reserve(m) \/ SetStatus(m)
                 \/ AddFinalizer(m) \/ EnsureHardware(m) \/ GetHardware(m)
        BY <1>1, <4>3 DEF GetClaim, CreateClaim, GetAddress, Reserve, SetStatus, AddFinalizer,
                          EnsureHardware, GetHardware
      <4> QED BY <3>1, <4>1, <4>2, <4>3 DEF OwnStep, Worker
    <3>2. CASE ~OwnStep(m)
      BY <1>0, <1>1, <3>2, MemorySteps
    <3> QED BY <3>1, <3>2
  <2> QED BY <1>1, <2>1, <2>2, ReleasingMachineStays DEF Retiring
<1>2. CASE pc[m] = "idle" /\ (machine[m].exists => machine[m].deleting)
  <2>1. pc'[m] \in Releasing \cup {"idle"}
    <3>1. CASE pc'[m] # "idle"
      <4>1. machine[m].exists /\ (EnsureHardware(m) \/ GetHardware(m))
        BY <1>0, <1>2, <3>1, MemorySteps
      <4>2. GetHardware(m)
        BY <1>2, <4>1 DEF EnsureHardware
      <4> QED BY <1>0, <4>2 DEF GetHardware, Goto, IPAMTypeOK, Releasing
    <3> QED BY <3>1
  <2>2. CASE machine[m].exists
    BY <1>2, <2>1, <2>2, ReleasingMachineStays DEF Retiring
  <2>3. CASE ~machine[m].exists
    <3>1. ~machine'[m].exists
      BY <1>0, <1>2, <2>3, MachineSteps DEF RemoveFinalizer
    <3> QED BY <2>1, <3>1 DEF Retiring
  <2> QED BY <2>2, <2>3
<1> QED BY <1>1, <1>2 DEF Retiring

\* Hardware that a current copy shows as the machine's is, and Hardware that has
\* been released is not taken again.
LEMMA HardwareKeepsAgreeing ==
  ASSUME Settled, IPAMInv, [IPAMNext]_ipamVars, NEW m \in Machines
  PROVE  HardwareAgrees(m)'
<1>0. IPAMTypeOK /\ HardwareAgrees(m)
  BY DEF IPAMInv, WorkersAgree
<1>t. /\ machine[m] \in MachineState /\ mem[m] \in Hardware \cup {None}
      /\ owner \in [Hardware -> Machines \cup {None}]
      /\ pc \in [Machines -> Reserving \cup Releasing \cup {"idle", "addFinalizer"}]
  BY <1>0 DEF IPAMTypeOK
<1>n. None \notin Machines \cup Hardware
  BY IPAMAssumption
\* A worker that begins.
<1>1. CASE EnsureHardware(m)
  <2>1. pc'[m] \in {"addFinalizer", "setStatus", "getClaim"}
    BY <1>t, <1>1 DEF EnsureHardware, Goto
  <2>2. pc'[m] # "addFinalizer" => owner'[mem'[m]] = m
    BY <1>0, <1>t, <1>1 DEF EnsureHardware, Goto, IPAMTypeOK
  <2> QED BY <2>1, <2>2 DEF HardwareAgrees, Releasing, Reserving
<1>2. CASE GetHardware(m)
  <2>1. /\ machine' = machine /\ machine[m].exists /\ machine[m].deleting
        /\ mem'[m] = machine[m].hardware
        /\ pc'[m] \in {"findClaim", "release"}
        /\ pc'[m] = "findClaim" => machine[m].hardware = None
    BY <1>0, <1>t, <1>2 DEF GetHardware, Goto, IPAMTypeOK
  <2> QED BY <1>n, <2>1 DEF HardwareAgrees, Reserving
\* A worker that goes on.
<1>3. CASE ~EnsureHardware(m) /\ ~GetHardware(m) /\ pc'[m] # "idle"
  <2>1. pc[m] # "idle" /\ mem'[m] = mem[m]
    BY <1>0, <1>3, MemorySteps
  <2>2. m \in fresh' => m \in fresh
    <3>1. CASE OwnStep(m)
      BY <1>3, <3>1 DEF OwnStep, Worker, GetClaim, CreateClaim, GetAddress, Reserve, SetStatus,
         AddFinalizer, Release, FindClaim, RemoveClaimFinalizer, DeleteClaim, RemoveFinalizer,
         CallFails, Crash, Return, hardwareVars, WriteHardware
    <3>2. CASE ~OwnStep(m)
      BY <1>0, <3>2, MemorySteps
    <3> QED BY <3>1, <3>2
  <2>3. /\ pc'[m] \in Reserving => pc[m] \in Reserving
        /\ pc'[m] \in Releasing => pc[m] \in Releasing
        /\ pc'[m] \in Releasing \ {"release"} => pc[m] \in Releasing \ {"release"} \/ Release(m)
    <3>1. CASE OwnStep(m)
      <4> USE DEF Goto, Return, Releasing, Reserving
      <4>1. CASE Release(m) \/ FindClaim(m) \/ RemoveClaimFinalizer(m)
        BY <1>3, <1>t, <4>1 DEF Release, FindClaim, RemoveClaimFinalizer
      <4>2. CASE DeleteClaim(m) \/ RemoveFinalizer(m) \/ CallFails(m) \/ Crash(m)
        BY <1>3, <1>t, <4>2 DEF DeleteClaim, RemoveFinalizer, CallFails, Crash
      <4>3. CASE GetClaim(m) \/ CreateClaim(m) \/ GetAddress(m) \/ Reserve(m)
        BY <1>3, <1>t, <4>3 DEF GetClaim, CreateClaim, GetAddress, Reserve
      <4>4. CASE SetStatus(m) \/ AddFinalizer(m)
        BY <1>3, <1>t, <4>4 DEF SetStatus, AddFinalizer
      <4> QED BY <1>3, <3>1, <4>1, <4>2, <4>3, <4>4 DEF OwnStep, Worker
    <3>2. CASE ~OwnStep(m)
      BY <1>0, <3>2, MemorySteps
    <3> QED BY <3>1, <3>2
  <2>4. ASSUME m \in fresh', pc'[m] \in Reserving
        PROVE  owner'[mem'[m]] = m
    <3>1. m \in fresh /\ pc[m] \in Reserving /\ owner[mem[m]] = m
      BY <1>0, <2>2, <2>3, <2>4 DEF HardwareAgrees
    <3>2. mem[m] \in Hardware
      BY <1>0, <3>1, Typed, KeyParts DEF Reserving
    <3>3. ~Release(m)
      BY <3>1 DEF Release, Reserving
    <3> QED BY <1>0, <1>3, <2>1, <2>4, <3>1, <3>2, <3>3, HardwareSteps
  <2>5. ASSUME pc'[m] \in Releasing
        PROVE  machine'[m].exists /\ machine'[m].deleting /\ mem'[m] = machine'[m].hardware
    <3>1. pc[m] \in Releasing /\ machine[m].exists /\ machine[m].deleting
          /\ mem[m] = machine[m].hardware
      BY <1>0, <2>3, <2>5 DEF HardwareAgrees
    <3> QED BY <1>3, <2>1, <3>1, ReleasingMachineStays
  <2>6. ASSUME pc'[m] \in Releasing \ {"release"}, mem'[m] \in Hardware
        PROVE  owner'[mem'[m]] # m
    <3>1. CASE Release(m)
      <4>1. m \in fresh
        BY <1>3, <1>t, <3>1 DEF Release, Return, Goto
      <4>2. owner'[mem[m]] = None
        BY <1>t, <2>1, <2>6, <3>1, <4>1 DEF Release
      <4> QED BY <1>n, <2>1, <4>2
    <3>2. CASE pc[m] \in Releasing \ {"release"}
      <4>1. owner[mem[m]] # m
        BY <1>0, <2>1, <2>6, <3>2 DEF HardwareAgrees
      <4> QED BY <1>0, <1>n, <1>3, <2>1, <2>6, <4>1, HardwareSteps
    <3> QED BY <2>3, <2>6, <3>1, <3>2
  <2> QED BY <2>4, <2>5, <2>6 DEF HardwareAgrees
<1>4. CASE pc'[m] = "idle"
  BY <1>4 DEF HardwareAgrees, Reserving, Releasing
<1> QED BY <1>1, <1>2, <1>3, <1>4

\* The finalizer of a claim is taken off by the worker of its controller.
LEMMA LetGoByController ==
  ASSUME IPAMInv, NEW x \in Machines, NEW n \in Names, LetGo(x, n)
  PROVE  Controls(x, n)
BY DEF IPAMInv, WorkersAgree, ClaimAgrees, LetGo

\* A claim that its worker is about to reserve the address of stays as it is.
LEMMA ClaimIsHeld ==
  ASSUME IPAMInv, [IPAMNext]_ipamVars, NEW m \in Machines,
         pc[m] \in {"getAddress", "reserve"} \/ (pc[m] = "getClaim" /\ claim' = claim),
         NEW n \in Names, Controls(m, n), claim[n].bound # None
  PROVE  Controls(m, n)' /\ claim'[n].bound = claim[n].bound
<1>0. IPAMTypeOK /\ ClaimAgrees(m)
  BY DEF IPAMInv, WorkersAgree
<1>1. claim[n].capt
  <2>1. ~Retiring(m)
    BY DEF Retiring, Releasing
  <2> QED BY <1>0, <2>1 DEF ClaimAgrees
<1>2. ~ \E x \in Machines : LetGo(x, n)
  <2>1. ASSUME NEW x \in Machines, LetGo(x, n)
        PROVE  FALSE
    <3>1. x = m
      BY <2>1, LetGoByController DEF Controls
    <3> QED BY <2>1, <3>1 DEF LetGo
  <2> QED BY <2>1
<1> QED BY <1>0, <1>1, <1>2, ClaimSteps DEF Controls

\* Claims keep their finalizer until their machines retire, and what a worker
\* has read of its claim stays true.
LEMMA ClaimKeepsAgreeing ==
  ASSUME Settled, IPAMInv, [IPAMNext]_ipamVars, NEW m \in Machines
  PROVE  ClaimAgrees(m)'
<1>0. IPAMTypeOK /\ ClaimAgrees(m)
  BY DEF IPAMInv, WorkersAgree
<1>t. pc \in [Machines -> Reserving \cup Releasing \cup {"idle", "addFinalizer"}]
      /\ ip \in [Machines -> Addresses \cup {None}]
  BY <1>0 DEF IPAMTypeOK
<1>1. ASSUME NEW n \in Names, Controls(m, n)', ~claim'[n].capt
      PROVE  Retiring(m)'
  <2>1. ~Made(m, n)
    BY <1>1 DEF Made, NoClaim
  <2>2. Controls(m, n)
    BY <1>0, <1>1, <2>1, ControlSteps
  <2>3. CASE ~claim[n].capt
    BY <1>0, <2>2, <2>3, RetiringStays DEF ClaimAgrees
  <2>4. CASE claim[n].capt
    <3>1. PICK x \in Machines : LetGo(x, n)
      BY <1>0, <1>1, <2>2, <2>4, ClaimSteps DEF Controls
    <3>2. x = m
      BY <2>2, <3>1, LetGoByController DEF Controls
    <3> QED BY <3>1, <3>2 DEF LetGo, Retiring, Releasing
  <2> QED BY <2>3, <2>4
\* How a worker gets to the steps in question.
<1>2. ASSUME pc'[m] \in {"getAddress", "reserve", "removeClaimFinalizer", "deleteClaim",
                         "removeFinalizer"}
      PROVE  /\ pc[m] # "idle" /\ mem'[m] = mem[m] /\ asked'[m] = asked[m]
             /\ Key(m)' = Key(m)
             /\ \/ ~OwnStep(m)
                \/ GetClaim(m) /\ pc'[m] = "getAddress"
                \/ GetAddress(m) /\ pc'[m] = "reserve"
                \/ FindClaim(m)
                \/ RemoveClaimFinalizer(m) /\ pc'[m] = "deleteClaim"
                \/ DeleteClaim(m) /\ pc'[m] = "removeFinalizer"
  <2>1. ~EnsureHardware(m) /\ ~GetHardware(m)
    BY <1>2, <1>t DEF EnsureHardware, GetHardware, Goto
  <2>2. pc[m] # "idle" /\ mem'[m] = mem[m] /\ asked'[m] = asked[m]
    BY <1>0, <1>2, <2>1, MemorySteps
  <2>3. CASE OwnStep(m)
    <3> USE DEF Goto, Return
    <3>1. ~CreateClaim(m) /\ ~Reserve(m) /\ ~SetStatus(m) /\ ~AddFinalizer(m) /\ ~Release(m)
      BY <1>2, <1>t DEF CreateClaim, Reserve, SetStatus, AddFinalizer, Release
    <3>2. ~RemoveFinalizer(m) /\ ~CallFails(m) /\ ~Crash(m)
      BY <1>2, <1>t DEF RemoveFinalizer, CallFails, Crash
    <3>3. GetClaim(m) => pc'[m] = "getAddress"
      BY <1>2, <1>t DEF GetClaim
    <3>4. /\ GetAddress(m) => pc'[m] = "reserve"
          /\ RemoveClaimFinalizer(m) => pc'[m] = "deleteClaim"
          /\ DeleteClaim(m) => pc'[m] = "removeFinalizer"
      BY <1>2, <1>t DEF GetAddress, RemoveClaimFinalizer, DeleteClaim
    <3> QED BY <2>1, <2>2, <2>3, <3>1, <3>2, <3>3, <3>4 DEF OwnStep, Worker, Key
  <2> QED BY <2>2, <2>3 DEF Key
<1>3. ASSUME pc'[m] \in {"getAddress", "reserve"}
      PROVE  /\ Controls(m, Key(m))' /\ claim'[Key(m)'].bound # None
             /\ pc'[m] = "reserve" => claim'[Key(m)'].bound = ip'[m]
  <2>1. CASE GetClaim(m)
    <3>1. Key(m) \in Names /\ claim' = claim
      BY <1>0, <2>1, Typed DEF GetClaim, claimVars
    <3>2. claim[Key(m)].exists /\ claim[Key(m)].controller = m /\ claim[Key(m)].bound # None
      BY <1>3, <1>t, <2>1 DEF GetClaim, Goto
    <3>3. pc'[m] = "getAddress"
      BY <1>2, <1>3, <2>1 DEF GetClaim, GetAddress, FindClaim, RemoveClaimFinalizer,
                              DeleteClaim, OwnStep, Worker
    <3> QED BY <1>2, <1>3, <3>1, <3>2, <3>3 DEF Controls
  <2>2. CASE GetAddress(m)
    <3>1. /\ claim' = claim /\ ip'[m] = ip[m]
          /\ Controls(m, Key(m)) /\ claim[Key(m)].bound # None
          /\ pc'[m] = "reserve" => claim[Key(m)].bound = ip[m]
      BY <1>0, <1>t, <2>2 DEF GetAddress, claimVars, ClaimAgrees, Goto, memory
    <3> QED BY <1>2, <1>3, <3>1 DEF Controls
  <2>3. CASE ~OwnStep(m)
    <3>1. pc'[m] = pc[m] /\ ip'[m] = ip[m]
      BY <1>0, <2>3, MemorySteps
    <3>2. /\ Key(m) \in Names /\ Controls(m, Key(m)) /\ claim[Key(m)].bound # None
          /\ pc[m] = "reserve" => claim[Key(m)].bound = ip[m]
      BY <1>0, <1>3, <3>1, Typed DEF ClaimAgrees
    <3>3. Controls(m, Key(m))' /\ claim'[Key(m)].bound = claim[Key(m)].bound
      <4>1. PICK n \in Names : n = Key(m)
        BY <3>2
      <4>2. Controls(m, n)' /\ claim'[n].bound = claim[n].bound
        BY <1>3, <3>1, <3>2, <4>1, ClaimIsHeld
      <4> QED BY <1>2, <1>3, <4>1, <4>2 DEF Controls
    <3> QED BY <1>2, <1>3, <3>1, <3>2, <3>3
  <2>4. ~FindClaim(m) /\ ~RemoveClaimFinalizer(m) /\ ~DeleteClaim(m)
    BY <1>3, <1>t DEF FindClaim, RemoveClaimFinalizer, DeleteClaim, Goto, Return
  <2> QED BY <1>2, <1>3, <2>1, <2>2, <2>3, <2>4
<1>4. ASSUME pc'[m] = "removeClaimFinalizer", m \in current'
      PROVE  Controls(m, Key(m))'
  <2>1. CASE FindClaim(m)
    <3>1. Controls(m, Key(m)) /\ claim' = claim
      BY <1>4, <1>t, <2>1 DEF FindClaim, Goto
    <3> QED BY <1>2, <1>4, <3>1 DEF Controls
  <2>2. CASE ~OwnStep(m)
    <3>1. pc'[m] = pc[m] /\ m \in current
      BY <1>0, <1>4, <2>2, MemorySteps
    <3>2. Key(m) \in Names /\ Controls(m, Key(m))
      BY <1>0, <1>4, <3>1, Typed DEF ClaimAgrees
    <3>3. claim'[Key(m)] = claim[Key(m)]
      BY <1>0, <1>4, <3>1, <3>2, ClaimSteps
    <3> QED BY <1>2, <1>4, <3>2, <3>3 DEF Controls
  <2>3. ~GetClaim(m) /\ ~GetAddress(m)
    BY <1>4, <1>t DEF GetClaim, GetAddress, Goto
  <2> QED BY <1>2, <1>4, <2>1, <2>2, <2>3
<1>5. ASSUME pc'[m] \in {"deleteClaim", "removeFinalizer"}, Key(m)' \in Names,
             Controls(m, Key(m))'
      PROVE  ~claim'[Key(m)'].capt
  <2>1. PICK n \in Names : n = Key(m) /\ n = Key(m)' /\ Controls(m, n)'
    BY <1>2, <1>5 DEF Controls
  <2>2. ~Made(m, n)
    BY <1>5 DEF Made
  <2>3. Controls(m, n) /\ (claim'[n].capt => claim[n].capt)
    BY <1>0, <2>1, <2>2, ControlSteps
  <2>4. CASE FindClaim(m)
    <3>1. pc'[m] = "deleteClaim" /\ ~claim[n].capt
      BY <1>5, <1>t, <2>1, <2>3, <2>4 DEF FindClaim, Goto
    <3> QED BY <2>1, <2>3, <3>1
  <2>5. CASE RemoveClaimFinalizer(m)
    <3>1. m \in current /\ WriteClaim(n, [claim[n] EXCEPT !.capt = FALSE])
      BY <1>5, <1>t, <2>1, <2>5 DEF RemoveClaimFinalizer, Return, Goto
    <3>2. PICK new : new = [claim[n] EXCEPT !.capt = FALSE]
      OBVIOUS
    <3>3. new \in ClaimState /\ ~new.capt
      <4>1. claim[n] \in ClaimState
        BY <1>0 DEF IPAMTypeOK
      <4> QED BY <3>2, <4>1 DEF ClaimState
    <3>4. claim'[n] = new \/ claim'[n] = NoClaim
      BY <1>0, <3>1, <3>2, <3>3, ClaimWritten DEF IPAMTypeOK
    <3> QED BY <2>1, <3>3, <3>4 DEF NoClaim
  <2>6. CASE DeleteClaim(m) \/ ~OwnStep(m)
    <3>1. pc[m] \in {"deleteClaim", "removeFinalizer"}
      BY <1>0, <1>5, <2>6, MemorySteps DEF DeleteClaim
    <3>2. ~claim[n].capt
      BY <1>0, <2>1, <2>3, <3>1 DEF ClaimAgrees
    <3> QED BY <2>1, <2>3, <3>2
  <2>7. ~GetClaim(m) /\ ~GetAddress(m)
    BY <1>5, <1>t DEF GetClaim, GetAddress, Goto
  <2> QED BY <1>2, <1>5, <2>4, <2>5, <2>6, <2>7
<1> QED BY <1>1, <1>3, <1>4, <1>5 DEF ClaimAgrees

-------------------------------------------------------------------------------
(* The addresses *)

\* A worker that reserves has the current copy of its own Hardware, and the claim
\* it reserves from.
LEMMA ReservesItsOwn ==
  ASSUME IPAMInv, NEW m \in Machines, m \in fresh, pc[m] = "reserve"
  PROVE  /\ mem[m] \in Hardware /\ owner[mem[m]] = m
         /\ Key(m) \in Names /\ Key(m)[1] = mem[m]
         /\ Controls(m, Key(m)) /\ claim[Key(m)].capt
         /\ claim[Key(m)].bound = ip[m] /\ ip[m] # None
<1>1. IPAMTypeOK /\ HardwareAgrees(m) /\ ClaimAgrees(m)
  BY DEF IPAMInv, WorkersAgree
<1>2. mem[m] \in Hardware /\ Key(m) \in Names /\ Key(m)[1] = mem[m]
  BY <1>1, Typed, KeyParts
<1>3. ~Retiring(m)
  BY DEF Retiring, Releasing
<1> QED BY <1>1, <1>2, <1>3 DEF HardwareAgrees, ClaimAgrees, Reserving

\* releaseHardware clears the address of what it releases.
LEMMA ReleaseClears ==
  ASSUME IPAMInv, NEW m \in Machines, pc[m] = "release"
  PROVE  asked[m] # None
BY DEF IPAMInv, WorkersAgree, PoolAgrees

\* Free Hardware has no address after a step.
LEMMA FreeKeepsNoAddress ==
  ASSUME IPAMInv, [IPAMNext]_ipamVars
  PROVE  FreeHardwareHasNoAddress'
<1>0. IPAMTypeOK /\ FreeHardwareHasNoAddress
  BY DEF IPAMInv
<1> SUFFICES ASSUME NEW h \in Hardware, owner'[h] = None
             PROVE  reserved'[h] = None
  BY DEF FreeHardwareHasNoAddress
<1>1. CASE owner'[h] = owner[h] /\ reserved'[h] = reserved[h]
  BY <1>0, <1>1 DEF FreeHardwareHasNoAddress
<1>2. ASSUME NEW m \in Machines, Release(m), mem[m] = h, pc[m] = "release",
             reserved'[h] = IF asked[m] = None THEN reserved[h] ELSE None
      PROVE  reserved'[h] = None
  BY <1>2, ReleaseClears
<1>3. ASSUME NEW m \in Machines, m \in fresh, mem[m] = h, owner'[h] = owner[h],
             pc[m] = "reserve"
      PROVE  FALSE
  BY <1>3, ReservesItsOwn, IPAMAssumption
<1> QED BY <1>0, <1>1, <1>2, <1>3, HardwareSteps, IPAMAssumption

\* So has a reserved address its claim: nobody but the worker of the controller
\* takes the finalizer off, and that after it has released the Hardware.
LEMMA ReservedStaysClaimed ==
  ASSUME IPAMInv, [IPAMNext]_ipamVars
  PROVE  ReservedAddressIsClaimed'
<1>0. IPAMTypeOK /\ ReservedAddressIsClaimed /\ FreeHardwareHasNoAddress
  BY DEF IPAMInv
<1> SUFFICES ASSUME NEW h \in Hardware, reserved'[h] # None
             PROVE  \E n \in Names :
                      /\ n[1] = h
                      /\ claim'[n].exists /\ claim'[n].capt
                      /\ claim'[n].bound = reserved'[h]
                      /\ claim'[n].controller = owner'[h]
  BY DEF ReservedAddressIsClaimed
\* A claim that is held goes on unless its finalizer is taken off.
<1>1. ASSUME NEW n \in Names, n[1] = h, claim[n].exists, claim[n].capt,
             claim[n].bound = reserved'[h], claim[n].controller = owner[h],
             owner'[h] = owner[h]
      PROVE  /\ claim'[n].exists /\ claim'[n].capt
             /\ claim'[n].bound = reserved'[h]
             /\ claim'[n].controller = owner'[h]
  <2>1. ASSUME NEW x \in Machines, LetGo(x, n)
        PROVE  FALSE
    <3>1. owner[h] = x
      BY <1>1, <2>1, LetGoByController DEF Controls
    <3>2. mem[x] = h
      BY <1>1, <2>1, KeyParts DEF LetGo
    <3>3. owner[mem[x]] # x
      BY <2>1, <3>2 DEF IPAMInv, WorkersAgree, HardwareAgrees, LetGo, Releasing
    <3> QED BY <3>1, <3>2, <3>3
  <2> QED BY <1>0, <1>1, <2>1, ClaimSteps
<1>2. CASE owner'[h] = owner[h] /\ reserved'[h] = reserved[h]
  <2>1. PICK n \in Names : /\ n[1] = h
                           /\ claim[n].exists /\ claim[n].capt
                           /\ claim[n].bound = reserved[h]
                           /\ claim[n].controller = owner[h]
    BY <1>0, <1>2 DEF ReservedAddressIsClaimed
  <2> QED BY <1>1, <1>2, <2>1
<1>3. ASSUME NEW m \in Machines, m \in fresh, mem[m] = h, owner'[h] = owner[h],
             pc[m] = "reserve", reserved'[h] = ip[m]
      PROVE  \E n \in Names :
               /\ n[1] = h
               /\ claim'[n].exists /\ claim'[n].capt
               /\ claim'[n].bound = reserved'[h]
               /\ claim'[n].controller = owner'[h]
  <2>1. PICK n \in Names : /\ n[1] = h /\ Controls(m, n) /\ claim[n].capt
                           /\ claim[n].bound = ip[m] /\ owner[h] = m
    BY <1>3, ReservesItsOwn
  <2> QED BY <1>1, <1>3, <2>1 DEF Controls
<1>4. ASSUME NEW m \in Machines, reserved'[h] = reserved[h], owner[h] = None
      PROVE  FALSE
  BY <1>0, <1>4 DEF FreeHardwareHasNoAddress
<1>5. ASSUME NEW m \in Machines, pc[m] = "release",
             reserved'[h] = IF asked[m] = None THEN reserved[h] ELSE None
      PROVE  FALSE
  BY <1>5, ReleaseClears
<1> QED BY <1>0, <1>2, <1>3, <1>4, <1>5, HardwareSteps

-------------------------------------------------------------------------------
(* The types *)

\* The steps of a worker keep the types.
LEMMA OwnStepKeepsTypes ==
  ASSUME IPAMTypeOK, NEW m \in Machines, OwnStep(m)
  PROVE  /\ pc' \in [Machines -> Reserving \cup Releasing \cup {"idle", "addFinalizer"}]
         /\ mem' \in [Machines -> Hardware \cup {None}]
         /\ asked' \in [Machines -> Pools \cup {None}]
         /\ ip' \in [Machines -> Addresses \cup {None}]
         /\ fresh' \in SUBSET Machines
         /\ owner' \in [Hardware -> Machines \cup {None}]
         /\ reserved' \in [Hardware -> Addresses \cup {None}]
         /\ faults' \in 0..MaxFaults
         /\ pc'[m] \in {"reserve", "setStatus", "release"} => mem'[m] \in Hardware
         /\ pc'[m] \in (Reserving \ {"setStatus"}) \cup {"removeClaimFinalizer", "deleteClaim"}
              => Key(m)' \in Names
<1>0. IPAMTypeOK
  OBVIOUS
<1>t. /\ pc \in [Machines -> Reserving \cup Releasing \cup {"idle", "addFinalizer"}]
      /\ mem \in [Machines -> Hardware \cup {None}]
      /\ asked \in [Machines -> Pools \cup {None}]
      /\ ip \in [Machines -> Addresses \cup {None}]
      /\ fresh \in SUBSET Machines
      /\ owner \in [Hardware -> Machines \cup {None}]
      /\ reserved \in [Hardware -> Addresses \cup {None}]
      /\ faults \in 0..MaxFaults /\ MaxFaults \in Nat
      /\ machine[m] \in MachineState
      /\ machine[m].hardware \in Hardware \cup {None} /\ machine[m].pool \in Pools \cup {None}
  BY <1>0, IPAMAssumption DEF IPAMTypeOK, MachineState
<1>k. /\ (pc[m] \in {"reserve", "setStatus", "release"} => mem[m] \in Hardware)
      /\ (pc[m] \in {"getClaim", "createClaim", "getAddress", "reserve",
                      "removeClaimFinalizer", "deleteClaim"} => Key(m) \in Names)
  BY <1>0, Typed
<1> USE DEF Goto, Return, WriteHardware, hardwareVars, memory, Reserving, Releasing
<1>1. CASE EnsureHardware(m)
  <2>1. /\ pc'[m] \in {"addFinalizer", "setStatus", "getClaim"}
        /\ pc'[m] # "addFinalizer" => mem'[m] \in Hardware
        /\ pc'[m] = "getClaim" => asked'[m] \in Pools
    BY <1>1, <1>t DEF EnsureHardware
  <2>2. pc'[m] = "getClaim" => Key(m)' \in Names
    BY <2>1 DEF Key, Names
  <2>3. /\ pc' \in [Machines -> Reserving \cup Releasing \cup {"idle", "addFinalizer"}]
        /\ mem' \in [Machines -> Hardware \cup {None}]
        /\ asked' \in [Machines -> Pools \cup {None}]
        /\ owner' \in [Hardware -> Machines \cup {None}]
        /\ fresh' \in SUBSET Machines
        /\ ip' = ip /\ reserved' = reserved /\ faults' = faults
    BY <1>1, <1>t DEF EnsureHardware
  <2> QED BY <1>t, <2>1, <2>2, <2>3
<1>2. CASE GetHardware(m)
  <2>1. /\ pc' \in [Machines -> Reserving \cup Releasing \cup {"idle", "addFinalizer"}]
        /\ mem' \in [Machines -> Hardware \cup {None}]
        /\ asked' \in [Machines -> Pools \cup {None}]
        /\ fresh' \in SUBSET Machines
        /\ owner' = owner /\ ip' = ip /\ reserved' = reserved /\ faults' = faults
    BY <1>2, <1>t DEF GetHardware
  <2>2. /\ pc'[m] \in {"findClaim", "release"}
        /\ pc'[m] = "release" => mem'[m] \in Hardware
    BY <1>2, <1>t DEF GetHardware
  <2> QED BY <1>t, <2>1, <2>2
\* The steps that keep mem and asked.
<1>3. ASSUME mem' = mem, asked' = asked
      PROVE  Key(m)' = Key(m)
  BY <1>3 DEF Key
<1>4. CASE CreateClaim(m) \/ SetStatus(m) \/ DeleteClaim(m)
  <2>1. /\ UNCHANGED <<mem, asked, ip, owner, reserved, fresh, faults>>
        /\ pc' \in [Machines -> Reserving \cup Releasing \cup {"idle", "addFinalizer"}]
        /\ pc'[m] \in {"addFinalizer", "removeFinalizer"}
    BY <1>4, <1>t DEF CreateClaim, SetStatus, DeleteClaim
  <2> QED BY <1>t, <1>k, <1>3, <2>1
<1>5. CASE GetClaim(m) \/ GetAddress(m)
  <2>1. Key(m) \in Names /\ pc[m] \in {"getClaim", "getAddress"}
    BY <1>5, <1>k DEF GetClaim, GetAddress
  <2>2. claim[Key(m)].bound \in Addresses \cup {None} /\ mem[m] \in Hardware
    BY <1>0, <2>1, KeyParts DEF IPAMTypeOK, ClaimState
  <2>3. /\ UNCHANGED <<mem, asked, owner, reserved, fresh, faults>>
        /\ pc' \in [Machines -> Reserving \cup Releasing \cup {"idle", "addFinalizer"}]
        /\ ip' \in [Machines -> Addresses \cup {None}]
        /\ pc'[m] \in {"addFinalizer", "createClaim", "getAddress", "reserve"}
    BY <1>5, <1>t, <2>2 DEF GetClaim, GetAddress
  <2> QED BY <1>t, <1>3, <2>1, <2>2, <2>3
<1>6. CASE Reserve(m)
  <2>1. /\ UNCHANGED <<mem, asked, ip, owner, faults>>
        /\ pc' \in [Machines -> Reserving \cup Releasing \cup {"idle", "addFinalizer"}]
        /\ reserved' \in [Hardware -> Addresses \cup {None}]
        /\ fresh' \in SUBSET Machines
        /\ pc[m] = "reserve" /\ pc'[m] \in {"addFinalizer", "setStatus"}
    BY <1>6, <1>t DEF Reserve
  <2> QED BY <1>t, <1>k, <2>1
<1>7. CASE Release(m)
  <2>1. /\ mem' \in [Machines -> Hardware \cup {None}]
        /\ asked' \in [Machines -> Pools \cup {None}]
        /\ ip' \in [Machines -> Addresses \cup {None}]
        /\ pc' \in [Machines -> Reserving \cup Releasing \cup {"idle", "addFinalizer"}]
        /\ reserved' \in [Hardware -> Addresses \cup {None}]
        /\ owner' \in [Hardware -> Machines \cup {None}]
        /\ fresh' \in SUBSET Machines /\ faults' = faults
        /\ pc'[m] \in {"idle", "findClaim"}
    BY <1>7, <1>t DEF Release
  <2> QED BY <1>t, <2>1
<1>8. CASE FindClaim(m)
  <2>1. /\ UNCHANGED <<mem, asked, ip, owner, reserved, fresh, faults>>
        /\ pc' \in [Machines -> Reserving \cup Releasing \cup {"idle", "addFinalizer"}]
        /\ \/ pc'[m] = "removeFinalizer"
           \/ pc'[m] \in {"removeClaimFinalizer", "deleteClaim"} /\ Key(m) \in Names
    BY <1>8, <1>t DEF FindClaim
  <2> QED BY <1>t, <1>3, <2>1
<1>9. CASE RemoveClaimFinalizer(m)
  <2>1. /\ owner' = owner /\ reserved' = reserved /\ faults' = faults
        /\ \/ Return(m)
           \/ UNCHANGED <<mem, asked, ip, fresh>> /\ Goto(m, "deleteClaim")
              /\ pc[m] = "removeClaimFinalizer"
    BY <1>9 DEF RemoveClaimFinalizer
  <2> QED BY <1>t, <1>k, <1>3, <2>1
<1>10. CASE AddFinalizer(m) \/ RemoveFinalizer(m)
  <2>1. /\ owner' = owner /\ reserved' = reserved /\ faults' = faults /\ Return(m)
    BY <1>10 DEF AddFinalizer, RemoveFinalizer
  <2> QED BY <1>t, <2>1
<1>11. CASE CallFails(m) \/ Crash(m)
  <2>1. /\ owner' = owner /\ reserved' = reserved
        /\ faults < MaxFaults /\ faults' = faults + 1
        /\ \/ Return(m)
           \/ UNCHANGED <<mem, asked, ip, fresh>> /\ Goto(m, "addFinalizer")
    BY <1>11 DEF CallFails, Crash
  <2>2. faults' \in 0..MaxFaults
    BY <1>t, <2>1
  <2>3. /\ mem' \in [Machines -> Hardware \cup {None}]
        /\ asked' \in [Machines -> Pools \cup {None}]
        /\ ip' \in [Machines -> Addresses \cup {None}]
        /\ pc' \in [Machines -> Reserving \cup Releasing \cup {"idle", "addFinalizer"}]
        /\ fresh' \in SUBSET Machines
        /\ pc'[m] \in {"idle", "addFinalizer"}
    BY <1>t, <2>1
  <2> QED BY <1>t, <2>1, <2>2, <2>3
<1> QED BY <1>1, <1>2, <1>4, <1>5, <1>6, <1>7, <1>8, <1>9, <1>10, <1>11 DEF OwnStep, Worker

\* The address on the copy of the Hardware is one that was read there.
LEMMA HeldKeepsItsType ==
  ASSUME IPAMTypeOK, [IPAMNext]_ipamVars
  PROVE  held' \in [Machines -> Addresses \cup {None}]
<1>t. /\ held \in [Machines -> Addresses \cup {None}]
      /\ reserved \in [Hardware -> Addresses \cup {None}]
  BY DEF IPAMTypeOK
<1> USE DEF memory
<1>1. ASSUME NEW m \in Machines, OwnStep(m)
      PROVE  held' = held \/ \E a \in Addresses \cup {None} : held' = [held EXCEPT ![m] = a]
  <2>1. CASE EnsureHardware(m)
    BY <1>t, <2>1 DEF EnsureHardware
  <2>2. CASE GetHardware(m) \/ GetClaim(m) \/ CreateClaim(m) \/ GetAddress(m) \/ Reserve(m)
             \/ SetStatus(m) \/ FindClaim(m) \/ DeleteClaim(m)
    BY <2>2 DEF GetHardware, GetClaim, CreateClaim, GetAddress, Reserve, SetStatus, FindClaim,
                DeleteClaim
  <2>3. CASE AddFinalizer(m) \/ RemoveFinalizer(m) \/ Release(m) \/ RemoveClaimFinalizer(m)
             \/ CallFails(m) \/ Crash(m)
    BY <2>3 DEF AddFinalizer, RemoveFinalizer, Release, RemoveClaimFinalizer, CallFails, Crash,
                Return
  <2> QED BY <1>1, <2>1, <2>2, <2>3 DEF OwnStep, Worker
<1>2. ASSUME NEW m \in Machines, UserStep(m)
      PROVE  held' = held
  BY <1>2 DEF UserStep, DeleteMachine, EditPool, UpdateThroughV1beta1, SetPool
<1>3. ASSUME NEW n \in Names, Bind(n) \/ Unbind(n) \/ UserDeletesClaim(n)
      PROVE  held' = held
  BY <1>3 DEF Bind, Unbind, UserDeletesClaim
<1>4. ASSUME TouchHardwareStep \/ UNCHANGED ipamVars
      PROVE  held' = held
  BY <1>4 DEF TouchHardwareStep, TouchHardware, ipamVars
<1> QED BY <1>t, <1>1, <1>2, <1>3, <1>4, StepCases

\* Every step keeps the types.
LEMMA TypesAreKept ==
  ASSUME IPAMTypeOK, [IPAMNext]_ipamVars
  PROVE  IPAMTypeOK'
<1>0. IPAMTypeOK
  OBVIOUS
<1>1. machine' \in [Machines -> MachineState]
  <2>t. machine \in [Machines -> MachineState] /\ mem \in [Machines -> Hardware \cup {None}]
    BY <1>0 DEF IPAMTypeOK
  <2>n. NoMachine \in MachineState
    BY DEF NoMachine, MachineState
  <2>p. ASSUME NEW m \in Machines, NEW new \in MachineState, Patch(m, new)
        PROVE  machine' \in [Machines -> MachineState]
    BY <2>t, <2>p DEF Patch
  <2>1. ASSUME NEW m \in Machines, OwnStep(m)
        PROVE  machine' \in [Machines -> MachineState]
    <3>t. machine[m] \in MachineState /\ mem[m] \in Hardware \cup {None}
      BY <2>t
    <3>1. CASE SetStatus(m) \/ AddFinalizer(m)
      <4>1. ASSUME NEW new,
                   \/ new = [machine[m] EXCEPT !.hardware = mem[m]]
                   \/ new = [machine[m] EXCEPT !.finalizer = TRUE, !.hardware = mem[m]]
            PROVE  new \in MachineState
        BY <3>t, <4>1 DEF MachineState
      <4> QED BY <2>p, <3>1, <4>1 DEF SetStatus, AddFinalizer
    <3>2. CASE RemoveFinalizer(m)
      BY <2>t, <2>n, <3>2 DEF RemoveFinalizer
    <3>3. CASE EnsureHardware(m) \/ GetHardware(m) \/ GetClaim(m) \/ CreateClaim(m)
               \/ GetAddress(m) \/ Reserve(m) \/ Release(m) \/ FindClaim(m)
      BY <2>t, <3>3 DEF EnsureHardware, GetHardware, GetClaim, CreateClaim, GetAddress, Reserve,
                        Release, FindClaim
    <3>4. CASE RemoveClaimFinalizer(m) \/ DeleteClaim(m) \/ CallFails(m) \/ Crash(m)
      BY <2>t, <3>4 DEF RemoveClaimFinalizer, DeleteClaim, CallFails, Crash
    <3> QED BY <2>1, <3>1, <3>2, <3>3, <3>4 DEF OwnStep, Worker
  <2>2. ASSUME NEW m \in Machines, UserStep(m)
        PROVE  machine' \in [Machines -> MachineState]
    <3>t. machine[m] \in MachineState
      BY <2>t
    <3>1. CASE DeleteMachine(m)
      <4>1. ASSUME NEW new, new = [machine[m] EXCEPT !.deleting = TRUE]
            PROVE  new \in MachineState
        BY <3>t, <4>1 DEF MachineState
      <4> QED BY <2>t, <2>n, <3>1, <4>1 DEF DeleteMachine
    <3>2. ASSUME NEW new, NEW q, new = [machine[m] EXCEPT !.pool = q], SetPool(m, new)
          PROVE  machine' \in [Machines -> MachineState]
      <4>1. q \in Pools \cup {None}
        BY <3>t, <3>2, IPAMAssumption DEF SetPool, MachineState
      <4>2. new \in MachineState
        BY <3>t, <3>2, <4>1 DEF MachineState
      <4> QED BY <2>p, <3>2, <4>2 DEF SetPool
    <3>3. CASE EditPool(m)
      BY <3>2, <3>3 DEF EditPool
    <3>4. CASE UpdateThroughV1beta1(m)
      <4>1. PICK data : SetPool(m, ConvertMachineToHub(machine[m],
                         [ConvertMachineFromHub(machine[m]) EXCEPT !.data = data]))
        BY <3>4 DEF UpdateThroughV1beta1
      <4>2. PICK new : new = ConvertMachineToHub(machine[m],
                         [ConvertMachineFromHub(machine[m]) EXCEPT !.data = data])
        OBVIOUS
      <4>3. PICK q : new = [machine[m] EXCEPT !.hardware = machine[m].hardware, !.pool = q]
        BY <4>2 DEF ConvertMachineToHub, ConvertMachineFromHub
      <4>4. new = [machine[m] EXCEPT !.pool = q]
        BY <3>t, <4>3 DEF MachineState
      <4> QED BY <3>2, <4>1, <4>2, <4>4
    <3> QED BY <2>2, <3>1, <3>3, <3>4 DEF UserStep
  <2>3. ASSUME NEW n \in Names, Bind(n) \/ Unbind(n) \/ UserDeletesClaim(n)
        PROVE  machine' = machine
    BY <2>3 DEF Bind, Unbind, UserDeletesClaim
  <2>4. ASSUME TouchHardwareStep \/ UNCHANGED ipamVars
        PROVE  machine' = machine
    BY <2>4 DEF TouchHardwareStep, TouchHardware, ipamVars
  <2> QED BY <2>t, <2>1, <2>2, <2>3, <2>4, StepCases
<1>2. claim' \in [Names -> ClaimState] /\ current' \in SUBSET Machines
  <2>t. claim \in [Names -> ClaimState] /\ current \in SUBSET Machines
    BY <1>0 DEF IPAMTypeOK
  <2>w. ASSUME NEW n, NEW new, WriteClaim(n, new)
        PROVE  current' \subseteq current /\ \E v : claim' = [claim EXCEPT ![n] = v]
    BY <2>w DEF WriteClaim
  <2>1. ASSUME NEW m \in Machines, OwnStep(m)
        PROVE  /\ claim' = claim \/ \E n, v : claim' = [claim EXCEPT ![n] = v]
               /\ current' \subseteq current \cup {m}
    <3>1. CASE CreateClaim(m) \/ DeleteClaim(m)
      BY <2>w, <3>1 DEF CreateClaim, DeleteClaim, claimVars
    <3>2. CASE RemoveClaimFinalizer(m)
      BY <2>w, <3>2 DEF RemoveClaimFinalizer, Return
    <3>3. CASE EnsureHardware(m) \/ GetHardware(m) \/ GetClaim(m) \/ GetAddress(m) \/ Reserve(m)
               \/ SetStatus(m)
      BY <3>3 DEF EnsureHardware, GetHardware, GetClaim, GetAddress, Reserve, SetStatus, claimVars
    <3>4. CASE AddFinalizer(m) \/ Release(m) \/ FindClaim(m) \/ RemoveFinalizer(m)
      BY <3>4 DEF AddFinalizer, Release, FindClaim, RemoveFinalizer, Return
    <3>5. CASE CallFails(m) \/ Crash(m)
      BY <3>5 DEF CallFails, Crash, Return
    <3> QED BY <2>1, <3>1, <3>2, <3>3, <3>4, <3>5 DEF OwnStep, Worker
  <2>2. ASSUME NEW m \in Machines, UserStep(m)
        PROVE  claim' = claim /\ current' = current
    BY <2>2 DEF UserStep, DeleteMachine, EditPool, UpdateThroughV1beta1, SetPool, claimVars
  <2>3. ASSUME NEW n \in Names, Bind(n) \/ Unbind(n) \/ UserDeletesClaim(n)
        PROVE  (\E v : claim' = [claim EXCEPT ![n] = v]) /\ current' \subseteq current
    BY <2>w, <2>3 DEF Bind, Unbind, UserDeletesClaim
  <2>4. ASSUME TouchHardwareStep \/ UNCHANGED ipamVars
        PROVE  claim' = claim /\ current' = current
    BY <2>4 DEF TouchHardwareStep, TouchHardware, claimVars, ipamVars
  <2>5. claim' = claim \/ \E n, v : claim' = [claim EXCEPT ![n] = v]
    BY <2>1, <2>2, <2>3, <2>4, StepCases
  <2>6. \A n \in Names : claim'[n] \in ClaimState
    BY <1>0, ClaimSteps
  <2>7. current' \in SUBSET Machines
    BY <2>t, <2>1, <2>2, <2>3, <2>4, StepCases
  <2> QED BY <2>t, <2>5, <2>6, <2>7
<1>3. /\ pc' \in [Machines -> Reserving \cup Releasing \cup {"idle", "addFinalizer"}]
      /\ mem' \in [Machines -> Hardware \cup {None}]
      /\ asked' \in [Machines -> Pools \cup {None}]
      /\ ip' \in [Machines -> Addresses \cup {None}]
      /\ fresh' \in SUBSET Machines
      /\ owner' \in [Hardware -> Machines \cup {None}]
      /\ reserved' \in [Hardware -> Addresses \cup {None}]
      /\ faults' \in 0..MaxFaults
  <2>1. ASSUME NEW m \in Machines, UserStep(m)
        PROVE  UNCHANGED <<pc, mem, asked, ip, fresh, owner, reserved, faults>>
    BY <2>1 DEF UserStep, DeleteMachine, EditPool, UpdateThroughV1beta1, SetPool, hardwareVars,
                memory
  <2>2. ASSUME NEW n \in Names, Bind(n) \/ Unbind(n) \/ UserDeletesClaim(n)
        PROVE  UNCHANGED <<pc, mem, asked, ip, fresh, owner, reserved, faults>>
    BY <2>2 DEF Bind, Unbind, UserDeletesClaim, hardwareVars, memory
  <2>3. CASE TouchHardwareStep
    <3>1. /\ UNCHANGED <<pc, mem, asked, ip, owner, reserved>> /\ fresh' \subseteq fresh
          /\ faults < MaxFaults /\ faults' = faults + 1
      BY <2>3 DEF TouchHardwareStep, TouchHardware, memory
    <3>2. faults' \in 0..MaxFaults
      BY <1>0, <3>1, IPAMAssumption DEF IPAMTypeOK
    <3> QED BY <1>0, <3>1, <3>2 DEF IPAMTypeOK
  <2>4. CASE UNCHANGED ipamVars
    BY <1>0, <2>4 DEF IPAMTypeOK, ipamVars
  <2> QED BY <1>0, <2>1, <2>2, <2>3, <2>4, OwnStepKeepsTypes, StepCases DEF IPAMTypeOK
<1>4. ASSUME NEW m \in Machines
      PROVE  /\ pc'[m] \in {"reserve", "setStatus", "release"} => mem'[m] \in Hardware
             /\ pc'[m] \in (Reserving \ {"setStatus"}) \cup {"removeClaimFinalizer", "deleteClaim"}
                  => Key(m)' \in Names
  <2>1. CASE OwnStep(m)
    BY <2>1, OwnStepKeepsTypes
  <2>2. CASE ~OwnStep(m)
    <3>1. pc'[m] = pc[m] /\ mem'[m] = mem[m] /\ asked'[m] = asked[m]
      BY <1>0, <2>2, MemorySteps
    <3>2. Key(m)' = Key(m)
      BY <3>1 DEF Key
    <3> QED BY <1>0, <3>1, <3>2 DEF IPAMTypeOK
  <2> QED BY <2>1, <2>2
<1> QED BY <1>1, <1>2, <1>3, <1>4, HeldKeepsItsType DEF IPAMTypeOK

-------------------------------------------------------------------------------
(* The invariant and what follows from it *)

\* IPAMInv holds of the initial states.
LEMMA InitEstablishesIPAMInv == IPAMInit => IPAMInv
<1> SUFFICES ASSUME IPAMInit PROVE IPAMInv
  OBVIOUS
<1>1. \A m \in Machines : /\ machine[m] \in MachineState
                          /\ machine[m].exists => machine[m].pool # None
                          /\ ~machine[m].finalizer
  <2>1. NoMachine \in MachineState /\ ~NoMachine.exists /\ ~NoMachine.finalizer
    BY DEF NoMachine, MachineState
  <2>2. ASSUME NEW p \in Pools, NEW new, new = [NoMachine EXCEPT !.exists = TRUE, !.pool = p]
        PROVE  new \in MachineState /\ new.pool # None /\ ~new.finalizer
    BY <2>2, IPAMAssumption DEF NoMachine, MachineState
  <2>3. \A m \in Machines : \/ machine[m] = NoMachine
                           \/ \E p \in Pools :
                                machine[m] = [NoMachine EXCEPT !.exists = TRUE, !.pool = p]
    BY DEF IPAMInit
  <2>4. ASSUME NEW m \in Machines, machine[m] # NoMachine
        PROVE  machine[m] \in MachineState /\ machine[m].pool # None /\ ~machine[m].finalizer
    <3>1. PICK p \in Pools : machine[m] = [NoMachine EXCEPT !.exists = TRUE, !.pool = p]
      BY <2>3, <2>4
    <3> QED BY <2>2, <3>1
  <2> QED BY <2>1, <2>4
<1>2. \A m \in Machines : \A n \in Names : ~Controls(m, n)
  BY DEF IPAMInit, Controls, NoClaim
<1>3. IPAMTypeOK
  <2>1. machine \in [Machines -> MachineState]
    <3>1. machine = [m \in Machines |-> machine[m]]
      BY DEF IPAMInit
    <3> QED BY <1>1, <3>1
  <2>2. NoClaim \in ClaimState
    BY DEF NoClaim, ClaimState
  <2>3. 0 \in 0..MaxFaults
    BY IPAMAssumption
  <2>4. \A m \in Machines : pc[m] \notin Reserving \cup Releasing
    BY DEF IPAMInit, Reserving, Releasing
  <2>5. /\ owner \in [Hardware -> Machines \cup {None}]
        /\ reserved \in [Hardware -> Addresses \cup {None}]
        /\ claim \in [Names -> ClaimState]
        /\ pc \in [Machines -> Reserving \cup Releasing \cup {"idle", "addFinalizer"}]
        /\ mem \in [Machines -> Hardware \cup {None}]
        /\ asked \in [Machines -> Pools \cup {None}]
        /\ ip \in [Machines -> Addresses \cup {None}]
        /\ held \in [Machines -> Addresses \cup {None}]
        /\ fresh \in SUBSET Machines /\ current \in SUBSET Machines /\ faults = 0
    BY <2>2 DEF IPAMInit
  <2> QED BY <2>1, <2>3, <2>4, <2>5 DEF IPAMTypeOK, Reserving, Releasing
<1>4. \A m \in Machines : pc[m] = "idle" /\ m \notin fresh
  BY DEF IPAMInit
<1>5. WorkersAgree
  BY <1>1, <1>2, <1>4 DEF WorkersAgree, PoolAgrees, HardwareAgrees, ClaimAgrees, Reserving, Releasing
<1>6. ReservedAddressIsClaimed /\ FreeHardwareHasNoAddress
  BY DEF IPAMInit, ReservedAddressIsClaimed, FreeHardwareHasNoAddress
<1> QED BY <1>3, <1>5, <1>6 DEF IPAMInv

\* Every step keeps IPAMInv.
LEMMA StepKeepsIPAMInv == Settled /\ IPAMInv /\ [IPAMNext]_ipamVars => IPAMInv'
<1> SUFFICES ASSUME Settled, IPAMInv, [IPAMNext]_ipamVars PROVE IPAMInv'
  OBVIOUS
<1>1. WorkersAgree'
  BY PoolKeepsAgreeing, HardwareKeepsAgreeing, ClaimKeepsAgreeing DEF WorkersAgree
<1>2. IPAMTypeOK'
  BY TypesAreKept DEF IPAMInv
<1> QED BY <1>1, <1>2, ReservedStaysClaimed, FreeKeepsNoAddress DEF IPAMInv

\* The workers agree with the machines, the Hardware and the claims.
THEOREM IPAMCorrect ==
  ASSUME Settled
  PROVE  IPAMSpec => []IPAMInv
<1>1. IPAMInv /\ [IPAMNext]_ipamVars => IPAMInv'
  BY StepKeepsIPAMInv
<1> QED BY <1>1, InitEstablishesIPAMInv, PTL DEF IPAMSpec

\* Every variable holds values of its kind, and a worker that looks for a claim
\* has the Hardware and the pool its name is made of: however pools are edited.
THEOREM IPAMTypesCorrect == IPAMSpec => []IPAMTypeOK
<1>1. IPAMInit => IPAMTypeOK
  BY InitEstablishesIPAMInv DEF IPAMInv
<1>2. IPAMTypeOK /\ [IPAMNext]_ipamVars => IPAMTypeOK'
  BY TypesAreKept
<1> QED BY <1>1, <1>2, PTL DEF IPAMSpec

\* A reserved address has the claim it came from, with CAPT's finalizer on it.
THEOREM ReservedIsClaimed ==
  ASSUME Settled
  PROVE  IPAMSpec => []ReservedAddressIsClaimed
<1>1. IPAMInv => ReservedAddressIsClaimed
  BY DEF IPAMInv
<1> QED BY <1>1, IPAMCorrect, PTL

\* Free Hardware reserves no address.
THEOREM FreeHasNoAddress ==
  ASSUME Settled
  PROVE  IPAMSpec => []FreeHardwareHasNoAddress
<1>1. IPAMInv => FreeHardwareHasNoAddress
  BY DEF IPAMInv
<1> QED BY <1>1, IPAMCorrect, PTL

\* The name the deletion of a machine looks under is that of its claim.
THEOREM DeletionFinds ==
  ASSUME Settled
  PROVE  IPAMSpec => []DeletionFindsTheClaim
<1>1. IPAMInv => DeletionFindsTheClaim
  BY DEF IPAMInv, WorkersAgree, PoolAgrees, DeletionFindsTheClaim
<1> QED BY <1>1, IPAMCorrect, PTL

\* A machine with its finalizer goes after CAPT's finalizer is off its claim.
THEOREM ClaimIsReleased ==
  ASSUME Settled
  PROVE  IPAMSpec => ClaimIsReleasedBeforeMachineGoes
<1>1. ASSUME IPAMInv, [IPAMNext]_ipamVars, NEW m \in Machines, NEW n \in Names,
             machine[m].finalizer, machine[m].hardware = n[1], ~machine'[m].exists,
             Controls(m, n), claim[n].capt
      PROVE  FALSE
  <2>0. /\ IPAMTypeOK /\ PoolAgrees(m) /\ HardwareAgrees(m) /\ ClaimAgrees(m)
        /\ machine[m] \in MachineState
    BY <1>1 DEF IPAMInv, WorkersAgree, IPAMTypeOK
  <2>1. CASE RemoveFinalizer(m)
    <3>1. pc[m] = "removeFinalizer"
      BY <2>1 DEF RemoveFinalizer
    <3>2. mem[m] = n[1]
      BY <1>1, <2>0, <3>1 DEF HardwareAgrees, Releasing
    <3>3. asked[m] = n[2]
      BY <1>1, <2>0, <3>1 DEF PoolAgrees
    <3>4. n = Key(m)
      BY <3>2, <3>3, KeyParts
    <3> QED BY <1>1, <2>0, <3>1, <3>4 DEF ClaimAgrees
  <2>2. CASE ~RemoveFinalizer(m) /\ machine[m].exists
    <3>1. ASSUME NEW p, machine'[m] = [machine[m] EXCEPT !.pool = p]
          PROVE  FALSE
      BY <1>1, <2>0, <2>2, <3>1 DEF MachineState
    <3>2. ASSUME NEW f, machine'[m] = [machine[m] EXCEPT !.finalizer = f, !.hardware = mem[m]]
          PROVE  FALSE
      BY <1>1, <2>0, <2>2, <3>2 DEF MachineState
    <3>3. machine'[m] # [machine[m] EXCEPT !.deleting = TRUE]
      BY <1>1, <2>0, <2>2 DEF MachineState
    <3> QED BY <1>1, <2>0, <2>2, <3>1, <3>2, <3>3, MachineSteps
  <2> QED BY <1>1, <2>0, <2>1, <2>2 DEF PoolAgrees
<1>2. IPAMInv /\ [IPAMNext]_ipamVars =>
        [\A m \in Machines : \A n \in Names :
           machine[m].finalizer /\ machine[m].hardware = n[1] /\ ~machine'[m].exists
           /\ Controls(m, n) => ~claim[n].capt]_ipamVars
  BY <1>1
<1> QED BY <1>2, IPAMCorrect, PTL DEF IPAMSpec, ClaimIsReleasedBeforeMachineGoes

\* The address of Hardware does not change under the machine that has it: what
\* its worker reserves is what its one claim is bound to.
THEOREM AddressIsKept ==
  ASSUME Settled
  PROVE  IPAMSpec => RunningMachineKeepsItsAddress
<1>1. ASSUME IPAMInv, [IPAMNext]_ipamVars, NEW h \in Hardware,
             reserved[h] # None, owner'[h] = owner[h]
      PROVE  reserved'[h] = reserved[h]
  <2>0. IPAMTypeOK /\ ReservedAddressIsClaimed /\ FreeHardwareHasNoAddress
    BY <1>1 DEF IPAMInv
  <2>1. owner[h] # None
    BY <1>1, <2>0 DEF FreeHardwareHasNoAddress
  <2>2. ASSUME NEW m \in Machines, m \in fresh, mem[m] = h, pc[m] = "reserve",
               reserved'[h] = ip[m]
        PROVE  reserved'[h] = reserved[h]
    <3>1. /\ owner[h] = m /\ Key(m) \in Names
          /\ claim[Key(m)].bound = ip[m]
      BY <1>1, <2>2, ReservesItsOwn
    <3>2. PICK n \in Names : n[1] = h /\ Controls(m, n) /\ claim[n].bound = reserved[h]
      BY <1>1, <2>0, <3>1 DEF ReservedAddressIsClaimed, Controls
    <3>3. asked[m] = n[2]
      BY <1>1, <2>2, <3>2 DEF IPAMInv, WorkersAgree, PoolAgrees
    <3>4. n = Key(m)
      BY <2>2, <3>2, <3>3, KeyParts
    <3> QED BY <2>2, <3>1, <3>2, <3>4
  <2> QED BY <1>1, <2>0, <2>1, <2>2, HardwareSteps
<1>2. IPAMInv /\ [IPAMNext]_ipamVars =>
        [\A h \in Hardware :
           reserved[h] # None /\ owner'[h] = owner[h] => reserved'[h] = reserved[h]]_ipamVars
  BY <1>1
<1> QED BY <1>2, IPAMCorrect, PTL DEF IPAMSpec, RunningMachineKeepsItsAddress
===============================================================================
