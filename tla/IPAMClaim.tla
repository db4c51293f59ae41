------------------------------- MODULE IPAMClaim -------------------------------
(***************************************************************************)
(* addressFromPool: a worker claims an address from an IPAM pool for the   *)
(* Hardware its machine has, reserves it on the Hardware once the provider *)
(* has answered, and hands it back when the machine is deleted             *)
(* (src/controller/machine/ipam.go and its callers in scope.go and         *)
(* hardware.go).                                                           *)
(*                                                                         *)
(* A claim is named after the Hardware and the pool, so its name is the    *)
(* same for every machine that has the Hardware.  The pool is the user's   *)
(* to edit, in either API version, as far as the webhook allows it.  How   *)
(* Hardware is claimed is MachineLifecycle's: here ensureHardware is one   *)
(* step that keeps HardwareLease.  So are removeDependencies and the       *)
(* power-off, which change nothing that is modelled here.                  *)
(***************************************************************************)
EXTENDS Naturals

CONSTANTS
  Machines,
  Hardware,
  Pools,
  Addresses,
  Offers,       \* the addresses each pool hands out
  Edits,        \* what users change a machine's pool to
  EditsInFlight, \* they may do so before the Hardware is recorded
  External,     \* Tinkerbell is another cluster, reached by a direct client
  None,
  FaultPoints,  \* where a call may fail, or the controller crash
  MaxFaults     \* bound on the faults and on the writes of others to Hardware

ASSUME IPAMAssumption ==
  /\ None \notin Machines \cup Hardware \cup Pools \cup Addresses
  /\ Offers \in [Pools -> SUBSET Addresses]
  /\ Edits \subseteq Pools \cup {None}
  /\ {EditsInFlight, External} \subseteq BOOLEAN
  /\ MaxFaults \in Nat

VARIABLES
  machine,   \* the TinkerbellMachines
  owner,     \* the owner label of each Hardware
  reserved,  \* the address on the interface of each Hardware
  claim,     \* the IPAddressClaims by their names
  pc,        \* the call a machine's worker makes next
  mem,       \* the hardwareName in the worker's memory
  asked,     \* the addressFromPool of the TinkerbellMachine it has read
  ip,        \* the address the claim it has read is bound to
  held,      \* the address on its copy of the Hardware
  fresh,     \* the workers whose copy of the Hardware is current
  current,   \* the workers whose copy of the claim is current
  faults

ipamVars == <<machine, owner, reserved, claim, pc, mem, asked, ip, held, fresh,
              current, faults>>
hardwareVars == <<owner, reserved, fresh>>
claimVars == <<claim, current>>
memory == <<mem, asked, ip, held>>

MachineState == [exists : BOOLEAN, deleting : BOOLEAN, finalizer : BOOLEAN,
                 hardware : Hardware \cup {None}, pool : Pools \cup {None}]

\* ipAddressClaimKey.
Names == Hardware \X Pools
Key(m) == <<mem[m], asked[m]>>

ClaimState == [exists : BOOLEAN, deleting : BOOLEAN, capt : BOOLEAN, provider : BOOLEAN,
               controller : Machines \cup {None}, bound : Addresses \cup {None}]

NoMachine == [exists |-> FALSE, deleting |-> FALSE, finalizer |-> FALSE,
              hardware |-> None, pool |-> None]
NoClaim == [exists |-> FALSE, deleting |-> FALSE, capt |-> FALSE, provider |-> FALSE,
            controller |-> None, bound |-> None]

Reserving == {"getClaim", "createClaim", "getAddress", "reserve", "setStatus"}
Releasing == {"release", "findClaim", "removeClaimFinalizer",
              "deleteClaim", "removeFinalizer"}

IPAMInit ==
  /\ machine \in [Machines -> {NoMachine} \cup
                     {[NoMachine EXCEPT !.exists = TRUE, !.pool = p] : p \in Pools}]
  /\ owner = [h \in Hardware |-> None]
  /\ reserved = [h \in Hardware |-> None]
  /\ claim = [n \in Names |-> NoClaim]
  /\ pc = [m \in Machines |-> "idle"]
  /\ mem = [m \in Machines |-> None]
  /\ asked = [m \in Machines |-> None]
  /\ ip = [m \in Machines |-> None]
  /\ held = [m \in Machines |-> None]
  /\ fresh = {}
  /\ current = {}
  /\ faults = 0

Goto(m, step) == pc' = [pc EXCEPT ![m] = step]

Return(m) ==
  /\ Goto(m, "idle")
  /\ mem' = [mem EXCEPT ![m] = None]
  /\ asked' = [asked EXCEPT ![m] = None]
  /\ ip' = [ip EXCEPT ![m] = None]
  /\ held' = [held EXCEPT ![m] = None]
  /\ fresh' = fresh \ {m}
  /\ current' = current \ {m}

\* A write to Hardware or to a claim overtakes every other copy of it.
WriteHardware(m, h) == fresh' = {x \in fresh : mem[x] # h} \cup {m}

\* A claim that is being deleted goes with its last finalizer.
WriteClaim(n, new) ==
  /\ claim' = [claim EXCEPT ![n] =
                IF new.deleting /\ ~new.capt /\ ~new.provider THEN NoClaim ELSE new]
  /\ current' = {x \in current : Key(x) # n}

Controls(m, n) == claim[n].exists /\ claim[n].controller = m

\* A slip: the pool may be changed at any time.
ValidateUpdateOfHardware(old, new) ==
  old.hardware # None => new.hardware = old.hardware

\* The webhook for TinkerbellMachines: hardwareName is immutable once it is set,
\* and so is addressFromPool from then on.
ValidateUpdate(old, new) ==
  old.hardware # None => new.hardware = old.hardware /\ new.pool = old.pool

Patch(m, new) ==
  machine' = IF machine[m].exists /\ ValidateUpdate(machine[m], new)
             THEN [machine EXCEPT ![m] = new] ELSE machine

-------------------------------------------------------------------------------
\* ensureHardware: the machine's own Hardware, else a free one, else none.  A
\* machine without a pool skips the claim.
EnsureHardware(m) ==
  /\ pc[m] = "idle"
  /\ machine[m].exists /\ ~machine[m].deleting
  /\ LET Own == {h \in Hardware : owner[h] = m}
         Free == {h \in Hardware : owner[h] = None}
     IN \/ \E h \in (IF Own # {} THEN Own ELSE Free) :
             /\ owner' = [owner EXCEPT ![h] = m]
             /\ mem' = [mem EXCEPT ![m] = h]
             /\ held' = [held EXCEPT ![m] = reserved[h]]
             /\ IF h \in Own THEN fresh' = fresh \cup {m} ELSE WriteHardware(m, h)
             /\ Goto(m, IF machine[m].pool = None THEN "setStatus" ELSE "getClaim")
        \/ /\ Own = {} /\ Free = {}
           /\ Goto(m, "addFinalizer")
           /\ mem' = [mem EXCEPT ![m] = machine[m].hardware]
           /\ UNCHANGED <<owner, held, fresh>>
  /\ asked' = [asked EXCEPT ![m] = machine[m].pool]
  /\ UNCHANGED <<machine, reserved, claimVars, ip, faults>>

\* ensureIPAddressClaim and what reconcileIPAM makes of the claim: none is
\* created, one that is being deleted is waited for, whoever's it is, another
\* machine's is ErrIPAddressClaimConflict, one that is not bound is waited for.
GetClaim(m) ==
  /\ pc[m] = "getClaim"
  /\ LET c == claim[Key(m)] IN
     \/ /\ ~c.exists
        /\ Goto(m, "createClaim")
        /\ UNCHANGED ip
     \/ /\ c.exists
        /\ c.deleting \/ c.controller # m \/ c.bound = None
        /\ Goto(m, "addFinalizer")
        /\ UNCHANGED ip
     \/ /\ c.exists /\ ~c.deleting /\ c.controller = m /\ c.bound # None
        /\ Goto(m, "getAddress")
        /\ ip' = [ip EXCEPT ![m] = c.bound]
  /\ UNCHANGED <<machine, hardwareVars, claimVars, mem, asked, held, faults>>

\* A slip: the claim is created without CAPT's finalizer.
CreateClaimUnguarded(m) ==
  /\ pc[m] = "createClaim"
  /\ IF claim[Key(m)].exists
     THEN UNCHANGED claimVars
     ELSE WriteClaim(Key(m), [NoClaim EXCEPT !.exists = TRUE, !.controller = m])
  /\ Goto(m, "addFinalizer")
  /\ UNCHANGED <<machine, hardwareVars, memory, faults>>

\* The new claim is not bound yet.  One of that name made meanwhile is an error.
CreateClaim(m) ==
  /\ pc[m] = "createClaim"
  /\ IF claim[Key(m)].exists
     THEN UNCHANGED claimVars
     ELSE WriteClaim(Key(m), [NoClaim EXCEPT !.exists = TRUE, !.capt = TRUE,
                                             !.controller = m])
  /\ Goto(m, "addFinalizer")
  /\ UNCHANGED <<machine, hardwareVars, memory, faults>>

\* applyIPAddress gets the IPAddress that the claim it has read names, which is
\* there as long as the claim is.
GetAddress(m) ==
  /\ pc[m] = "getAddress"
  /\ Goto(m, IF claim[Key(m)].bound = ip[m] THEN "reserve" ELSE "addFinalizer")
  /\ UNCHANGED <<machine, hardwareVars, claimVars, memory, faults>>

\* ensureHardwareAddress: nothing to write when the copy of the Hardware holds
\* the address, else a patch under the optimistic lock.
Reserve(m) ==
  /\ pc[m] = "reserve"
  /\ \/ /\ held[m] = ip[m]
        /\ Goto(m, "setStatus")
        /\ UNCHANGED <<reserved, fresh>>
     \/ /\ held[m] # ip[m] /\ m \in fresh
        /\ reserved' = [reserved EXCEPT ![mem[m]] = ip[m]]
        /\ WriteHardware(m, mem[m])
        /\ Goto(m, "setStatus")
     \/ /\ held[m] # ip[m] /\ m \notin fresh
        /\ Goto(m, "addFinalizer")
        /\ UNCHANGED <<reserved, fresh>>
  /\ UNCHANGED <<machine, owner, claimVars, memory, faults>>

\* setStatus persists hardwareName along with the address.
SetStatus(m) ==
  /\ pc[m] = "setStatus"
  /\ Patch(m, [machine[m] EXCEPT !.hardware = mem[m]])
  /\ Goto(m, "addFinalizer")
  /\ UNCHANGED <<hardwareVars, claimVars, memory, faults>>

\* Deferred, and the first to persist hardwareName while there is no address.
AddFinalizer(m) ==
  /\ pc[m] = "addFinalizer"
  /\ Patch(m, [machine[m] EXCEPT !.finalizer = TRUE, !.hardware = mem[m]])
  /\ Return(m)
  /\ UNCHANGED <<owner, reserved, claim, faults>>

-------------------------------------------------------------------------------
\* A slip: a machine that never got Hardware is not told apart.
GetAnyHardware(m) ==
  /\ pc[m] = "idle"
  /\ machine[m].exists /\ machine[m].deleting
  /\ mem' = [mem EXCEPT ![m] = machine[m].hardware]
  /\ asked' = [asked EXCEPT ![m] = machine[m].pool]
  /\ Goto(m, "release") /\ fresh' = fresh \cup {m}
  /\ UNCHANGED <<machine, owner, reserved, claimVars, ip, held, faults>>

\* DeleteMachineWithDependencies.  For a machine without hardwareName the cache
\* answers NotFound; the direct client refuses to look up an empty name, and
\* Reconcile returns the error before it has changed anything.
GetHardware(m) ==
  /\ pc[m] = "idle"
  /\ machine[m].exists /\ machine[m].deleting
  /\ External => machine[m].hardware # None
  /\ mem' = [mem EXCEPT ![m] = machine[m].hardware]
  /\ asked' = [asked EXCEPT ![m] = machine[m].pool]
  /\ IF machine[m].hardware = None
     THEN Goto(m, "findClaim") /\ UNCHANGED fresh
     ELSE Goto(m, "release") /\ fresh' = fresh \cup {m}
  /\ UNCHANGED <<machine, owner, reserved, claimVars, ip, held, faults>>

\* A slip: the address stays on the Hardware.
ReleaseOwnerOnly(m) ==
  /\ pc[m] = "release"
  /\ \/ /\ m \in fresh
        /\ owner' = [owner EXCEPT ![mem[m]] = None]
        /\ WriteHardware(m, mem[m])
        /\ Goto(m, "findClaim")
        /\ UNCHANGED <<memory, current>>
     \/ /\ m \notin fresh
        /\ Return(m)
        /\ UNCHANGED owner
  /\ UNCHANGED <<machine, reserved, claim, faults>>

\* releaseHardware clears the owner and the address in one patch under the
\* optimistic lock.  ipamReservation finds the address by the machine's own
\* claim, or on the primary interface without one.  Without a pool there is
\* nothing to clear.
Release(m) ==
  /\ pc[m] = "release"
  /\ \/ /\ m \in fresh
        /\ owner' = [owner EXCEPT ![mem[m]] = None]
        /\ reserved' = IF asked[m] = None THEN reserved
                       ELSE [reserved EXCEPT ![mem[m]] = None]
        /\ WriteHardware(m, mem[m])
        /\ Goto(m, "findClaim")
        /\ UNCHANGED <<memory, current>>
     \/ /\ m \notin fresh
        /\ Return(m)
        /\ UNCHANGED <<owner, reserved>>
  /\ UNCHANGED <<machine, claim, faults>>

\* A slip: whose claim it is is not looked at.
FindAnyClaim(m) ==
  /\ pc[m] = "findClaim"
  /\ IF Key(m) \in Names /\ claim[Key(m)].exists
     THEN /\ current' = current \cup {m}
          /\ Goto(m, IF claim[Key(m)].capt THEN "removeClaimFinalizer" ELSE "deleteClaim")
     ELSE /\ UNCHANGED current
          /\ Goto(m, "removeFinalizer")
  /\ UNCHANGED <<machine, hardwareVars, claim, memory, faults>>

\* A slip: another machine's claim is an error here as it is in GetClaim.
FindOwnClaim(m) ==
  /\ pc[m] = "findClaim"
  /\ Key(m) \in Names => Controls(m, Key(m)) \/ ~claim[Key(m)].exists
  /\ IF Key(m) \in Names /\ Controls(m, Key(m))
     THEN /\ current' = current \cup {m}
          /\ Goto(m, IF claim[Key(m)].capt THEN "removeClaimFinalizer" ELSE "deleteClaim")
     ELSE /\ UNCHANGED current
          /\ Goto(m, "removeFinalizer")
  /\ UNCHANGED <<machine, hardwareVars, claim, memory, faults>>

\* releaseIPAddressClaim leaves a claim alone that the machine does not control.
FindClaim(m) ==
  /\ pc[m] = "findClaim"
  /\ IF Key(m) \in Names /\ Controls(m, Key(m))
     THEN /\ current' = current \cup {m}
          /\ Goto(m, IF claim[Key(m)].capt THEN "removeClaimFinalizer" ELSE "deleteClaim")
     ELSE /\ UNCHANGED current
          /\ Goto(m, "removeFinalizer")
  /\ UNCHANGED <<machine, hardwareVars, claim, memory, faults>>

\* A slip: a conflict is passed over.
RemoveClaimFinalizerOnce(m) ==
  /\ pc[m] = "removeClaimFinalizer"
  /\ IF m \in current
     THEN WriteClaim(Key(m), [claim[Key(m)] EXCEPT !.capt = FALSE])
     ELSE UNCHANGED claimVars
  /\ Goto(m, "deleteClaim")
  /\ UNCHANGED <<machine, hardwareVars, memory, faults>>

\* Under the optimistic lock: "the provider edits the same finalizer list".
RemoveClaimFinalizer(m) ==
  /\ pc[m] = "removeClaimFinalizer"
  /\ \/ /\ m \in current
        /\ WriteClaim(Key(m), [claim[Key(m)] EXCEPT !.capt = FALSE])
        /\ Goto(m, "deleteClaim")
        /\ UNCHANGED <<memory, fresh>>
     \/ /\ m \notin current
        /\ Return(m)
        /\ UNCHANGED claim
  /\ UNCHANGED <<machine, owner, reserved, faults>>

\* A claim that is gone already is as good; the Delete names no resourceVersion.
DeleteClaim(m) ==
  /\ pc[m] = "deleteClaim"
  /\ IF claim[Key(m)].exists
     THEN WriteClaim(Key(m), [claim[Key(m)] EXCEPT !.deleting = TRUE])
     ELSE UNCHANGED claimVars
  /\ Goto(m, "removeFinalizer")
  /\ UNCHANGED <<machine, hardwareVars, memory, faults>>

RemoveFinalizer(m) ==
  /\ pc[m] = "removeFinalizer"
  /\ machine' = [machine EXCEPT ![m] = NoMachine]
  /\ Return(m)
  /\ UNCHANGED <<owner, reserved, claim, faults>>

\* A call fails: what fails before addFinalizer still runs it.
CallFails(m) ==
  /\ pc[m] \in FaultPoints \ {"idle"}
  /\ faults < MaxFaults
  /\ faults' = faults + 1
  /\ \/ pc[m] \in Reserving /\ Goto(m, "addFinalizer") /\ UNCHANGED <<memory, fresh, current>>
     \/ pc[m] \notin Reserving /\ Return(m)
  /\ UNCHANGED <<machine, owner, reserved, claim>>

Crash(m) ==
  /\ pc[m] \in FaultPoints \ {"idle"}
  /\ faults < MaxFaults
  /\ faults' = faults + 1
  /\ Return(m)
  /\ UNCHANGED <<machine, owner, reserved, claim>>

-------------------------------------------------------------------------------
\* The users and controllers that delete machines, and users that delete claims.
DeleteMachine(m) ==
  /\ machine[m].exists /\ ~machine[m].deleting
  /\ machine' = [machine EXCEPT ![m] = IF @.finalizer THEN [@ EXCEPT !.deleting = TRUE]
                                                      ELSE NoMachine]
  /\ UNCHANGED <<hardwareVars, claimVars, pc, memory, faults>>

\* Users change the pool of a machine.
SetPool(m, new) ==
  /\ machine[m].exists /\ new # machine[m] /\ new.pool \in Edits
  /\ machine[m].hardware = None /\ (pc[m] # "idle" \/ \E n \in Names : Controls(m, n))
       => EditsInFlight
  /\ Patch(m, new)
  /\ UNCHANGED <<hardwareVars, claimVars, pc, memory, faults>>

EditPool(m) ==
  \E p \in Edits : SetPool(m, [machine[m] EXCEPT !.pool = p])

\* v1beta1 has no addressFromPool: it travels in the conversion-data annotation,
\* here a set with the pool or without anything.
ConvertMachineFromHub(hub) == [hardware |-> hub.hardware, data |-> {hub.pool}]

ConvertMachineToHub(hub, spoke) ==
  [hub EXCEPT !.hardware = spoke.hardware,
              !.pool = IF spoke.data = {} THEN None ELSE CHOOSE p \in spoke.data : TRUE]

\* A v1beta1 client writes back what it has read now or has kept from earlier,
\* annotation included, or an object it has built itself, without.
UpdateThroughV1beta1(m) ==
  LET read == ConvertMachineFromHub(machine[m]) IN
  \E data \in {{}} \cup {{p} : p \in Pools \cup {None}} :
    SetPool(m, ConvertMachineToHub(machine[m], [read EXCEPT !.data = data]))

UserDeletesClaim(n) ==
  /\ claim[n].exists /\ ~claim[n].deleting
  /\ WriteClaim(n, [claim[n] EXCEPT !.deleting = TRUE])
  /\ UNCHANGED <<machine, hardwareVars, pc, memory, faults>>

\* Another writer of the Hardware, the discovery syncer say, overtakes copies.
TouchHardware(h) ==
  /\ \E m \in fresh : mem[m] = h
  /\ faults < MaxFaults
  /\ faults' = faults + 1
  /\ fresh' = {m \in fresh : mem[m] # h}
  /\ UNCHANGED <<machine, owner, reserved, claimVars, pc, memory>>

\* The IPAM provider binds a claim to an address no other claim has, and holds
\* it with a finalizer of its own until the claim is being deleted.
Bind(n) ==
  /\ claim[n].exists /\ ~claim[n].deleting /\ claim[n].bound = None
  /\ \E a \in Offers[n[2]] :
       /\ \A o \in Names : claim[o].provider => claim[o].bound # a
       /\ WriteClaim(n, [claim[n] EXCEPT !.bound = a, !.provider = TRUE])
  /\ UNCHANGED <<machine, hardwareVars, pc, memory, faults>>

Unbind(n) ==
  /\ claim[n].deleting /\ claim[n].provider
  /\ WriteClaim(n, [claim[n] EXCEPT !.provider = FALSE])
  /\ UNCHANGED <<machine, hardwareVars, pc, memory, faults>>

Worker(m) ==
  \/ EnsureHardware(m) \/ GetClaim(m) \/ CreateClaim(m) \/ GetAddress(m) \/ Reserve(m)
  \/ SetStatus(m) \/ AddFinalizer(m) \/ GetHardware(m) \/ Release(m) \/ FindClaim(m)
  \/ RemoveClaimFinalizer(m) \/ DeleteClaim(m) \/ RemoveFinalizer(m)

Provider(n) == Bind(n) \/ Unbind(n)

IPAMNext ==
  \/ \E m \in Machines :
       \/ Worker(m) \/ CallFails(m) \/ Crash(m)
       \/ DeleteMachine(m) \/ EditPool(m) \/ UpdateThroughV1beta1(m)
  \/ \E n \in Names : Provider(n) \/ UserDeletesClaim(n)
  \/ \E h \in Hardware : TouchHardware(h)

IPAMSpec == IPAMInit /\ [][IPAMNext]_ipamVars

\* The work queue retries, the provider answers.
FairIPAMSpec ==
  /\ IPAMSpec
  /\ \A m \in Machines : WF_ipamVars(Worker(m))
  /\ \A n \in Names : WF_ipamVars(Provider(n))

-------------------------------------------------------------------------------
(* Properties *)

\* Every variable holds values of its kind, and a worker past ensureHardware
\* works on Hardware.
IPAMTypeOK ==
  /\ machine \in [Machines -> MachineState]
  /\ owner \in [Hardware -> Machines \cup {None}]
  /\ reserved \in [Hardware -> Addresses \cup {None}]
  /\ claim \in [Names -> ClaimState]
  /\ pc \in [Machines -> Reserving \cup Releasing \cup {"idle", "addFinalizer"}]
  /\ mem \in [Machines -> Hardware \cup {None}]
  /\ asked \in [Machines -> Pools \cup {None}]
  /\ ip \in [Machines -> Addresses \cup {None}]
  /\ held \in [Machines -> Addresses \cup {None}]
  /\ fresh \in SUBSET Machines
  /\ current \in SUBSET Machines
  /\ faults \in 0..MaxFaults
  /\ \A m \in Machines :
       /\ pc[m] \in {"reserve", "setStatus", "release"} => mem[m] \in Hardware
       /\ pc[m] \in (Reserving \ {"setStatus"}) \cup {"removeClaimFinalizer", "deleteClaim"}
            => Key(m) \in Names

\* An address that Tinkerbell serves is not handed back: as long as Hardware
\* reserves one, the claim it came from is there, is its owner's, and carries
\* CAPT's finalizer, even if a user has deleted it (releaseHardware comes
\* before releaseIPAddressClaim).
ReservedAddressIsClaimed ==
  \A h \in Hardware :
    reserved[h] # None =>
      \E n \in Names :
        /\ n[1] = h
        /\ claim[n].exists /\ claim[n].capt
        /\ claim[n].bound = reserved[h]
        /\ claim[n].controller = owner[h]

\* The deletion of a machine finds the claim that was made for its Hardware:
\* releaseHardware and releaseIPAddressClaim look under the name that
\* hardwareName and addressFromPool give, so the pool may not change once a
\* claim exists, by whichever API version ("changing the pool would orphan it
\* and the reservation written from it").
DeletionFindsTheClaim ==
  \A n \in Names : \A m \in Machines :
    Controls(m, n) /\ machine[m].exists /\ machine[m].hardware = n[1]
      => machine[m].pool = n[2]

\* A machine with its finalizer goes only after the claim for its Hardware has
\* been let go of, whatever conflict or stop interrupts releaseIPAddressClaim:
\* nobody removes CAPT's finalizer afterwards, and the name would stay taken
\* for the next machine on the Hardware.
ClaimIsReleasedBeforeMachineGoes ==
  [][\A m \in Machines : \A n \in Names :
       machine[m].finalizer /\ machine[m].hardware = n[1] /\ ~machine'[m].exists
       /\ Controls(m, n) => ~claim[n].capt]_ipamVars

\* Free Hardware reserves no address, or whatever boots it next would get it.
FreeHardwareHasNoAddress ==
  \A h \in Hardware : owner[h] = None => reserved[h] = None

\* The address of a machine's Hardware never changes while the machine has it:
\* a claim that someone deletes lingers "instead of being silently replaced by
\* a fresh allocation that could change the node's address".
RunningMachineKeepsItsAddress ==
  [][\A h \in Hardware :
       reserved[h] # None /\ owner'[h] = owner[h] => reserved'[h] = reserved[h]]_ipamVars

\* A machine that is deleted goes in the end: whatever became of its claim
\* meanwhile, releaseIPAddressClaim gets past it.  With External it does not hold
\* of a machine that never got a hardwareName (GetHardware).
ReleasedMachineGoes ==
  \A m \in Machines : machine[m].deleting ~> ~machine[m].exists
===============================================================================
