----------------------------- MODULE MCIPAMClaim ------------------------------
(* Small instances of IPAMClaim for TLC. *)
EXTENDS IPAMClaim

CONSTANTS m1, m2, h1, p1, p2, a1, a2

MCMachines == {m1, m2}
MCHardware == {h1}
MCPools == {p1, p2}
AnyPool == {p1, p2, None}
MCAddresses == {a1, a2}

\* p1 can hand out another address than the last time, p2 is exhausted.
MCOffers == [p \in MCPools |-> IF p = p1 THEN {a1, a2} ELSE {}]

AllFaults == Reserving \cup Releasing \cup {"addFinalizer"}
NoFaults == {}
===============================================================================
