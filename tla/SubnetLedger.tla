--------------------------- MODULE SubnetLedger ---------------------------
(***************************************************************************)
(* What the subnet daemon promises the host's user, one request at a time: *)
(* a book of the networks that dummy interfaces have, in which a network   *)
(* is entered only if it passes validate_network and no network already    *)
(* in the book has its address inside it. A network in the book can go.    *)
(***************************************************************************)
EXTENDS Ipv4Nets

CONSTANT Nets

VARIABLE leases

Init == leases = {}

Allocate(n) ==
  /\ ValidNetwork(n)
  /\ Available(n, {m.addr : m \in leases})
  /\ leases' = leases \cup {n}

Release(n) == n \in leases /\ leases' = leases \ {n}

Next == \E n \in Nets : Allocate(n) \/ Release(n)

Spec == Init /\ [][Next]_leases
=============================================================================
