----------------------------- MODULE Ipv4Nets -----------------------------
(***************************************************************************)
(* IPv4 networks as network/src/subnet_interface.rs uses them, and the two *)
(* decisions every subnet request depends on: validate_network and         *)
(* is_subnet_available.                                                    *)
(*                                                                         *)
(* Addresses are the numbers below 2^Width (Width is 32 in the program).   *)
(* A network is what ipnet::Ipv4Net keeps: the address as it was written,  *)
(* host bits included, and a prefix length.                                *)
(***************************************************************************)
EXTENDS Integers

CONSTANTS Width,      \* bits of an address
          Allowed,    \* ALLOWED_NETWORK, 10.0.0.0/8
          Protected   \* PROTECTED_NETWORKS, 127.0.0.0/8 and 169.254.0.0/16

Address == 0 .. 2^Width - 1

Net == [addr : Address, len : 0 .. Width]

ASSUME NetsAssumption ==
  /\ Width \in Nat
  /\ Allowed \in Net
  /\ Protected \subseteq Net

(***************************************************************************)
(* ipnet: a network spans the Size addresses from its address with the     *)
(* host bits cleared, First, to its broadcast address, Last.               *)
(***************************************************************************)
Size(n) == 2^(Width - n.len)

First(n) == (n.addr \div Size(n)) * Size(n)

Last(n) == First(n) + Size(n) - 1

Contains(n, a) == First(n) <= a /\ a <= Last(n)

Span(n) == First(n) .. Last(n)

\* Mutant: protected networks are compared in one direction only.
ValidNetworkOneWay(n) ==
  Contains(Allowed, n.addr) /\ \A p \in Protected : ~ Contains(p, n.addr)

\* Mutant: only an address written exactly like the request's is in the way.
AvailableUnlessEqual(n, addresses) == n.addr \notin addresses

(***************************************************************************)
(* validate_network: only the written address is looked up in Allowed, and *)
(* Protected networks are compared by address in both directions.          *)
(***************************************************************************)
ValidNetwork(n) ==
  /\ Contains(Allowed, n.addr)
  /\ \A p \in Protected : ~ Contains(p, n.addr) /\ ~ Contains(n, p.addr)

(***************************************************************************)
(* is_subnet_available, after its validation: no address that an interface *)
(* of this host has now lies inside the network.                           *)
(***************************************************************************)
Available(n, addresses) == \A a \in addresses : ~ Contains(n, a)
=============================================================================
