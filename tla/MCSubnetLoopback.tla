-------------------------- MODULE MCSubnetLoopback --------------------------
(***************************************************************************)
(* Four-bit addresses, of which 4..7 are allowed and 8, 9 protected.       *)
(* Another program gives lo0 an alias with an allowed address whose network*)
(* fails the validation, so that it is detected and cannot be removed, and *)
(* one that is not allowed. The first shares its address with clients'.    *)
(***************************************************************************)
EXTENDS SubnetLoopback, TLC

MCAllowed == [addr |-> 4, len |-> 2]

MCProtected == {[addr |-> 8, len |-> 3]}

\* One that reaches a protected network, one wider than what is allowed, and
\* two inside: the lower half, and the upper one written with host bits.
MCNets ==
  {[addr |-> 4, len |-> 0], [addr |-> 4, len |-> 1],
   [addr |-> 4, len |-> 3], [addr |-> 7, len |-> 3]}

MCForeignNets == {[addr |-> 4, len |-> 0], [addr |-> 1, len |-> 4]}

Symmetry == Permutations(Handlers)
=============================================================================
