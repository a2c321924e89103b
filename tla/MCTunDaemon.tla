---------------------------- MODULE MCTunDaemon ----------------------------
(***************************************************************************)
(* Six-bit addresses: 1ijjkk is 10.i.j.k.                                  *)
(***************************************************************************)
EXTENDS TunDaemon, TLC

MCAllowed == [addr |-> 32, len |-> 1]

TwoBlocks == 0 .. 1

TwoNames == 0 .. 1

\* All of 10.0, by an address in 10.0.1; an address in 10.0.0; all of 10.1.
MCOtherNets ==
  {[addr |-> 36, len |-> 2], [addr |-> 34, len |-> 6], [addr |-> 48, len |-> 2]}

Symmetry == Permutations(Handlers)
=============================================================================
