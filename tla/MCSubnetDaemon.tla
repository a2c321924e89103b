-------------------------- MODULE MCSubnetDaemon --------------------------
(***************************************************************************)
(* Four-bit addresses, of which 4..7 are allowed. Wide spans all of them;  *)
(* Part is a half of it that leaves Wide's own address out; Bad reaches a  *)
(* protected network. An interface of another program is told by its       *)
(* network: one has Part, as clients' subnets do, and one an address       *)
(* inside Wide that no client asks for.                                    *)
(***************************************************************************)
EXTENDS SubnetDaemonInv, TLC

MCAllowed == [addr |-> 4, len |-> 2]

MCProtected == {[addr |-> 8, len |-> 3]}

Wide == [addr |-> 4, len |-> 2]

Part == [addr |-> 6, len |-> 3]

Bad == [addr |-> 4, len |-> 0]

TwoNets == {Wide, Part}

ThreeNets == {Wide, Part, Bad}

Inside == [addr |-> 5, len |-> 4]

OneForeign == {Part}

TwoForeign == {Part, Inside}

MCForeignNet == [f \in Foreign |-> f]

Symmetry == Permutations(Handlers)
=============================================================================
