----------------------- MODULE MCSubnetDaemonSerial -----------------------
(***************************************************************************)
(* The networks of MCSubnetDaemon, with one handler.                       *)
(***************************************************************************)
EXTENDS SubnetDaemonSerial

MCAllowed == [addr |-> 4, len |-> 2]

MCProtected == {[addr |-> 8, len |-> 3]}

Wide == [addr |-> 4, len |-> 2]

Part == [addr |-> 6, len |-> 3]

Bad == [addr |-> 4, len |-> 0]

ThreeNets == {Wide, Part, Bad}

Inside == [addr |-> 5, len |-> 4]

TwoForeign == {Part, Inside}

MCForeignNet == [f \in Foreign |-> f]
=============================================================================
