------------------------ MODULE SubnetDaemonSerial ------------------------
(***************************************************************************)
(* The subnet daemon when its clients send one request at a time. SIGTERM, *)
(* the sweep, other programs' interfaces, failing commands, disconnects    *)
(* and crashes still come at any time.                                     *)
(***************************************************************************)
EXTENDS SubnetDaemon

ASSUME SerialAssumption == \A g, h \in Handlers : g = h

Ledger == INSTANCE SubnetLedger
            WITH leases <- {net[d] : d \in links} \ {NoNet}

(***************************************************************************)
(* One request at a time, the addresses of the dummy interfaces follow the *)
(* ledger: a subnet is allocated when `ip addr add` gives it to a link, by *)
(* which time what is_subnet_available saw several commands ago still      *)
(* holds of the daemon's own subnets, also of those that a failed or a     *)
(* killed request left behind; and it is released by `ip addr del`.        *)
(***************************************************************************)
ImplementsLedger == Ledger!Spec
=============================================================================
