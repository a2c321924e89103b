---------------------- MODULE SubnetDaemonSerialProofs ----------------------
(***************************************************************************)
(* One request at a time, the daemon implements SubnetLedger, for every    *)
(* set of networks, number of interfaces and set of faults.                *)
(***************************************************************************)
EXTENDS SubnetDaemonSerial, SubnetDaemonProofs

Leases == {net[d] : d \in links} \ {NoNet}

LeasedAddresses == {m.addr : m \in Leases}

(***************************************************************************)
(* What is_subnet_available found is still so when `ip addr add` runs: the *)
(* request's own commands are the only ones that give out addresses.       *)
(***************************************************************************)
StillFree ==
  \A h \in Handlers : pc[h] \in {"probe", "linkAdd", "addrAdd"} =>
    /\ ValidNetwork(want[h]) /\ Available(want[h], LeasedAddresses)
    /\ pc[h] = "addrAdd" /\ dev[h] \in links => net[dev[h]] = NoNet

\* The book after a step.
Booked ==
  \/ Leases' = Leases
  \/ \E n \in Nets :
       \/ /\ ValidNetwork(n) /\ Available(n, LeasedAddresses)
          /\ Leases' = Leases \cup {n}
       \/ n \in Leases /\ Leases' = Leases \ {n}

\* A step that leaves the host alone, and what the request found.
LEMMA HostKept ==
  ASSUME StillFree, UNCHANGED <<links, net>>,
         \A h \in Handlers : pc'[h] \in {"probe", "linkAdd", "addrAdd"} =>
           pc[h] = pc'[h] /\ want'[h] = want[h] /\ dev'[h] = dev[h]
  PROVE  StillFree' /\ Booked
<1>1. Leases' = Leases /\ LeasedAddresses' = LeasedAddresses
  BY DEF Leases, LeasedAddresses
<1> QED
  BY <1>1 DEF StillFree, Booked, Available

\* A link loses its address, and perhaps goes.
LEMMA AddressGone ==
  ASSUME StillFree, TypeOK, NEW e \in links,
         net' = [net EXCEPT ![e] = NoNet], links' \in {links, links \ {e}},
         \A h \in Handlers : pc'[h] \in {"probe", "linkAdd", "addrAdd"} =>
           pc[h] = pc'[h] /\ want'[h] = want[h] /\ dev'[h] = dev[h]
  PROVE  StillFree' /\ Booked
<1>1. /\ e \in Dummies /\ net \in [Dummies -> Nets \cup {NoNet}] /\ links \subseteq Dummies
      /\ net'[e] = NoNet /\ \A d \in Dummies \ {e} : net'[d] = net[d]
  BY DEF TypeOK
<1>2. Leases' = {net[d] : d \in links \ {e}} \ {NoNet}
  BY <1>1 DEF Leases
<1>3. LeasedAddresses' \subseteq LeasedAddresses
  BY <1>2 DEF Leases, LeasedAddresses
<1>4. StillFree'
  BY <1>1, <1>3 DEF StillFree, Available
<1>5. CASE net[e] = NoNet \/ \E d \in links \ {e} : net[d] = net[e]
  <2>1. Leases' = Leases
    BY <1>2, <1>5 DEF Leases
  <2> QED
    BY <1>4, <2>1 DEF Booked
<1>6. CASE net[e] # NoNet /\ \A d \in links \ {e} : net[d] # net[e]
  <2>1. net[e] \in Nets /\ net[e] \in Leases /\ Leases' = Leases \ {net[e]}
    BY <1>1, <1>2, <1>6 DEF Leases
  <2> QED
    BY <1>4, <2>1 DEF Booked
<1> QED
  BY <1>5, <1>6

\* The create request: what it finds lasts until it adds its address.
LEMMA CreateBooked ==
  ASSUME StillFree, TypeOK, StepTypes, NEW h \in Handlers,
         Create(h) \/ \E n \in Nets : BeginCreate(h, n)
  PROVE  StillFree' /\ Booked
<1>0. \A g \in Handlers : g = h
  BY SerialAssumption
<1>t. h \in Tasks /\ DOMAIN pc = Tasks /\ DOMAIN want = Tasks /\ DOMAIN dev = Tasks
  BY DEF TypeOK, Tasks
<1>1. ASSUME NEW n \in Nets, BeginCreate(h, n) PROVE StillFree' /\ Booked
  <2>1. Leases' = Leases /\ LeasedAddresses' = LeasedAddresses
    BY <1>1 DEF BeginCreate, Leases, LeasedAddresses, kernel
  <2>2. LeasedAddresses \subseteq Addresses
    BY DEF LeasedAddresses, Leases, Addresses
  <2>3. pc'[h] = "probe" /\ want'[h] = n /\ ValidNetwork(n) /\ Available(n, LeasedAddresses)
    BY <1>1, <1>t, <2>2 DEF BeginCreate, Available
  <2> QED
    BY <1>0, <2>1, <2>3 DEF StillFree, Booked
<1>2. CASE Probe(h)
  <2>1. /\ UNCHANGED <<links, net>> /\ pc[h] = "probe"
        /\ pc'[h] = "idle" \/ (pc'[h] \in {"probe", "linkAdd"} /\ UNCHANGED want)
    <3>1. pc[h] = "probe" /\ UNCHANGED <<links, net>>
      BY <1>2 DEF Probe, kernel
    <3>2. Answer(h) \/ UNCHANGED <<pc, want>> \/ Goto(h, "linkAdd")
      BY <1>2 DEF Probe
    <3> QED
      BY <1>t, <3>1, <3>2 DEF Goto, Answer
  <2>2. CASE pc'[h] = "idle"
    BY <1>0, <2>1, <2>2, HostKept
  <2>3. CASE pc'[h] # "idle"
    <3>1. Leases' = Leases /\ LeasedAddresses' = LeasedAddresses
      BY <2>1 DEF Leases, LeasedAddresses
    <3> QED
      BY <1>0, <2>1, <2>3, <3>1 DEF StillFree, Booked
  <2> QED
    BY <2>2, <2>3
<1>3. CASE LinkAdd(h)
  <2>1. CASE dev[h] \notin links /\ links' = links \cup {dev[h]} /\ Goto(h, "addrAdd")
    <3>1. dev[h] \in Dummies /\ net[dev[h]] = NoNet /\ UNCHANGED net
      BY <1>3, <2>1 DEF LinkAdd, StepTypes, TypeOK
    <3>2. Leases' = Leases
      BY <2>1, <3>1 DEF Leases
    <3>3. LeasedAddresses' = LeasedAddresses
      BY <3>2 DEF LeasedAddresses
    <3>4. pc[h] = "linkAdd" /\ UNCHANGED <<want, dev>>
      BY <1>3, <2>1 DEF LinkAdd, Goto
    <3> QED
      BY <1>0, <3>1, <3>2, <3>3, <3>4 DEF StillFree, Booked
  <2>2. CASE Answer(h) /\ UNCHANGED links
    <3>1. pc'[h] = "idle" /\ UNCHANGED <<links, net>>
      BY <1>3, <1>t, <2>2 DEF LinkAdd, Answer
    <3> QED
      BY <1>0, <3>1, HostKept
  <2> QED
    BY <1>3, <2>1, <2>2 DEF LinkAdd
<1>4. CASE AddrAdd(h)
  <2>1. CASE /\ dev[h] \in links /\ net' = [net EXCEPT ![dev[h]] = want[h]]
             /\ Goto(h, "linkUp")
    <3>1. /\ pc[h] = "addrAdd" /\ want[h] \in Nets /\ UNCHANGED links /\ pc'[h] = "linkUp"
          /\ dev[h] \in Dummies /\ links \subseteq Dummies
          /\ net \in [Dummies -> Nets \cup {NoNet}] /\ want[h] # NoNet
      BY <1>4, <1>t, <2>1, DaemonAssumption
      DEF AddrAdd, Goto, StepTypes, CreateSteps, TypeOK, Keys
    <3>2. /\ ValidNetwork(want[h]) /\ Available(want[h], LeasedAddresses)
          /\ net[dev[h]] = NoNet
      BY <2>1, <3>1 DEF StillFree
    <3>3. Leases' = Leases \cup {want[h]}
      BY <2>1, <3>1, <3>2 DEF Leases
    <3> QED
      BY <1>0, <3>1, <3>2, <3>3 DEF StillFree, Booked
  <2>2. CASE Answer(h) /\ UNCHANGED net
    <3>1. pc'[h] = "idle" /\ UNCHANGED <<links, net>>
      BY <1>4, <1>t, <2>2 DEF AddrAdd, Answer
    <3> QED
      BY <1>0, <3>1, HostKept
  <2> QED
    BY <1>4, <2>1, <2>2 DEF AddrAdd
<1>5. CASE LinkUp(h) \/ Insert(h)
  <2>1. pc'[h] \in {"insert", "idle"} /\ UNCHANGED <<links, net>>
    BY <1>5, <1>t DEF LinkUp, Insert, Goto, Answer, kernel
  <2> QED
    BY <1>0, <2>1, HostKept
<1> QED
  BY <1>1, <1>2, <1>3, <1>4, <1>5 DEF Create

\* A removal, by a DELETE request or by the sweep.
LEMMA RemoveBooked ==
  ASSUME StillFree, TypeOK, StepTypes, NEW t \in Tasks, Remove(t)
  PROVE  StillFree' /\ Booked
<1>1. /\ pc[t] \in {"addrDel", "linkDel"}
      /\ pc'[t] \in {"linkDel", "sweep", "idle"}
      /\ \A h \in Handlers \ {t} : pc'[h] = pc[h] /\ want'[h] = want[h] /\ dev'[h] = dev[h]
  BY DEF Remove, AddrDel, LinkDel, Goto, EndRemove, TypeOK, Tasks
<1>2. \A h \in Handlers : pc'[h] \in {"probe", "linkAdd", "addrAdd"} =>
        pc[h] = pc'[h] /\ want'[h] = want[h] /\ dev'[h] = dev[h]
  BY <1>1
<1>3. \/ UNCHANGED <<links, net>>
      \/ /\ dev[t] \in links /\ net' = [net EXCEPT ![dev[t]] = NoNet]
         /\ links' \in {links, links \ {dev[t]}}
  BY DEF Remove, AddrDel, LinkDel, HasAddress
<1> QED
  BY <1>2, <1>3, HostKept, AddressGone

(***************************************************************************)
(* All other steps leave the host's links and addresses alone.             *)
(***************************************************************************)
LEMMA OtherBooked ==
  ASSUME StillFree, TypeOK, StepTypes,
         \/ \E h \in Handlers :
              (\E k \in Keys : BeginDelete(h, k)) \/ TakeEntry(h) \/ Disconnect(h)
         \/ Sigterm \/ Sweep \/ Drain \/ Exit \/ Crash \/ Start
         \/ \E f \in Foreign : ForeignUp(f) \/ ForeignDown(f)
         \/ UNCHANGED vars
  PROVE  StillFree' /\ Booked
<1>1. UNCHANGED <<links, net>>
  BY DEF BeginDelete, TakeEntry, Disconnect, Sigterm, Sweep, SweepBegin, SweepNext,
         SweepEnd, Drain, Exit, Crash, Die, Start, ForeignUp, ForeignDown, vars, kernel
<1> DEFINE Same(h) == pc'[h] = pc[h] /\ want'[h] = want[h] /\ dev'[h] = dev[h]
<1>2. ASSUME NEW h \in Handlers,
             (\E k \in Keys : BeginDelete(h, k)) \/ TakeEntry(h) \/ Disconnect(h)
      PROVE  pc'[h] \in {"delLock", "addrDel", "idle"}
  BY <1>2 DEF BeginDelete, TakeEntry, Disconnect, Answer, TypeOK, Tasks
<1>3. CASE Sigterm \/ Sweep
  <2>1. \A h \in Handlers : Same(h)
    BY <1>3, DaemonAssumption
    DEF Sigterm, Sweep, SweepBegin, SweepNext, SweepEnd, Goto, TypeOK, Tasks
  <2> QED
    BY <1>1, <2>1, HostKept
<1>4. CASE Exit \/ Crash
  <2>1. \A h \in Handlers : pc'[h] = "idle"
    BY <1>4 DEF Exit, Crash, Die, Tasks
  <2> QED
    BY <1>1, <2>1, HostKept
<1>5. CASE Drain \/ Start \/ (\E f \in Foreign : ForeignUp(f) \/ ForeignDown(f)) \/ UNCHANGED vars
  <2>1. \A h \in Handlers : Same(h)
    BY <1>5 DEF Drain, Start, ForeignUp, ForeignDown, vars, task
  <2> QED
    BY <1>1, <2>1, HostKept
<1>6. CASE \E h \in Handlers :
             (\E k \in Keys : BeginDelete(h, k)) \/ TakeEntry(h) \/ Disconnect(h)
  <2>1. \A h \in Handlers : pc'[h] \in {"delLock", "addrDel", "idle"}
    BY <1>2, <1>6, SerialAssumption
  <2> QED
    BY <1>1, <2>1, HostKept
<1> QED
  BY <1>3, <1>4, <1>5, <1>6

(***************************************************************************)
(* One request at a time, the addresses of the dummy interfaces follow the *)
(* ledger, whatever fails, is interrupted or is left behind.               *)
(***************************************************************************)
THEOREM FollowsLedger == Spec => ImplementsLedger
<1>1. Init => StillFree /\ Ledger!Init
  <2>1. ASSUME Init PROVE StillFree
    BY <2>1 DEF Init, StillFree, Tasks
  <2>2. Init => {net[d] : d \in links} \ {NoNet} = {}
    BY DEF Init
  <2> QED
    BY <2>1, <2>2 DEF Ledger!Init
<1>2. ASSUME IInv, StillFree, [Next]_vars PROVE StillFree' /\ Booked
  <2>1. TypeOK /\ StepTypes
    BY <1>2 DEF IInv
  <2> QED
    BY <1>2, <2>1, CreateBooked, RemoveBooked, OtherBooked DEF Next, Request
<1>3. Booked => [Ledger!Next]_({net[d] : d \in links} \ {NoNet})
  <2>1. ASSUME NEW n \in Nets, ValidNetwork(n), Available(n, LeasedAddresses),
               Leases' = Leases \cup {n}
        PROVE  Ledger!Allocate(n)
    BY <2>1 DEF Leases, LeasedAddresses, Available, ValidNetwork, Contains, First, Last, Size,
                Ledger!Allocate, Ledger!Available, Ledger!ValidNetwork, Ledger!Contains,
                Ledger!First, Ledger!Last, Ledger!Size
  <2>2. ASSUME NEW n \in Nets, n \in Leases, Leases' = Leases \ {n}
        PROVE  Ledger!Release(n)
    BY <2>2 DEF Leases, Ledger!Release
  <2> QED
    BY <2>1, <2>2 DEF Booked, Leases, Ledger!Next
<1> QED
  BY <1>1, <1>2, <1>3, Inductive, PTL DEF Spec, ImplementsLedger, Ledger!Spec
=============================================================================
