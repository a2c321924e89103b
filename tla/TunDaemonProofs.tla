-------------------------- MODULE TunDaemonProofs --------------------------
(***************************************************************************)
(* Proofs about TunDaemon, for any number of requests and of processes.    *)
(***************************************************************************)
EXTENDS TunDaemon, Ipv4NetsProofs, TLAPS

\* A step of one creator changes what is noted of that one only.
LEMMA OneCreator ==
  ASSUME TypeOK, NEW c \in Creators
  PROVE  /\ \A s : Goto(c, s) => /\ pc'[c] = s
                                 /\ \A d \in Creators \ {c} : pc'[d] = pc[d]
         /\ Answer(c) => /\ pc'[c] = "idle" /\ name'[c] = NoName /\ block'[c] = NoBlock
                         /\ \A d \in Creators \ {c} :
                              pc'[d] = pc[d] /\ name'[d] = name[d] /\ block'[d] = block[d]
  BY DEF TypeOK, Goto, Answer

\* Devices that stay with those who have them open are held once again.
LEMMA SameHolders ==
  ASSUME EveryDeviceHeldOnce, UNCHANGED device, \A m \in Names : Holders(m)' = Holders(m)
  PROVE  EveryDeviceHeldOnce'
BY DEF EveryDeviceHeldOnce, Creators

\* Choosing a block, and what follows when the device has gone.
LEMMA RequestKeeps ==
  ASSUME IInv, TunAssumption, NEW c \in Creators,
         \/ \E n \in Names \cup {NoName} : BeginCreate(c, n)
         \/ c \in Handlers /\ (Insert(c) \/ Disconnect(c))
  PROVE  IInv'
<1>0. TypeOK
  BY DEF IInv
<1>1. CASE \E n \in Names \cup {NoName} : BeginCreate(c, n)
  <2>1. PICK n \in Names \cup {NoName} : BeginCreate(c, n)
    BY <1>1
  <2>2. PICK i \in Blocks : block' = [block EXCEPT ![c] = i]
    BY <2>1 DEF BeginCreate, Available24, Least
  <2>3. /\ pc[c] = "idle" /\ pc' = [pc EXCEPT ![c] = "open"]
        /\ name' = [name EXCEPT ![c] = n] /\ UNCHANGED <<device, others, store>>
    BY <2>1 DEF BeginCreate, Goto
  <2>4. TypeOK'
    BY <1>0, <2>2, <2>3 DEF TypeOK
  <2>5. \A m \in Names : Holders(m)' = Holders(m)
    BY <1>0, <2>3 DEF Holders, TypeOK
  <2>6. EveryDeviceHeldOnce'
    BY <2>3, <2>5, SameHolders DEF IInv
  <2> QED
    BY <1>0, <2>2, <2>3, <2>4, <2>6 DEF IInv, TypeOK, Creators
<1>2. CASE c \in Handlers /\ (Insert(c) \/ Disconnect(c))
  <2>1. /\ pc[c] = "insert" /\ Answer(c) /\ UNCHANGED <<device, others>>
        /\ \/ store' = [store EXCEPT ![name[c]] = block[c]]
           \/ store' = store
    BY <1>2 DEF Insert, Disconnect
  <2>2. TypeOK'
    BY <1>0, <2>1 DEF IInv, TypeOK, Answer, Goto
  <2>3. /\ pc'[c] = "idle"
        /\ \A d \in Creators \ {c} : pc'[d] = pc[d] /\ name'[d] = name[d] /\ block'[d] = block[d]
    BY <1>0, <2>1, OneCreator
  <2>4. \A m \in Names : Holders(m)' = Holders(m)
    BY <2>1, <2>3 DEF Holders, Creators
  <2>5. EveryDeviceHeldOnce'
    BY <2>1, <2>4, SameHolders DEF IInv
  <2> QED
    BY <2>2, <2>3, <2>5 DEF IInv, Creators
<1> QED
  BY <1>1, <1>2

\* The life of a device that one creator has open.
LEMMA DeviceKeeps ==
  ASSUME IInv, TunAssumption, NEW c \in Creators, Open(c) \/ Configure(c) \/ Drop(c)
  PROVE  IInv'
<1>0. TypeOK
  BY DEF IInv
<1>1. CASE Open(c)
  <2>1. CASE Answer(c) /\ UNCHANGED <<device, others, store>> /\ pc[c] = "open"
    <3>1. TypeOK'
      BY <1>0, <2>1 DEF TypeOK, Answer, Goto
    <3>2. /\ pc'[c] = "idle"
          /\ \A d \in Creators \ {c} : pc'[d] = pc[d] /\ name'[d] = name[d] /\ block'[d] = block[d]
      BY <1>0, <2>1, OneCreator
    <3>3. \A m \in Names : Holders(m)' = Holders(m)
      BY <2>1, <3>2 DEF Holders, Creators
    <3>4. EveryDeviceHeldOnce'
      BY <2>1, <3>3, SameHolders DEF IInv
    <3> QED
      BY <3>1, <3>2, <3>4 DEF IInv, Creators
  <2>2. ASSUME NEW n \in Names, device[n] = NoDevice, pc[c] = "open",
               device' = [device EXCEPT ![n] = NoBlock],
               name' = [name EXCEPT ![c] = n],
               Goto(c, "configure"), UNCHANGED <<block, others, store>>
        PROVE  IInv'
    <3>1. TypeOK'
      BY <1>0, <2>2 DEF TypeOK, Goto
    <3>2. /\ pc'[c] = "configure" /\ name'[c] = n
          /\ \A d \in Creators \ {c} : pc'[d] = pc[d] /\ name'[d] = name[d]
      <4>1. pc'[c] = "configure" /\ \A d \in Creators \ {c} : pc'[d] = pc[d]
        BY <1>0, <2>2, OneCreator
      <4>2. name'[c] = n /\ \A d \in Creators \ {c} : name'[d] = name[d]
        BY <1>0, <2>2 DEF TypeOK
      <4> QED
        BY <4>1, <4>2
    <3>3. \A m \in Names \ {n} : Holders(m)' = Holders(m) /\ device'[m] = device[m]
      BY <1>0, <2>2, <3>2 DEF Holders, Creators, TypeOK
    <3>4. Holders(n)' = {c} /\ device'[n] = NoBlock
      <4>1. Holders(n) = {}
        BY <2>2 DEF IInv, EveryDeviceHeldOnce
      <4>2. \A d \in Creators : d \in Holders(n)' <=> d = c
        BY <3>2, <4>1 DEF Holders, Creators
      <4>3. device'[n] = NoBlock
        BY <1>0, <2>2 DEF TypeOK
      <4> QED
        BY <4>2, <4>3 DEF Holders, Creators
    <3>5. NoBlock # NoDevice
      BY TunAssumption DEF TunAssumption
    <3>6. EveryDeviceHeldOnce'
      BY <3>3, <3>4, <3>5 DEF IInv, EveryDeviceHeldOnce, Creators
    <3> QED
      BY <2>2, <3>1, <3>2, <3>6 DEF IInv, Creators
  <2>3. ASSUME NEW n \in IF name[c] = NoName THEN Least(FreeNames)
                                        ELSE FreeNames \cap {name[c]}
        PROVE  n \in Names /\ device[n] = NoDevice
    BY <2>3 DEF FreeNames, Least
  <2> QED
    BY <1>1, <2>1, <2>2, <2>3 DEF Open
<1>2. CASE Configure(c) \/ Drop(c)
  <2>1. PICK n \in Names : /\ name[c] = n /\ block[c] \in Blocks /\ Holders(n) = {c}
                           /\ pc[c] \in {"configure", "open fd"}
    <3>1. pc[c] \in {"configure", "open fd"}
      BY <1>2 DEF Configure, Drop
    <3>2. name[c] \in Names /\ block[c] \in Blocks /\ c \in Holders(name[c])
      BY <3>1 DEF IInv, Holders
    <3> QED
      BY <3>1, <3>2 DEF IInv, EveryDeviceHeldOnce
  <2>2. \A m \in Names \ {n} : c \notin Holders(m)
    BY <2>1 DEF Holders
  <2>3. CASE /\ device' = [device EXCEPT ![n] = block[c]]
             /\ Goto(c, "open fd") /\ UNCHANGED <<name, block, others, store>>
    <3>1. TypeOK'
      BY <1>0, <2>1, <2>3 DEF TypeOK, Goto
    <3>2. pc'[c] = "open fd" /\ \A d \in Creators \ {c} : pc'[d] = pc[d]
      BY <1>0, <2>3, OneCreator
    <3>3. \A m \in Names : Holders(m)' = Holders(m)
      BY <2>1, <2>3, <3>2 DEF Holders, Creators
    <3>4. /\ device'[n] # NoDevice
          /\ \A m \in Names \ {n} : device'[m] = device[m]
      BY <1>0, <2>1, <2>3, TunAssumption DEF TypeOK, TunAssumption
    <3>5. EveryDeviceHeldOnce'
      <4>1. Holders(n)' = {c}
        BY <2>1, <3>3
      <4>2. \A m \in Names \ {n} : IF device'[m] = NoDevice THEN Holders(m)' = {}
                                          ELSE \E d \in Creators : Holders(m)' = {d}
        BY <3>3, <3>4 DEF IInv, EveryDeviceHeldOnce
      <4> QED
        BY <3>4, <4>1, <4>2 DEF EveryDeviceHeldOnce, Creators
    <3> QED
      BY <2>1, <2>3, <3>1, <3>2, <3>5 DEF IInv, Creators
  <2>4. CASE /\ device' = [device EXCEPT ![n] = NoDevice] /\ UNCHANGED <<others, store>>
             /\ \/ Answer(c)
                \/ c \in Handlers /\ Goto(c, "insert") /\ UNCHANGED <<name, block>>
    <3>1. TypeOK'
      BY <1>0, <2>1, <2>4 DEF TypeOK, Answer, Goto
    <3>2. /\ pc'[c] = "idle" \/ (pc'[c] = "insert" /\ c \in Handlers /\ UNCHANGED <<name, block>>)
          /\ \A d \in Creators \ {c} : pc'[d] = pc[d] /\ name'[d] = name[d] /\ block'[d] = block[d]
      BY <1>0, <2>4, OneCreator
    <3>3. \A m \in Names \ {n} : Holders(m)' = Holders(m) /\ device'[m] = device[m]
      <4>1. \A m \in Names \ {n} : device'[m] = device[m]
        BY <1>0, <2>4 DEF TypeOK
      <4>2. ASSUME NEW m \in Names \ {n} PROVE Holders(m)' = Holders(m)
        <5>1. c \notin Holders(m) /\ c \notin Holders(m)'
          BY <2>1, <2>2, <3>2 DEF Holders
        <5>2. \A d \in Creators \ {c} : d \in Holders(m)' <=> d \in Holders(m)
          BY <3>2 DEF Holders, Creators
        <5> QED
          BY <5>1, <5>2 DEF Holders, Creators
      <4> QED
        BY <4>1, <4>2
    <3>4. Holders(n)' = {} /\ device'[n] = NoDevice
      <4>1. \A d \in Creators \ {c} : d \notin Holders(n)
        BY <2>1
      <4>2. \A d \in Creators : d \notin Holders(n)'
        BY <3>2, <4>1 DEF Holders, Creators
      <4>3. device'[n] = NoDevice
        BY <1>0, <2>1, <2>4 DEF TypeOK
      <4> QED
        BY <4>2, <4>3 DEF Holders, Creators
    <3>5. EveryDeviceHeldOnce'
      <4>1. \A m \in Names \ {n} : IF device'[m] = NoDevice THEN Holders(m)' = {}
                                          ELSE \E d \in Creators : Holders(m)' = {d}
        BY <3>3 DEF IInv, EveryDeviceHeldOnce
      <4> QED
        BY <3>4, <4>1 DEF EveryDeviceHeldOnce, Creators
    <3> QED
      BY <2>1, <3>1, <3>2, <3>5 DEF IInv, Creators
  <2> QED
    BY <1>2, <2>1, <2>3, <2>4 DEF Configure, Drop
<1> QED
  BY <1>1, <1>2

\* A process ends, with some of the creators, and their descriptors are closed.
LEMMA EndKeeps ==
  ASSUME IInv, TunAssumption, NEW C \in SUBSET Creators, TypeOK',
         \A n \in Names : device'[n] = IF n \in OpenBy(C) THEN NoDevice ELSE device[n],
         \A c \in Creators :
           /\ pc'[c] = IF c \in C THEN "idle" ELSE pc[c]
           /\ c \notin C => name'[c] = name[c] /\ block'[c] = block[c]
  PROVE  IInv'
<1>1. ASSUME NEW n \in Names
      PROVE  IF device'[n] = NoDevice THEN Holders(n)' = {}
                                      ELSE \E c \in Creators : Holders(n)' = {c}
  <2>1. Holders(n)' = Holders(n) \ C
    BY DEF Holders, Creators
  <2>2. n \in OpenBy(C) <=> Holders(n) \cap C # {}
    <3>1. ASSUME n \in OpenBy(C) PROVE \E c \in C : c \in Holders(n)
      <4>1. PICK c \in C : pc[c] \in {"configure", "open fd"} /\ name[c] = n
        BY <3>1, Zenon DEF OpenBy
      <4> QED
        BY <4>1 DEF Holders
    <3>2. ASSUME NEW c \in C, c \in Holders(n) PROVE n \in OpenBy(C)
      <4>1. pc[c] \in {"configure", "open fd"} /\ name[c] = n
        BY <3>2 DEF Holders
      <4> QED
        BY <4>1, Zenon DEF OpenBy
    <3> QED
      BY <3>1, <3>2
  <2>3. IF device[n] = NoDevice THEN Holders(n) = {}
                                ELSE \E c \in Creators : Holders(n) = {c}
    BY DEF IInv, EveryDeviceHeldOnce
  <2>4. CASE n \in OpenBy(C)
    BY <2>1, <2>2, <2>3, <2>4
  <2>5. CASE n \notin OpenBy(C)
    BY <2>1, <2>2, <2>3, <2>5
  <2> QED
    BY <2>4, <2>5
<1>2. EveryDeviceHeldOnce'
  BY <1>1 DEF EveryDeviceHeldOnce, Creators
<1> QED
  BY <1>2 DEF IInv, Creators

(***************************************************************************)
(* A device belongs to exactly one request or process while it exists.     *)
(***************************************************************************)
THEOREM Inductive == Spec => []IInv
<1>1. Init => IInv
  BY DEF Init, IInv, TypeOK, EveryDeviceHeldOnce, Holders
<1>2. IInv /\ [Next]_vars => IInv'
  <2> SUFFICES ASSUME IInv, [Next]_vars PROVE IInv'
    OBVIOUS
  <2>0. TypeOK
    BY DEF IInv
  <2>1. ASSUME NEW h \in Handlers,
               (\E n \in Names \cup {NoName} : BeginCreate(h, n)) \/ Disconnect(h)
        PROVE  IInv'
    BY <2>1, RequestKeeps, TunAssumption DEF Creators
  <2>2. ASSUME NEW c \in Creators, Create(c) \/ StartOld(c) PROVE IInv'
    <3>1. Insert(c) => c \in Handlers
      BY DEF Insert, IInv
    <3> QED
      BY <2>2, <3>1, RequestKeeps, DeviceKeeps, TunAssumption DEF Create, StartOld
  <2>3. ASSUME NEW c \in Creators, StopOld(c) PROVE IInv'
    <3>1. TypeOK'
      BY <2>0, <2>3 DEF TypeOK, StopOld, Answer, Goto
    <3>2. /\ pc'[c] = "idle"
          /\ \A d \in Creators \ {c} : pc'[d] = pc[d] /\ name'[d] = name[d] /\ block'[d] = block[d]
      BY <2>0, <2>3, OneCreator DEF StopOld
    <3> QED
      BY <2>3, <3>1, <3>2, EndKeeps, TunAssumption DEF StopOld
  <2>4. CASE Restart
    <3>1. TypeOK'
      BY <2>0, <2>4 DEF TypeOK, Restart
    <3> QED
      BY <2>4, <3>1, EndKeeps, TunAssumption DEF Restart, Creators
  <2>5. CASE (\E n \in OtherNets : OthersChange(n)) \/ UNCHANGED vars
    <3>1. UNCHANGED <<device, store, pc, name, block>> /\ others' \subseteq OtherNets
      BY <2>0, <2>5 DEF OthersChange, vars, request, TypeOK
    <3>2. TypeOK' /\ \A m \in Names : Holders(m)' = Holders(m)
      BY <2>0, <3>1 DEF TypeOK, Holders
    <3>3. EveryDeviceHeldOnce'
      BY <3>1, <3>2, SameHolders DEF IInv
    <3> QED
      BY <3>1, <3>2, <3>3 DEF IInv
  <2> QED
    BY <2>1, <2>2, <2>3, <2>4, <2>5 DEF Next
<1> QED
  BY <1>1, <1>2, TunAssumption, PTL DEF Spec

\* Type correctness.
THEOREM TypeCorrect == Spec => []TypeOK
<1>1. IInv => TypeOK
  BY DEF IInv
<1> QED
  BY <1>1, Inductive, PTL

\* No device outlives its creator, and no two creators have one.
THEOREM DevicesHeldOnce == Spec => []EveryDeviceHeldOnce
<1>1. IInv => EveryDeviceHeldOnce
  BY DEF IInv
<1> QED
  BY <1>1, Inductive, PTL
-----------------------------------------------------------------------------
\* Only BeginCreate sets a creator to work.
LEMMA OnlyBegins ==
  ASSUME TypeOK, Next, NEW c \in Creators, pc[c] = "idle", pc'[c] = "open"
  PROVE  \E n : BeginCreate(c, n)
<1>1. ASSUME NEW d \in Creators, NEW n, BeginCreate(d, n) PROVE BeginCreate(c, n)
  BY <1>1 DEF TypeOK, BeginCreate, Goto
<1>2. ASSUME NEW d \in Creators, pc[d] # "idle", Create(d) \/ Disconnect(d) \/ StopOld(d)
      PROVE  FALSE
  BY <1>2 DEF TypeOK, Create, Open, Configure, Drop, Insert, Disconnect, StopOld, Goto, Answer
<1>3. ASSUME NEW d \in Creators, Create(d) \/ Disconnect(d) \/ StopOld(d)
      PROVE  pc[d] # "idle"
  BY <1>3 DEF Create, Open, Configure, Drop, Insert, Disconnect, StopOld
<1>4. ~ Restart
  BY DEF Restart
<1>5. ASSUME NEW n \in OtherNets, OthersChange(n) PROVE FALSE
  BY <1>5 DEF OthersChange, request
<1> QED
  BY <1>1, <1>2, <1>3, <1>4, <1>5 DEF Next, StartOld, Creators

(***************************************************************************)
(* find_available_subnet: the network that a request or tun_old goes to    *)
(* work with is free, or part of a wider one with its address elsewhere.   *)
(***************************************************************************)
THEOREM FreeChosen == Spec => ChoosesFree
<1> DEFINE Free(c) ==
      LET chosen == TunNet(block'[c]) IN
      \A n \in others \cup DeviceNets :
        \/ Span(chosen) \cap Span(n) = {}
        \/ n.len < chosen.len /\ Span(chosen) \subseteq Span(n) \ {n.addr}
<1>1. TypeOK /\ [Next]_vars =>
        [\A c \in Creators : pc[c] = "idle" /\ pc'[c] = "open" => Free(c)]_vars
  <2> SUFFICES ASSUME TypeOK, Next, NEW c \in Creators, pc[c] = "idle", pc'[c] = "open"
               PROVE  Free(c)
    OBVIOUS
  <2>1. PICK i \in Available24 : block'[c] = i
    BY OnlyBegins DEF BeginCreate, Least, TypeOK
  <2> DEFINE t == TunNet(i)
  <2>2. t \in Net
    BY <2>1, BlocksAssumption DEF Available24
  <2> SUFFICES ASSUME NEW n \in others \cup DeviceNets
               PROVE  \/ Span(t) \cap Span(n) = {}
                      \/ n.len < t.len /\ Span(t) \subseteq Span(n) \ {n.addr}
    BY <2>1
  <2>3. n \in Net
    <3>1. others \subseteq Net
      BY TunAssumption DEF TypeOK
    <3>2. \A m \in DeviceNets : \E j \in Blocks : m = TunNet(j)
      BY DEF DeviceNets
    <3> QED
      BY <3>1, <3>2, BlocksAssumption
  <2>4. ~ Contains(t, n.addr)
    BY <2>1 DEF Available24, InUse
  <2> HIDE DEF t
  <2>5. n.addr \in Span(n) /\ n.addr \notin Span(t)
    BY <2>2, <2>3, <2>4, Inside, NetsAssumption DEF Span, Contains
  <2>6. CASE t.len <= n.len
    BY <2>2, <2>3, <2>5, <2>6, NestedOrApart, NetsAssumption
  <2>7. CASE n.len < t.len
    <3>1. n.len <= t.len
      BY <2>2, <2>3, <2>7 DEF Net
    <3> QED
      BY <2>2, <2>3, <2>5, <2>7, <3>1, NestedOrApart, NetsAssumption
  <2> QED
    BY <2>2, <2>3, <2>6, <2>7, NetsAssumption DEF Net
<1> QED
  BY <1>1, TypeCorrect, PTL DEF Spec, ChoosesFree
=============================================================================
