------------------------ MODULE SubnetLoopbackProofs ------------------------
(***************************************************************************)
(* Proofs about SubnetLoopback, for every width of addresses, every set of *)
(* networks, any number of requests and every set of faults.               *)
(***************************************************************************)
EXTENDS SubnetLoopback, Ipv4NetsProofs, TLAPS

(***************************************************************************)
(* A netmask and a prefix length determine each other: the conversion of   *)
(* detect_existing_subnets undoes ipnet's, at every length.                *)
(***************************************************************************)
LEMMA ZerosOfHosts ==
  ASSUME Width \in Nat, NEW l \in 0 .. Width
  PROVE  LeadingZeros(2^(Width - l) - 1) = l
<1> DEFINE x == 2^(Width - l) - 1
           Fits(k) == x < 2^(Width - k) /\ (k = Width \/ x >= 2^(Width - k - 1))
<1>1. Width - l \in Nat /\ 2^(Width - l) \in Nat
  BY PowerPositive
<1>2. Fits(l)
  <2>1. CASE l = Width
    BY <1>1, <2>1
  <2>2. CASE l # Width
    <3>1. Width - l - 1 \in Nat /\ Width - l - 1 < Width - l
      BY <2>2
    <3>2. 2^(Width - l - 1) < 2^(Width - l) /\ 2^(Width - l - 1) \in Nat
      BY <1>1, <3>1, PowerGrows, PowerPositive
    <3> QED
      BY <1>1, <3>2
  <2> QED
    BY <2>1, <2>2
<1>3. ASSUME NEW k \in 0 .. Width, Fits(k) PROVE k = l
  <2>1. CASE l < k
    <3>1. Width - k \in Nat /\ Width - k < Width - l
      BY <2>1
    <3>2. 2^(Width - k) < 2^(Width - l) /\ 2^(Width - k) \in Nat
      BY <1>1, <3>1, PowerGrows, PowerPositive
    <3> QED
      BY <1>1, <1>3, <3>2
  <2>2. CASE k < l
    <3>1. /\ Width - k - 1 \in Nat
          /\ Width - l < Width - k - 1 \/ Width - l = Width - k - 1
      BY <2>2
    <3>2. 2^(Width - l) <= 2^(Width - k - 1) /\ 2^(Width - k - 1) \in Nat
      BY <1>1, <3>1, PowerGrows, PowerPositive
    <3>3. k # Width
      BY <2>2
    <3> QED
      BY <1>1, <1>3, <3>2, <3>3
  <2> QED
    BY <2>1, <2>2
<1>4. LeadingZeros(x) = CHOOSE k \in 0 .. Width : Fits(k)
  BY DEF LeadingZeros
<1> HIDE DEF Fits
<1>5. LeadingZeros(x) = l
  BY <1>2, <1>3, <1>4
<1> QED
  BY <1>5

(***************************************************************************)
(* Detection's leading_zeros of a netmask's complement is the length that  *)
(* the netmask was made from.                                              *)
(***************************************************************************)
THEOREM MaskRoundTrip ==
  ASSUME Width \in Nat, NEW n \in Net
  PROVE  PrefixLen(Mask(n)) = n.len
<1>1. 2^Width \in Nat /\ Size(n) \in Nat
  BY PowerPositive, Inside
<1>2. 2^Width - 1 - (2^Width - Size(n)) = Size(n) - 1
  BY <1>1
<1> QED
  BY <1>2, ZerosOfHosts DEF PrefixLen, Mask, Size, Net

\* The alias of a network determines it.
LEMMA AliasFacts ==
  ASSUME NEW n \in Net
  PROVE  /\ Alias(n) \in [addr : Address, mask : Address]
         /\ Alias(n).addr = n.addr
         /\ [addr |-> Alias(n).addr, len |-> PrefixLen(Alias(n).mask)] = n
<1>1. Width \in Nat
  BY NetsAssumption
<1>2. 2^Width \in Nat /\ Size(n) \in Nat /\ Size(n) >= 1
  BY <1>1, PowerPositive, Inside
<1>3. Size(n) <= 2^Width
  <2>1. Width - n.len \in Nat /\ (Width - n.len < Width \/ Width - n.len = Width)
    BY <1>1 DEF Net
  <2> QED
    BY <1>1, <1>2, <2>1, PowerGrows DEF Size
<1>4. Mask(n) \in Address
  BY <1>2, <1>3 DEF Mask, Address
<1>5. n = [addr |-> n.addr, len |-> n.len] /\ n.addr \in Address
  BY DEF Net
<1> QED
  BY <1>1, <1>4, <1>5, MaskRoundTrip DEF Alias
-----------------------------------------------------------------------------
\* The conjuncts of IInv that are about one variable or one request.
Shape ==
  /\ TypeOK
  /\ mode = "down" => store = {} /\ sweep = "idle" /\ \A h \in Handlers : pc[h] = "idle"
  /\ \A h \in Handlers : pc[h] # "idle" => want[h] # NoNet
  /\ lo0 \subseteq {Alias(n) : n \in Nets \cup ForeignNets}

LEMMA Networks ==
  /\ Nets \cup ForeignNets \subseteq Net
  /\ \A n \in Nets \cup ForeignNets :
       Alias(n) \in [addr : Address, mask : Address] /\ Alias(n).addr = n.addr
<1>1. Nets \cup ForeignNets \subseteq Net
  BY LoopbackAssumption
<1> QED
  BY <1>1, AliasFacts

(***************************************************************************)
(* A step that neither lo0's aliases nor who answers for them are affected *)
(* by, but for addresses that it excuses.                                  *)
(***************************************************************************)
LEMMA Steady ==
  ASSUME OwnersApart, AliasesTold,
         UNCHANGED <<store, swept>>, mode' = "down" \/ mode # "down",
         excused \subseteq excused',
         \A b \in lo0' : b \in lo0 \/ b.addr \in excused',
         \A n \in (store \ swept) \cup Made :
           Alias(n) \in lo0 => Alias(n) \in lo0' \/ n.addr \in excused',
         Made' \subseteq Made,
         \A n \in Made \ Made' : n.addr \in excused' /\ Alias(n).addr = n.addr,
         \A h \in Handlers : Creating(h)' => Creating(h) /\ want'[h] = want[h]
  PROVE  OwnersApart' /\ AliasesTold'
<1>1. OwnersApart'
  BY DEF OwnersApart
<1>2. ASSUME mode' # "down", NEW b \in lo0'
      PROVE  b.addr \in excused' \/ \E n \in (store' \ swept') \cup Made' : b = Alias(n)
  BY <1>2 DEF AliasesTold
<1>3. ASSUME mode' # "down", NEW n \in (store' \ swept') \cup Made'
      PROVE  n.addr \in excused' \/ Alias(n) \in lo0'
  BY <1>3 DEF AliasesTold
<1> QED
  BY <1>1, <1>2, <1>3 DEF AliasesTold

(***************************************************************************)
(* The removal of an entry, by a request or by the sweep.                  *)
(***************************************************************************)
LEMMA RemovalKeeps ==
  ASSUME IInv, NEW n \in store, RemoveAlias(n), UNCHANGED mode,
         store' \ swept' = (store \ swept) \ {n}, Made' = Made,
         \A h \in Handlers : Creating(h)' => Creating(h) /\ want'[h] = want[h]
  PROVE  OwnersApart' /\ AliasesTold'
<1>1. mode # "down" /\ excused \subseteq excused'
  BY DEF IInv, RemoveAlias, Excuse
<1>2. lo0' = lo0 \/ lo0' = {b \in lo0 : b.addr # n.addr}
  BY DEF RemoveAlias, WithoutAlias
<1>3. n \in Nets \cup ForeignNets
  BY DEF IInv, TypeOK
<1>4. n.addr \in excused' \/ (n \in store \ swept /\ lo0' = {b \in lo0 : b.addr # n.addr})
  <2>1. CASE n \in swept \/ (HasAlias(n) /\ lo0' = lo0)
    BY <2>1 DEF RemoveAlias, Excuse
  <2>2. CASE n \notin swept /\ ~ HasAlias(n)
    BY <2>2, <1>1, <1>3, Networks DEF IInv, AliasesTold, HasAlias
  <2> QED
    BY <1>2, <2>1, <2>2
<1>5. OwnersApart'
  BY <1>1 DEF IInv, OwnersApart
<1>6. ASSUME NEW b \in lo0'
      PROVE  b.addr \in excused' \/ \E m \in (store' \ swept') \cup Made' : b = Alias(m)
  <2>1. b \in lo0
    BY <1>2
  <2>2. CASE b.addr \in excused
    BY <1>1, <2>2
  <2>3. CASE \E m \in (store \ swept) \cup Made : b = Alias(m)
    <3>1. PICK m \in (store \ swept) \cup Made : b = Alias(m)
      BY <2>3
    <3>2. CASE m = n
      BY <1>3, <1>4, <3>1, <3>2, Networks
    <3> QED
      BY <3>1, <3>2
  <2> QED
    BY <1>1, <2>1, <2>2, <2>3 DEF IInv, AliasesTold
<1>7. ASSUME NEW m \in (store' \ swept') \cup Made'
      PROVE  m.addr \in excused' \/ Alias(m) \in lo0'
  <2>1. m \in Nets \cup ForeignNets
    BY DEF IInv, TypeOK, Made
  <2>2. m.addr \in excused \/ Alias(m) \in lo0
    BY <1>1 DEF IInv, AliasesTold
  <2>3. CASE m.addr = n.addr /\ n \in store \ swept
    <3>1. CASE m \in Made
      BY <1>1, <2>3, <3>1 DEF IInv, OwnersApart, Made, Creating
    <3>2. CASE m \in store \ swept /\ m # n
      BY <1>1, <2>3, <3>2 DEF IInv, OwnersApart
    <3> QED
      BY <3>1, <3>2
  <2>4. CASE m.addr = n.addr /\ n.addr \in excused'
    BY <2>4
  <2>5. CASE m.addr # n.addr
    BY <1>1, <1>2, <2>1, <2>2, <2>5, Networks
  <2> QED
    BY <1>4, <2>3, <2>4, <2>5
<1> QED
  BY <1>1, <1>5, <1>6, <1>7 DEF AliasesTold

\* The task variables after a step of request h.
LEMMA OneTask ==
  ASSUME TypeOK, NEW h \in Handlers
  PROVE  /\ \A x : Goto(h, x) => /\ pc'[h] = x
                                 /\ \A g \in Handlers \ {h} : pc'[g] = pc[g]
         /\ \A x : want' = [want EXCEPT ![h] = x] =>
              want'[h] = x /\ \A g \in Handlers \ {h} : want'[g] = want[g]
         /\ Answer(h) => /\ pc'[h] = "idle" /\ want'[h] = NoNet
                         /\ \A g \in Handlers \ {h} : pc'[g] = pc[g] /\ want'[g] = want[g]
BY DEF TypeOK, Goto, Answer

\* POST /subnet: the address is free, and if two find it so it is excused.
LEMMA BeginCreateKeeps ==
  ASSUME IInv, NEW h \in Handlers, NEW n \in Nets, BeginCreate(h, n)
  PROVE  IInv'
<1>1. /\ mode = "serving" /\ pc[h] = "idle" /\ Available(n, Addresses)
      /\ pc'[h] = "alias" /\ want'[h] = n
      /\ \A g \in Handlers \ {h} : pc'[g] = pc[g] /\ want'[g] = want[g]
      /\ UNCHANGED <<lo0, mode, store, sweep, swept>>
  <2>1. TypeOK
    BY DEF IInv
  <2>2. /\ mode = "serving" /\ pc[h] = "idle" /\ Available(n, Addresses)
        /\ Goto(h, "alias") /\ want' = [want EXCEPT ![h] = n]
        /\ UNCHANGED <<lo0, mode, store, sweep, swept>>
    BY DEF BeginCreate
  <2> HIDE DEF Goto
  <2> QED
    BY <2>1, <2>2, OneTask
<1>2. /\ excused \subseteq excused'
      /\ \A g \in Handlers : pc[g] = "alias" /\ want[g].addr = n.addr => n.addr \in excused'
  BY DEF BeginCreate, Excuse
<1>3. n \in Net /\ n.addr \in Address
  BY LoopbackAssumption DEF Net
<1>4. TypeOK'
  <2>1. excused' \subseteq Address
    BY <1>3 DEF BeginCreate, Excuse, IInv, TypeOK
  <2> QED
    BY <2>1 DEF BeginCreate, Goto, IInv, TypeOK
<1>5. \A b \in lo0 : b.addr # n.addr
  BY <1>1, <1>3, Inside, NetsAssumption DEF Available, Addresses
<1>6. \A m \in (store \ swept) \cup Made : m.addr = n.addr => m.addr \in excused
  <2>1. \A m \in (store \ swept) \cup Made : m \in Nets \cup ForeignNets
    BY DEF IInv, TypeOK, Made
  <2> QED
    BY <1>1, <1>5, <2>1, Networks DEF IInv, AliasesTold
<1>7. \A g \in Handlers : Creating(g) /\ want[g].addr = n.addr => n.addr \in excused'
  BY <1>2, <1>6 DEF Creating, Made
<1>8. OwnersApart'
  BY <1>1, <1>2, <1>6, <1>7 DEF IInv, OwnersApart, Creating
<1>9. Made' = Made
  BY <1>1 DEF Made
<1>10. AliasesTold'
  BY <1>1, <1>2, <1>9 DEF IInv, AliasesTold
<1> QED
  BY <1>1, <1>3, <1>4, <1>8, <1>10, LoopbackAssumption DEF IInv

\* `ifconfig lo0 alias`: the alias is the request's from now on.
LEMMA AddAliasKeeps ==
  ASSUME IInv, NEW h \in Handlers, AddAlias(h)
  PROVE  IInv'
<1> DEFINE n == want[h]
<1>1. /\ pc[h] = "alias" /\ n \in Nets \cup ForeignNets /\ mode # "down"
      /\ UNCHANGED <<mode, store, sweep, swept, excused>>
  BY DEF AddAlias, IInv, TypeOK
<1>2. CASE lo0' = WithAlias(n) /\ Goto(h, "insert") /\ UNCHANGED want
  <2>1. /\ pc'[h] = "insert" /\ \A g \in Handlers \ {h} : pc'[g] = pc[g]
        /\ Made' = Made \cup {n}
    BY <1>1, <1>2, OneTask DEF IInv, Made
  <2>2. TypeOK'
    BY <1>1, <1>2, Networks DEF IInv, TypeOK, WithAlias, Goto
  <2>3. OwnersApart'
    BY <1>1, <1>2, <2>1 DEF IInv, OwnersApart, Creating
  <2>4. \A m \in (store \ swept) \cup Made : m.addr = n.addr => m.addr \in excused
    BY <1>1 DEF IInv, OwnersApart, Creating, Made
  <2>5. \A m \in (store \ swept) \cup Made : m \in Nets \cup ForeignNets
    BY DEF IInv, TypeOK, Made
  <2>6. ASSUME NEW b \in lo0'
        PROVE  b.addr \in excused \/ \E m \in (store \ swept) \cup Made' : b = Alias(m)
    BY <1>1, <1>2, <2>1 DEF IInv, AliasesTold, WithAlias
  <2>7. ASSUME NEW m \in (store \ swept) \cup Made'
        PROVE  m.addr \in excused \/ Alias(m) \in lo0'
    BY <1>1, <1>2, <2>1, <2>4, <2>5, Networks DEF IInv, AliasesTold, WithAlias
  <2>8. AliasesTold'
    BY <1>1, <2>6, <2>7 DEF AliasesTold
  <2>9. lo0' \subseteq {Alias(m) : m \in Nets \cup ForeignNets}
    BY <1>1, <1>2 DEF IInv, WithAlias
  <2> QED
    BY <1>1, <1>2, <2>1, <2>2, <2>3, <2>8, <2>9 DEF IInv
<1>3. CASE Answer(h) /\ UNCHANGED lo0
  <2>1. /\ pc'[h] = "idle"
        /\ \A g \in Handlers \ {h} : pc'[g] = pc[g] /\ want'[g] = want[g]
    BY <1>3, OneTask DEF IInv
  <2>2. TypeOK'
    BY <1>1, <1>3 DEF IInv, TypeOK, Answer, Goto
  <2>3. /\ Made' = Made
        /\ \A g \in Handlers : Creating(g)' => Creating(g) /\ want'[g] = want[g]
    BY <1>1, <2>1 DEF Made, Creating
  <2>4. OwnersApart' /\ AliasesTold'
    BY <1>1, <1>3, <2>3, Steady DEF IInv
  <2> QED
    BY <1>1, <1>3, <2>1, <2>2, <2>4 DEF IInv
<1> QED
  BY <1>2, <1>3 DEF AddAlias

\* create_subnet's insertion: the alias goes over to the store.
LEMMA InsertKeeps ==
  ASSUME IInv, NEW h \in Handlers, Insert(h)
  PROVE  IInv'
<1> DEFINE n == want[h]
<1>1. /\ pc[h] = "insert" /\ n \in Nets \cup ForeignNets /\ mode # "down"
      /\ store' = store \cup {n} /\ swept' = swept \ {n}
      /\ UNCHANGED <<lo0, mode, sweep, excused>>
  BY DEF Insert, IInv, TypeOK
<1>2. /\ pc'[h] = "idle"
      /\ \A g \in Handlers \ {h} : pc'[g] = pc[g] /\ want'[g] = want[g]
  BY OneTask DEF IInv, Insert
<1>3. TypeOK'
  BY <1>1 DEF IInv, TypeOK, Insert, Answer, Goto
<1>4. store' \ swept' = (store \ swept) \cup {n} /\ n \in Made
  BY <1>1 DEF Made
<1>5. Made' \cup {n} = Made
  BY <1>1, <1>2 DEF Made
<1>6. (store' \ swept') \cup Made' = (store \ swept) \cup Made
  BY <1>4, <1>5
<1>7. AliasesTold'
  BY <1>1, <1>6 DEF IInv, AliasesTold
<1>8. \A g \in Handlers : Creating(g)' => g # h /\ Creating(g) /\ want'[g] = want[g]
  BY <1>2 DEF Creating
<1>9. OwnersApart'
  <2>1. Creating(h)
    BY <1>1 DEF Creating
  <2> QED
    BY <1>1, <1>4, <1>8, <2>1 DEF IInv, OwnersApart
<1> QED
  BY <1>1, <1>2, <1>3, <1>7, <1>9 DEF IInv

\* DELETE /subnet/:cidr, once it has the mutex.
LEMMA DeleteKeeps ==
  ASSUME IInv, NEW h \in Handlers, Delete(h)
  PROVE  IInv'
<1> DEFINE n == want[h]
<1>1. /\ pc[h] = "delete" /\ store' = store \ {n} /\ swept' = swept \ {n}
      /\ n \in Nets \cup ForeignNets /\ mode # "down" /\ UNCHANGED <<mode, sweep>>
  BY DEF Delete, IInv, TypeOK
<1>2. /\ pc'[h] = "idle"
      /\ \A g \in Handlers \ {h} : pc'[g] = pc[g] /\ want'[g] = want[g]
  BY OneTask DEF IInv, Delete
<1>3. lo0' \subseteq lo0 /\ excused' \subseteq excused \cup {n.addr}
  BY <1>1 DEF Delete, RemoveAlias, WithoutAlias, Excuse
<1>4. n.addr \in Address
  BY <1>1, Networks DEF Net
<1>5. TypeOK'
  BY <1>1, <1>3, <1>4 DEF IInv, TypeOK, Delete, Answer, Goto
<1>6. /\ Made' = Made
      /\ \A g \in Handlers : Creating(g)' => Creating(g) /\ want'[g] = want[g]
  BY <1>1, <1>2 DEF Made, Creating
<1>7. CASE n \in store /\ RemoveAlias(n)
  <2>1. store' \ swept' = (store \ swept) \ {n}
    BY <1>1
  <2>2. OwnersApart' /\ AliasesTold'
    BY <1>1, <1>6, <1>7, <2>1, RemovalKeeps
  <2> QED
    BY <1>1, <1>2, <1>3, <1>5, <2>2 DEF IInv
<1>8. CASE n \notin store /\ UNCHANGED <<lo0, excused>>
  <2>1. UNCHANGED <<store, swept>>
    BY <1>1, <1>8 DEF IInv, TypeOK
  <2>2. OwnersApart' /\ AliasesTold'
    BY <1>1, <1>6, <1>8, <2>1, Steady DEF IInv
  <2> QED
    BY <1>1, <1>2, <1>3, <1>5, <2>2 DEF IInv
<1> QED
  BY <1>7, <1>8 DEF Delete

\* DELETE comes in; a client goes away.
LEMMA ClientKeeps ==
  ASSUME IInv, NEW h \in Handlers,
         Disconnect(h) \/ \E n \in Nets : BeginDelete(h, n)
  PROVE  IInv'
<1>1. CASE Disconnect(h)
  <2>1. /\ pc[h] \in {"insert", "delete"} /\ pc'[h] = "idle"
        /\ \A g \in Handlers \ {h} : pc'[g] = pc[g] /\ want'[g] = want[g]
        /\ UNCHANGED <<lo0, mode, store, sweep, swept>>
    BY <1>1, OneTask DEF IInv, Disconnect
  <2>2. /\ mode # "down" /\ want[h] \in Nets \cup ForeignNets
        /\ want[h].addr \in Address /\ Alias(want[h]).addr = want[h].addr
    BY <2>1, Networks DEF IInv, TypeOK, Net
  <2>3. excused' = excused \cup (IF pc[h] = "insert" THEN {want[h].addr} ELSE {})
    BY <1>1 DEF Disconnect, Excuse
  <2>4. TypeOK'
    BY <1>1, <2>1, <2>2, <2>3 DEF IInv, TypeOK, Disconnect, Answer, Goto
  <2>5. /\ Made' \subseteq Made
        /\ \A n \in Made \ Made' : pc[h] = "insert" /\ n = want[h]
        /\ \A g \in Handlers : Creating(g)' => Creating(g) /\ want'[g] = want[g]
    BY <2>1 DEF Made, Creating
  <2>6. OwnersApart' /\ AliasesTold'
    BY <2>1, <2>2, <2>3, <2>5, Steady DEF IInv
  <2> QED
    BY <2>1, <2>2, <2>4, <2>6 DEF IInv
<1>2. ASSUME NEW n \in Nets, BeginDelete(h, n) PROVE IInv'
  <2>1. /\ pc[h] = "idle" /\ pc'[h] = "delete" /\ want'[h] = n /\ mode = "serving"
        /\ \A g \in Handlers \ {h} : pc'[g] = pc[g] /\ want'[g] = want[g]
        /\ UNCHANGED <<lo0, mode, store, sweep, swept, excused>>
    BY <1>2, OneTask DEF IInv, BeginDelete
  <2>2. TypeOK'
    BY <1>2 DEF IInv, TypeOK, BeginDelete, Goto
  <2>3. /\ Made' = Made
        /\ \A g \in Handlers : Creating(g)' => Creating(g) /\ want'[g] = want[g]
    BY <2>1 DEF Made, Creating
  <2>4. OwnersApart' /\ AliasesTold'
    BY <2>1, <2>3, Steady DEF IInv
  <2>5. n # NoNet
    BY LoopbackAssumption
  <2> QED
    BY <2>1, <2>2, <2>4, <2>5 DEF IInv
<1> QED
  BY <1>1, <1>2

\* The shutdown, but for the removals of the sweep.
LEMMA ShutdownKeeps ==
  ASSUME IInv, CtrlC \/ SweepBegin \/ SweepEnd \/ Drain
  PROVE  IInv'
<1>1. /\ UNCHANGED <<lo0, store, swept, pc, want, excused>>
      /\ mode # "down" /\ mode' \in {"serving", "draining"}
      /\ sweep' \in {"idle", "lock", "run", "done"}
  BY DEF CtrlC, SweepBegin, SweepEnd, Drain, task, IInv, TypeOK
<1>2. TypeOK'
  BY <1>1 DEF IInv, TypeOK
<1>3. /\ Made' = Made
      /\ \A g \in Handlers : Creating(g)' => Creating(g) /\ want'[g] = want[g]
  BY <1>1 DEF Made, Creating
<1>4. OwnersApart' /\ AliasesTold'
  BY <1>1, <1>3, Steady DEF IInv
<1> QED
  BY <1>1, <1>2, <1>4 DEF IInv

\* One removal of the sweep.
LEMMA SweepNextKeeps ==
  ASSUME IInv, NEW n \in store, SweepNext(n)
  PROVE  IInv'
<1>1. /\ RemoveAlias(n) /\ swept' = swept \cup {n} /\ mode # "down"
      /\ UNCHANGED <<mode, store, sweep, pc, want>>
  BY DEF SweepNext, IInv, task
<1>2. n \in Nets \cup ForeignNets /\ n.addr \in Address
  BY Networks DEF IInv, TypeOK, Net
<1>3. lo0' \subseteq lo0 /\ excused' \subseteq excused \cup {n.addr}
  BY <1>1 DEF RemoveAlias, WithoutAlias, Excuse
<1>4. TypeOK'
  BY <1>1, <1>2, <1>3 DEF IInv, TypeOK
<1>5. /\ Made' = Made
      /\ \A g \in Handlers : Creating(g)' => Creating(g) /\ want'[g] = want[g]
  BY <1>1 DEF Made, Creating
<1>6. store' \ swept' = (store \ swept) \ {n}
  BY <1>1
<1>7. OwnersApart' /\ AliasesTold'
  BY <1>1, <1>5, <1>6, RemovalKeeps
<1> QED
  BY <1>1, <1>3, <1>4, <1>7 DEF IInv

\* The process ends: lo0 keeps its aliases, and nobody answers for them.
LEMMA DieKeeps ==
  ASSUME IInv, Die
  PROVE  IInv'
<1>1. TypeOK'
  BY DEF Die, IInv, TypeOK
<1>2. /\ store' = {} /\ mode' = "down" /\ sweep' = "idle" /\ UNCHANGED lo0
      /\ \A h \in Handlers : pc'[h] = "idle"
  BY DEF Die
<1>3. OwnersApart' /\ AliasesTold'
  BY <1>2 DEF OwnersApart, AliasesTold, Creating
<1> QED
  BY <1>1, <1>2, <1>3 DEF IInv

\* What detection makes of an alias is the network it was made from.
LEMMA DetectedNets ==
  ASSUME IInv
  PROVE  \A d \in Detected :
           /\ d \in Nets \cup ForeignNets /\ Alias(d) \in lo0
           /\ \A b \in lo0 : b.addr = d.addr => b = Alias(d)
<1> SUFFICES ASSUME NEW d \in Detected
             PROVE  /\ d \in Nets \cup ForeignNets /\ Alias(d) \in lo0
                    /\ \A b \in lo0 : b.addr = d.addr => b = Alias(d)
  OBVIOUS
<1>1. PICK a \in lo0 : d = [addr |-> a.addr, len |-> PrefixLen(a.mask)]
  BY DEF Detected
<1>2. PICK n \in Nets \cup ForeignNets : a = Alias(n)
  BY DEF IInv
<1>3. n \in Net
  BY LoopbackAssumption
<1>4. d = n /\ a.addr = d.addr
  BY <1>1, <1>2, <1>3, AliasFacts
<1> QED
  BY <1>2, <1>4 DEF IInv, TypeOK

\* Every allowed alias is detected.
LEMMA AllDetected ==
  ASSUME IInv, NEW b \in lo0, Contains(Allowed, b.addr)
  PROVE  \E d \in Detected : b = Alias(d)
<1>1. PICK n \in Nets \cup ForeignNets : b = Alias(n)
  BY DEF IInv
<1>2. n = [addr |-> b.addr, len |-> PrefixLen(b.mask)]
  BY <1>1, LoopbackAssumption, AliasFacts
<1>3. n \in Detected
  BY <1>2 DEF Detected
<1> QED
  BY <1>1, <1>3

LEMMA StartKeeps ==
  ASSUME IInv, Start
  PROVE  IInv'
<1>1. /\ mode = "down" /\ mode' = "serving" /\ store = {} /\ swept = {}
      /\ \A h \in Handlers : pc[h] = "idle"
      /\ UNCHANGED <<lo0, sweep, swept, pc, want>>
      /\ store' = Detected \/ store' = {}
      /\ excused' = {a.addr : a \in {b \in lo0 : store' = {} \/ ~ Contains(Allowed, b.addr)}}
  BY DEF Start, IInv, TypeOK, task
<1>2. TypeOK'
  BY <1>1, DetectedNets DEF IInv, TypeOK
<1>3. Made' = {} /\ \A h \in Handlers : ~ Creating(h)'
  BY <1>1 DEF Made, Creating
<1>4. OwnersApart'
  <2>1. \A m, n \in Detected : m.addr = n.addr => m = n
    BY DetectedNets, Networks, AliasFacts, LoopbackAssumption
  <2> QED
    BY <1>1, <1>3, <2>1 DEF OwnersApart
<1>5. ASSUME NEW b \in lo0
      PROVE  b.addr \in excused' \/ \E n \in (store' \ swept') \cup Made' : b = Alias(n)
  <2>1. CASE store' = {} \/ ~ Contains(Allowed, b.addr)
    BY <1>1, <2>1
  <2>2. CASE store' = Detected /\ Contains(Allowed, b.addr)
    BY <1>1, <2>2, AllDetected
  <2> QED
    BY <1>1, <2>1, <2>2
<1>6. \A n \in (store' \ swept') \cup Made' : Alias(n) \in lo0
  BY <1>1, <1>3, DetectedNets
<1>7. AliasesTold'
  BY <1>1, <1>5, <1>6 DEF AliasesTold
<1> QED
  BY <1>1, <1>2, <1>4, <1>7 DEF IInv

LEMMA ForeignKeeps ==
  ASSUME IInv, NEW n \in ForeignNets, Foreign(n)
  PROVE  IInv'
<1>1. /\ UNCHANGED <<mode, store, sweep, swept, pc, want>>
      /\ excused' = excused \cup {n.addr}
      /\ n.addr \in Address /\ Alias(n) \in [addr : Address, mask : Address]
      /\ Alias(n).addr = n.addr
  BY Networks DEF Foreign, Excuse, task, Net
<1>2. lo0' = WithAlias(n) \/ lo0' = WithoutAlias(n)
  BY DEF Foreign
<1>3. TypeOK'
  BY <1>1, <1>2 DEF IInv, TypeOK, WithAlias, WithoutAlias
<1>4. lo0' \subseteq {Alias(m) : m \in Nets \cup ForeignNets}
  BY <1>2 DEF IInv, WithAlias, WithoutAlias
<1>5. /\ \A b \in lo0' : b \in lo0 \/ b.addr \in excused'
      /\ \A b \in lo0 : b \in lo0' \/ b.addr \in excused'
  BY <1>1, <1>2 DEF WithAlias, WithoutAlias
<1>6. /\ Made' = Made
      /\ \A g \in Handlers : Creating(g)' => Creating(g) /\ want'[g] = want[g]
  BY <1>1 DEF Made, Creating
<1>7. \A m \in (store \ swept) \cup Made : Alias(m).addr = m.addr
  BY Networks DEF IInv, TypeOK, Made
<1>8. CASE mode # "down"
  <2>1. OwnersApart' /\ AliasesTold'
    BY <1>1, <1>5, <1>6, <1>7, <1>8, Steady DEF IInv
  <2> QED
    BY <1>1, <1>3, <1>4, <2>1 DEF IInv
<1>9. CASE mode = "down"
  <2>1. OwnersApart' /\ AliasesTold'
    BY <1>1, <1>9 DEF IInv, OwnersApart, AliasesTold, Creating
  <2> QED
    BY <1>1, <1>3, <1>4, <2>1 DEF IInv
<1> QED
  BY <1>8, <1>9
-----------------------------------------------------------------------------
(***************************************************************************)
(* Requests, the sweep, restarts and other programs preserve IInv.         *)
(***************************************************************************)
THEOREM Inductive == Spec => []IInv
<1>1. Init => IInv
  BY DEF Init, IInv, TypeOK, OwnersApart, AliasesTold, Creating
<1>2. IInv /\ [Next]_vars => IInv'
  <2> SUFFICES ASSUME IInv, [Next]_vars PROVE IInv'
    OBVIOUS
  <2>1. ASSUME NEW h \in Handlers, AddAlias(h) \/ Insert(h) \/ Delete(h) \/ Disconnect(h)
        PROVE  IInv'
    BY <2>1, AddAliasKeeps, InsertKeeps, DeleteKeeps, ClientKeeps
  <2>2. ASSUME NEW h \in Handlers, NEW n \in Nets, BeginCreate(h, n) \/ BeginDelete(h, n)
        PROVE  IInv'
    BY <2>2, BeginCreateKeeps, ClientKeeps
  <2>3. CASE CtrlC \/ SweepBegin \/ SweepEnd \/ Drain
    BY <2>3, ShutdownKeeps
  <2>4. CASE Exit \/ Crash
    BY <2>4, DieKeeps DEF Exit, Crash
  <2>5. CASE UNCHANGED vars
    BY <2>5 DEF vars, task, IInv, TypeOK, OwnersApart, AliasesTold, Creating, Made
  <2> QED
    BY <2>1, <2>2, <2>3, <2>4, <2>5, SweepNextKeeps, StartKeeps, ForeignKeeps DEF Next
<1> QED
  BY <1>1, <1>2, PTL DEF Spec

(***************************************************************************)
(* Type correctness: lo0 has at most one alias per address, and whatever   *)
(* its netmasks are, detection registers a network of a proper length.     *)
(***************************************************************************)
THEOREM TypeCorrect == Spec => []TypeOK
<1>1. IInv => TypeOK
  BY DEF IInv
<1> QED
  BY Inductive, <1>1, PTL

(***************************************************************************)
(* The store and the requests about to insert tell lo0's aliases.          *)
(***************************************************************************)
LEMMA TellsLo0 == IInv => StoreTellsLo0
<1> SUFFICES ASSUME IInv, mode # "down", NEW a \in Address \ excused
             PROVE  {b \in lo0 : b.addr = a} =
                      {Alias(n) : n \in {m \in (store \ swept) \cup Made : m.addr = a}}
  BY DEF StoreTellsLo0
<1>1. \A n \in (store \ swept) \cup Made : Alias(n).addr = n.addr
  BY Networks DEF IInv, TypeOK, Made
<1>2. \A b \in lo0 : b.addr = a => \E n \in (store \ swept) \cup Made : b = Alias(n)
  BY DEF IInv, AliasesTold
<1>3. \A n \in (store \ swept) \cup Made : n.addr = a => Alias(n) \in lo0
  BY DEF IInv, AliasesTold
<1> QED
  BY <1>1, <1>2, <1>3

(***************************************************************************)
(* What the store and the requests in progress say of the aliases of lo0   *)
(* is so, at every moment of the service.                                  *)
(***************************************************************************)
THEOREM Lo0AsTold == Spec => []StoreTellsLo0
BY Inductive, TellsLo0, PTL

(***************************************************************************)
(* When the sweep ends only requests that await the mutex have an alias.   *)
(***************************************************************************)
THEOREM SweepLeavesNothing == Spec => SweepClears
<1> DEFINE Ends == sweep = "run" /\ sweep' = "done"
           Clear == \A a \in lo0 : a.addr \in excused \/ \E n \in Made : Alias(n) = a
<1>1. IInv /\ [Next]_vars => [Ends => Clear]_vars
  <2> SUFFICES ASSUME IInv, Next, Ends PROVE Clear
    OBVIOUS
  <2>1. SweepEnd
    BY DEF Next, BeginCreate, BeginDelete, AddAlias, Insert, Delete, Disconnect, CtrlC,
           SweepBegin, SweepNext, Drain, Exit, Crash, Die, Start, Foreign
  <2>2. store \ swept = {} /\ mode # "down"
    BY <2>1 DEF SweepEnd, IInv
  <2> QED
    BY <2>2 DEF IInv, AliasesTold
<1> QED
  BY <1>1, Inductive, PTL DEF Spec, SweepClears
-----------------------------------------------------------------------------
\* A request is accepted after both checks, at this moment.
LEMMA AcceptedIsChecked ==
  ASSUME TypeOK, Next, NEW n, Accepts(n)
  PROVE  mode # "down" /\ ValidNetwork(n) /\ Available(n, Addresses)
<1>1. PICK h \in Handlers : pc[h] = "idle" /\ pc'[h] = "alias" /\ want'[h] = n
  BY DEF Accepts
<1>2. ASSUME NEW g \in Handlers, NEW m \in Nets, BeginCreate(g, m)
      PROVE  m = n
  BY <1>1, <1>2 DEF BeginCreate, Goto, TypeOK
<1>3. ASSUME NEW g \in Handlers, NEW m \in Nets, BeginDelete(g, m)
      PROVE  FALSE
  BY <1>1, <1>3 DEF BeginDelete, Goto, TypeOK
<1>4. ASSUME NEW g \in Handlers, AddAlias(g) \/ Insert(g) \/ Delete(g) \/ Disconnect(g)
      PROVE  FALSE
  BY <1>1, <1>4 DEF AddAlias, Insert, Delete, Disconnect, Answer, Goto, TypeOK
<1>5. UNCHANGED pc => FALSE
  BY <1>1
<1>6. ~ Die
  BY <1>1 DEF Die
<1> QED
  BY <1>2, <1>3, <1>4, <1>5, <1>6
  DEF Next, BeginCreate, CtrlC, SweepBegin, SweepNext, SweepEnd, Drain, Exit, Crash,
      Start, Foreign, task

(***************************************************************************)
(* validate_network keeps what it accepts apart from protected networks.   *)
(***************************************************************************)
THEOREM AcceptedIsAllowed == Spec => AcceptsAllowedOnly
<1> DEFINE Allows(n) ==
      /\ \A p \in Protected : Span(n) \cap Span(p) = {}
      /\ n.len >= Allowed.len => Span(n) \subseteq Span(Allowed)
<1>1. TypeOK /\ [Next]_vars => [\A n \in Nets : Accepts(n) => Allows(n)]_vars
  <2> SUFFICES ASSUME TypeOK, Next, NEW n \in Nets, Accepts(n) PROVE Allows(n)
    OBVIOUS
  <2>1. n \in Net /\ ValidNetwork(n)
    BY AcceptedIsChecked, LoopbackAssumption
  <2>2. n.addr \in Span(n) /\ n.addr \in Span(Allowed)
    BY <2>1, Inside, AddressIn, NetsAssumption DEF ValidNetwork
  <2>3. ASSUME NEW p \in Protected PROVE Span(n) \cap Span(p) = {}
    <3>1. p \in Net /\ p.addr \in Span(p) /\ p.addr \notin Span(n) /\ n.addr \notin Span(p)
      BY <2>1, Inside, AddressIn, NetsAssumption DEF ValidNetwork
    <3>2. n.len <= p.len \/ p.len <= n.len
      BY <2>1, <3>1, NetsAssumption DEF Net
    <3> QED
      BY <2>1, <2>2, <3>1, <3>2, NestedOrApart, NetsAssumption
  <2>4. n.len >= Allowed.len => Span(n) \subseteq Span(Allowed)
    BY <2>1, <2>2, NestedOrApart, NetsAssumption DEF Net
  <2> QED
    BY <2>3, <2>4
<1> QED
  BY <1>1, TypeCorrect, PTL DEF Spec, AcceptsAllowedOnly

(***************************************************************************)
(* is_subnet_available: what is accepted is apart from what is listed.     *)
(***************************************************************************)
THEOREM AcceptedIsFree == Spec => AcceptsFreeOnly
<1> DEFINE Free(n, m) == \/ Span(n) \cap Span(m) = {}
                         \/ Span(n) \subseteq Span(m) \ {m.addr}
<1>1. IInv /\ [Next]_vars =>
        [\A n \in Nets, m \in store \ swept :
           Accepts(n) /\ m.addr \notin excused => Free(n, m)]_vars
  <2> SUFFICES ASSUME IInv, Next, NEW n \in Nets, NEW m \in store \ swept,
                      Accepts(n), m.addr \notin excused
               PROVE  Free(n, m)
    OBVIOUS
  <2>1. n \in Net /\ m \in Net /\ m \in Nets \cup ForeignNets
    BY LoopbackAssumption DEF IInv, TypeOK
  <2>2. Alias(m) \in lo0 /\ Alias(m).addr = m.addr
    BY <2>1, AcceptedIsChecked, Networks DEF IInv, AliasesTold
  <2>3. m.addr \in Span(m) /\ m.addr \notin Span(n)
    <3>1. TypeOK /\ Available(n, Addresses)
      BY AcceptedIsChecked DEF IInv
    <3>2. m.addr \in Addresses
      BY <2>2 DEF Addresses
    <3> QED
      BY <2>1, <3>1, <3>2, Inside, AddressIn, NetsAssumption DEF Available
  <2>4. n.len <= m.len \/ m.len <= n.len
    BY <2>1, NetsAssumption DEF Net
  <2> QED
    BY <2>1, <2>3, <2>4, NestedOrApart, NetsAssumption
<1> QED
  BY <1>1, Inductive, PTL DEF Spec, AcceptsFreeOnly
=============================================================================
