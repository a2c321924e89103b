------------------------ MODULE SubnetDaemonProofs ------------------------
(***************************************************************************)
(* Proofs, for every number of handlers, interfaces and networks, of the   *)
(* safety of the subnet daemon. Every action keeps IInv; there is a lemma  *)
(* for each, and in it a step for each conjunct.                           *)
(***************************************************************************)
EXTENDS SubnetDaemonInv, TLAPS

(***************************************************************************)
(* A host without dummy interfaces and without a daemon.                   *)
(***************************************************************************)
LEMMA InitInv == Init => IInv
<1> SUFFICES ASSUME Init PROVE IInv
  OBVIOUS
<1> USE DaemonAssumption DEF Init
<1>1. TypeOK
  BY DEF TypeOK, Tasks, Dummies
<1>2. StepTypes
  BY DEF StepTypes, CreateSteps, RemoveSteps, Owns, Tasks
<1>3. LockDiscipline
  BY DEF LockDiscipline, RemoveSteps, Tasks
<1>4. StoreBacked /\ OneCreatorPerInterface /\ CreatorOwnsLink
  BY DEF StoreBacked, OneCreatorPerInterface, CreatorOwnsLink, Pending, Owns,
       Keys, Tasks
<1>5. RemoverOwnsLink
  BY DEF RemoverOwnsLink
<1> QED
  BY <1>1, <1>2, <1>3, <1>4, <1>5 DEF IInv

(***************************************************************************)
(* Steps of the server's mode or of other programs, and no step at all.    *)
(***************************************************************************)
LEMMA QuietInv ==
  ASSUME IInv, UNCHANGED <<links, net, up, store, lock, task, todo, history>>,
         foreign' \subseteq Foreign,
         mode' \in {"serving", "draining"} \/ mode' = mode
  PROVE  IInv'
<1> USE DEF IInv, task, history
<1>1. TypeOK' /\ StepTypes'
  BY DEF TypeOK, StepTypes, Owns
<1>2. LockDiscipline'
  BY DEF LockDiscipline
<1>3. StoreBacked' <=> StoreBacked
  BY DEF StoreBacked, EntryBacked, Pending
<1>4. OneCreatorPerInterface' <=> OneCreatorPerInterface
  BY DEF OneCreatorPerInterface, Owns, Swept, Sound
<1>5. CreatorOwnsLink' <=> CreatorOwnsLink
  BY DEF CreatorOwnsLink, CreatorLink, Owns, Pending
<1>6. RemoverOwnsLink' <=> RemoverOwnsLink
  BY DEF RemoverOwnsLink, RemoverLink, Owns, Pending
<1> QED
  BY <1>1, <1>2, <1>3, <1>4, <1>5, <1>6 DEF Swept, Sound

(***************************************************************************)
(* A removal makes no entry pending.                                       *)
(***************************************************************************)
LEMMA PendingBefore ==
  ASSUME NEW k, Pending(k)', UNCHANGED <<store, todo, misread>>,
         pc'[Shutdown] = pc[Shutdown] \/ pc'[Shutdown] \in {"linkDel", "sweep"}
  PROVE  Pending(k)
  BY DEF Pending

(***************************************************************************)
(* An accepted create request: the handler has its network and starts at   *)
(* dummy0, and works on no link yet.                                       *)
(***************************************************************************)
LEMMA BeginCreateInv ==
  ASSUME IInv, NEW h \in Handlers, NEW n \in Nets, BeginCreate(h, n)
  PROVE  IInv'
<1> USE DaemonAssumption DEF BeginCreate, kernel, history
<1>0. h \in Tasks /\ 0 \in 0 .. MaxDummy
  BY DaemonAssumption DEF Tasks
<1>1. TypeOK'
  <2>1. pc' \in [Tasks -> {"idle", "delLock", "sweepLock", "sweep", "done"}
                        \cup CreateSteps \cup RemoveSteps]
    BY <1>0 DEF IInv, TypeOK, CreateSteps, RemoveSteps
  <2>2. want' \in [Tasks -> Keys \cup {NoNet}]
    BY <1>0 DEF IInv, TypeOK, Keys
  <2>3. dev' \in [Tasks -> 0 .. MaxDummy \cup {CidrText, NoIface}]
    BY <1>0 DEF IInv, TypeOK
  <2> QED
    BY <1>0, <2>1, <2>2, <2>3 DEF IInv, TypeOK
<1>2. StepTypes'
  BY DEF IInv, TypeOK, StepTypes, CreateSteps, RemoveSteps, Owns, Tasks, Ifaces,
       Dummies, LockDiscipline
<1>3. LockDiscipline'
  BY DEF IInv, TypeOK, StepTypes, CreateSteps, RemoveSteps, Owns, Tasks,
       LockDiscipline
<1>4. ASSUME Sound' PROVE StoreBacked'
  BY <1>4 DEF IInv, TypeOK, StepTypes, CreateSteps, RemoveSteps, Owns, Tasks,
       Dummies, LockDiscipline, Swept, Sound, Pending, StoreBacked, EntryBacked,
       CreatorOwnsLink, CreatorLink
<1>5. ASSUME Sound' PROVE OneCreatorPerInterface'
  BY <1>5 DEF IInv, TypeOK, StepTypes, CreateSteps, RemoveSteps, Owns, Tasks,
       Dummies, LockDiscipline, Swept, Sound, OneCreatorPerInterface, CreatorOwnsLink,
       CreatorLink
<1>6. ASSUME Sound' PROVE CreatorOwnsLink'
  BY <1>6 DEF IInv, TypeOK, StepTypes, CreateSteps, RemoveSteps, Owns, Tasks,
       Dummies, LockDiscipline, Swept, Sound, Pending, StoreBacked, EntryBacked,
       OneCreatorPerInterface, CreatorOwnsLink, CreatorLink, RemoverOwnsLink,
       RemoverLink
<1>7. ASSUME Sound' PROVE RemoverOwnsLink'
  BY <1>7 DEF IInv, TypeOK, StepTypes, CreateSteps, RemoveSteps, Owns, Tasks,
       Dummies, LockDiscipline, Swept, Sound, Pending, StoreBacked, EntryBacked,
       CreatorOwnsLink, CreatorLink, RemoverOwnsLink, RemoverLink
<1> QED
  BY <1>1, <1>2, <1>3, <1>4, <1>5, <1>6, <1>7 DEF IInv

(***************************************************************************)
(* The search for a free name only moves the handler's own counter, which  *)
(* stays below MaxDummy where a link is added.                             *)
(***************************************************************************)
LEMMA ProbeInv ==
  ASSUME IInv, NEW h \in Handlers, Probe(h)
  PROVE  IInv'
<1> USE DaemonAssumption DEF Probe, Goto, Answer, kernel, history
<1>0. h \in Tasks /\ (dev[h] < MaxDummy => dev[h] + 1 \in 0 .. MaxDummy)
  BY DEF Tasks, IInv, StepTypes
<1>1. TypeOK'
  <2>1. pc' \in [Tasks -> {"idle", "delLock", "sweepLock", "sweep", "done"}
                        \cup CreateSteps \cup RemoveSteps]
    BY <1>0 DEF IInv, TypeOK, CreateSteps, RemoveSteps
  <2>2. want' \in [Tasks -> Keys \cup {NoNet}]
    BY <1>0 DEF IInv, TypeOK, Keys
  <2>3. dev' \in [Tasks -> 0 .. MaxDummy \cup {CidrText, NoIface}]
    BY <1>0 DEF IInv, TypeOK
  <2> QED
    BY <1>0, <2>1, <2>2, <2>3 DEF IInv, TypeOK
<1>2. StepTypes'
  <2>1. CASE Answer(h)
    BY <2>1 DEF IInv, TypeOK, StepTypes, CreateSteps, RemoveSteps, Owns, Tasks
  <2>2. CASE dev[h] < MaxDummy /\ dev' = [dev EXCEPT ![h] = @ + 1] /\ UNCHANGED <<pc, want>>
    BY <2>2 DEF IInv, TypeOK, StepTypes, CreateSteps, RemoveSteps, Owns, Tasks
  <2>3. CASE dev[h] < MaxDummy /\ Goto(h, "linkAdd")
    BY <2>3 DEF IInv, TypeOK, StepTypes, CreateSteps, RemoveSteps, Owns, Tasks,
         Dummies
  <2> QED
    BY <2>1, <2>2, <2>3
<1>3. LockDiscipline'
  BY DEF IInv, TypeOK, StepTypes, CreateSteps, RemoveSteps, Owns, Tasks,
       LockDiscipline
<1>4. ASSUME Sound' PROVE StoreBacked'
  BY <1>4 DEF IInv, TypeOK, StepTypes, CreateSteps, RemoveSteps, Owns, Tasks,
       Dummies, LockDiscipline, Swept, Sound, Pending, StoreBacked, EntryBacked,
       CreatorOwnsLink, CreatorLink
<1>5. ASSUME Sound' PROVE OneCreatorPerInterface'
  BY <1>5 DEF IInv, TypeOK, StepTypes, CreateSteps, RemoveSteps, Owns, Tasks,
       Dummies, LockDiscipline, Swept, Sound, OneCreatorPerInterface, CreatorOwnsLink,
       CreatorLink
<1>6. ASSUME Sound' PROVE CreatorOwnsLink'
  BY <1>6 DEF IInv, TypeOK, StepTypes, CreateSteps, RemoveSteps, Owns, Tasks,
       Dummies, LockDiscipline, Swept, Sound, Pending, StoreBacked, EntryBacked,
       OneCreatorPerInterface, CreatorOwnsLink, CreatorLink, RemoverOwnsLink,
       RemoverLink
<1>7. ASSUME Sound' PROVE RemoverOwnsLink'
  BY <1>7 DEF IInv, TypeOK, StepTypes, CreateSteps, RemoveSteps, Owns, Tasks,
       Dummies, LockDiscipline, Swept, Sound, Pending, StoreBacked, EntryBacked,
       CreatorOwnsLink, CreatorLink, RemoverOwnsLink, RemoverLink
<1> QED
  BY <1>1, <1>2, <1>3, <1>4, <1>5, <1>6, <1>7 DEF IInv

(***************************************************************************)
(* `ip link add`: the new link was in nobody's hands, because everything   *)
(* that a task or a pending entry names exists.                            *)
(***************************************************************************)
LEMMA LinkAddInv ==
  ASSUME IInv, NEW h \in Handlers, LinkAdd(h)
  PROVE  IInv'
<1> USE DaemonAssumption DEF LinkAdd, Goto, Answer, history
<1>0. h \in Tasks /\ dev[h] \in Dummies
  BY DEF IInv, StepTypes, Tasks
<1>1. TypeOK'
  <2>1. pc' \in [Tasks -> {"idle", "delLock", "sweepLock", "sweep", "done"}
                        \cup CreateSteps \cup RemoveSteps]
    BY <1>0 DEF IInv, TypeOK, CreateSteps, RemoveSteps
  <2>2. want' \in [Tasks -> Keys \cup {NoNet}]
    BY <1>0 DEF IInv, TypeOK, Keys
  <2>3. dev' \in [Tasks -> 0 .. MaxDummy \cup {CidrText, NoIface}]
    BY <1>0 DEF IInv, TypeOK
  <2> QED
    BY <1>0, <2>1, <2>2, <2>3 DEF IInv, TypeOK
<1>2. StepTypes'
  BY DEF IInv, TypeOK, StepTypes, CreateSteps, RemoveSteps, Owns, Tasks, Ifaces,
       Dummies, LockDiscipline
<1>3. LockDiscipline'
  BY DEF IInv, TypeOK, StepTypes, CreateSteps, RemoveSteps, Owns, Tasks,
       LockDiscipline
<1>4. ASSUME Sound' PROVE StoreBacked'
  BY <1>4 DEF IInv, TypeOK, StepTypes, CreateSteps, RemoveSteps, Owns, Tasks,
       Dummies, LockDiscipline, Swept, Sound, Pending, StoreBacked, EntryBacked,
       CreatorOwnsLink, CreatorLink
<1>5. ASSUME Sound' PROVE OneCreatorPerInterface'
  BY <1>5 DEF IInv, TypeOK, StepTypes, CreateSteps, RemoveSteps, Owns, Tasks,
       Dummies, LockDiscipline, Swept, Sound, OneCreatorPerInterface, CreatorOwnsLink,
       CreatorLink
<1>6. ASSUME Sound' PROVE CreatorOwnsLink'
  BY <1>6 DEF IInv, TypeOK, StepTypes, CreateSteps, RemoveSteps, Owns, Tasks,
       Dummies, LockDiscipline, Swept, Sound, Pending, StoreBacked, EntryBacked,
       OneCreatorPerInterface, CreatorOwnsLink, CreatorLink, RemoverOwnsLink,
       RemoverLink
<1>7. ASSUME Sound' PROVE RemoverOwnsLink'
  BY <1>7 DEF IInv, TypeOK, StepTypes, CreateSteps, RemoveSteps, Owns, Tasks,
       Dummies, LockDiscipline, Swept, Sound, Pending, StoreBacked, EntryBacked,
       CreatorOwnsLink, CreatorLink, RemoverOwnsLink, RemoverLink
<1> QED
  BY <1>1, <1>2, <1>3, <1>4, <1>5, <1>6, <1>7 DEF IInv

(***************************************************************************)
(* `ip addr add` changes the network of the handler's own link, which no   *)
(* pending entry and no removal names.                                     *)
(***************************************************************************)
LEMMA AddrAddInv ==
  ASSUME IInv, NEW h \in Handlers, AddrAdd(h)
  PROVE  IInv'
<1> USE DaemonAssumption DEF AddrAdd, Goto, Answer, history
<1>0. /\ h \in Tasks /\ h # Shutdown /\ dev[h] \in Dummies /\ want[h] \in Nets
      /\ pc'[h] \in {"linkUp", "idle"} /\ (Owns(h)' => dev'[h] = dev[h])
      /\ \A t \in Tasks \ {h} :
           pc'[t] = pc[t] /\ want'[t] = want[t] /\ dev'[t] = dev[t]
  BY DEF IInv, TypeOK, StepTypes, CreateSteps, RemoveSteps, Owns, Tasks
<1>1. TypeOK'
  <2>1. pc' \in [Tasks -> {"idle", "delLock", "sweepLock", "sweep", "done"}
                        \cup CreateSteps \cup RemoveSteps]
    BY <1>0 DEF IInv, TypeOK, CreateSteps, RemoveSteps
  <2>2. want' \in [Tasks -> Keys \cup {NoNet}]
    BY <1>0 DEF IInv, TypeOK, Keys
  <2>3. dev' \in [Tasks -> 0 .. MaxDummy \cup {CidrText, NoIface}]
    BY <1>0 DEF IInv, TypeOK
  <2>4. net' \in [Dummies -> Nets \cup {NoNet}] /\ \A d \in Dummies \ links : net'[d] = NoNet
    BY <1>0 DEF IInv, TypeOK
  <2> QED
    BY <2>1, <2>2, <2>3, <2>4 DEF IInv, TypeOK
<1>2. StepTypes'
  BY DEF IInv, TypeOK, StepTypes, CreateSteps, RemoveSteps, Owns, Tasks, Ifaces,
       Dummies, LockDiscipline
<1>3. LockDiscipline'
  BY DEF IInv, TypeOK, StepTypes, CreateSteps, RemoveSteps, Owns, Tasks,
       LockDiscipline
<1>4. ASSUME Sound' PROVE StoreBacked'
  <2> SUFFICES ASSUME NEW k \in Keys, Pending(k)'
               PROVE  EntryBacked(k)'
    BY DEF StoreBacked
  <2>1. Sound /\ Pending(k)
    BY <1>4, <1>0 DEF Swept, Sound, Pending, Tasks
  <2>2. EntryBacked(k) /\ store[k] # dev[h]
    BY <2>1 DEF IInv, StoreBacked, Sound, CreatorOwnsLink, CreatorLink, Owns
  <2>3. net'[store[k]] = net[store[k]]
    BY <2>2, <1>0 DEF IInv, TypeOK, EntryBacked
  <2> QED
    BY <2>2, <2>3 DEF EntryBacked
<1>5. ASSUME Sound' PROVE OneCreatorPerInterface'
  BY <1>5 DEF IInv, TypeOK, StepTypes, CreateSteps, RemoveSteps, Owns, Tasks,
       Dummies, LockDiscipline, Swept, Sound, OneCreatorPerInterface, CreatorOwnsLink,
       CreatorLink
<1>6. ASSUME Sound' PROVE CreatorOwnsLink'
  BY <1>6 DEF IInv, TypeOK, StepTypes, CreateSteps, RemoveSteps, Owns, Tasks,
       Dummies, LockDiscipline, Swept, Sound, Pending, StoreBacked, EntryBacked,
       OneCreatorPerInterface, CreatorOwnsLink, CreatorLink, RemoverOwnsLink,
       RemoverLink
<1>7. ASSUME Sound' PROVE RemoverOwnsLink'
  <2> SUFFICES ASSUME NEW t \in Tasks,
                      (pc'[t] = "addrDel" /\ want'[t] \notin misread') \/ pc'[t] = "linkDel"
               PROVE  RemoverLink(t)'
    BY DEF RemoverOwnsLink
  <2>1. Sound /\ t # h
    BY <1>7, <1>0 DEF Swept, Sound, Tasks
  <2>2. RemoverLink(t) /\ dev[t] # dev[h]
    BY <2>1, <1>0 DEF IInv, RemoverOwnsLink, RemoverLink, Owns
  <2>3. net'[dev[t]] = net[dev[t]]
    BY <2>2, <1>0 DEF IInv, TypeOK, RemoverLink
  <2>4. pc[t] = "addrDel" => (Pending(want[t])' <=> Pending(want[t]))
    BY <1>0 DEF Pending, Tasks
  <2>5. \A g \in Handlers : Owns(g)' => Owns(g) /\ dev'[g] = dev[g]
    BY <1>0 DEF Owns, Tasks
  <2> QED
    BY <2>1, <2>2, <2>3, <2>4, <2>5, <1>0 DEF RemoverLink, Pending
<1> QED
  BY <1>1, <1>2, <1>3, <1>4, <1>5, <1>6, <1>7 DEF IInv

(***************************************************************************)
(* `ip link set up`, by which no link, address or entry changes.           *)
(***************************************************************************)
LEMMA LinkUpInv ==
  ASSUME IInv, NEW h \in Handlers, LinkUp(h)
  PROVE  IInv'
<1> USE DaemonAssumption DEF LinkUp, Goto, Answer, history
<1>0. /\ h \in Tasks /\ h # Shutdown
      /\ pc'[h] \in {"insert", "idle"} /\ (Owns(h)' => dev'[h] = dev[h])
      /\ \A t \in Tasks \ {h} :
           pc'[t] = pc[t] /\ want'[t] = want[t] /\ dev'[t] = dev[t]
  BY DEF IInv, TypeOK, StepTypes, CreateSteps, RemoveSteps, Owns, Tasks
<1>1. TypeOK'
  <2>1. pc' \in [Tasks -> {"idle", "delLock", "sweepLock", "sweep", "done"}
                        \cup CreateSteps \cup RemoveSteps]
    BY <1>0 DEF IInv, TypeOK, CreateSteps, RemoveSteps
  <2>2. want' \in [Tasks -> Keys \cup {NoNet}]
    BY <1>0 DEF IInv, TypeOK, Keys
  <2>3. dev' \in [Tasks -> 0 .. MaxDummy \cup {CidrText, NoIface}]
    BY <1>0 DEF IInv, TypeOK
  <2> QED
    BY <1>0, <2>1, <2>2, <2>3 DEF IInv, TypeOK
<1>2. StepTypes'
  BY DEF IInv, TypeOK, StepTypes, CreateSteps, RemoveSteps, Owns, Tasks, Ifaces,
       Dummies, LockDiscipline
<1>3. LockDiscipline'
  BY DEF IInv, TypeOK, StepTypes, CreateSteps, RemoveSteps, Owns, Tasks,
       LockDiscipline
<1>4. ASSUME Sound' PROVE StoreBacked'
  BY <1>4 DEF IInv, TypeOK, StepTypes, CreateSteps, RemoveSteps, Owns, Tasks,
       Dummies, LockDiscipline, Swept, Sound, Pending, StoreBacked, EntryBacked,
       CreatorOwnsLink, CreatorLink
<1>5. ASSUME Sound' PROVE OneCreatorPerInterface'
  BY <1>5 DEF IInv, TypeOK, StepTypes, CreateSteps, RemoveSteps, Owns, Tasks,
       Dummies, LockDiscipline, Swept, Sound, OneCreatorPerInterface, CreatorOwnsLink,
       CreatorLink
<1>6. ASSUME Sound' PROVE CreatorOwnsLink'
  BY <1>6 DEF IInv, TypeOK, StepTypes, CreateSteps, RemoveSteps, Owns, Tasks,
       Dummies, LockDiscipline, Swept, Sound, Pending, StoreBacked, EntryBacked,
       OneCreatorPerInterface, CreatorOwnsLink, CreatorLink, RemoverOwnsLink,
       RemoverLink
<1>7. ASSUME Sound' PROVE RemoverOwnsLink'
  <2> SUFFICES ASSUME NEW t \in Tasks,
                      (pc'[t] = "addrDel" /\ want'[t] \notin misread') \/ pc'[t] = "linkDel"
               PROVE  RemoverLink(t)'
    BY DEF RemoverOwnsLink
  <2>1. Sound /\ t # h
    BY <1>7, <1>0 DEF Swept, Sound, Tasks
  <2>2. RemoverLink(t)
    BY <2>1, <1>0 DEF IInv, RemoverOwnsLink
  <2>3. pc[t] = "addrDel" => (Pending(want[t])' <=> Pending(want[t]))
    BY <1>0 DEF Pending, Tasks
  <2>4. \A g \in Handlers : Owns(g)' => Owns(g) /\ dev'[g] = dev[g]
    BY <1>0 DEF Owns, Tasks
  <2> QED
    BY <2>1, <2>2, <2>3, <2>4, <1>0 DEF RemoverLink
<1> QED
  BY <1>1, <1>2, <1>3, <1>4, <1>5, <1>6, <1>7 DEF IInv

(***************************************************************************)
(* The entry becomes pending: its link is the one the handler stops to     *)
(* work on, and no other handler works on it.                              *)
(***************************************************************************)
LEMMA InsertInv ==
  ASSUME IInv, NEW h \in Handlers, Insert(h)
  PROVE  IInv'
<1> USE DaemonAssumption DEF Insert, Answer, kernel, history
<1>1. TypeOK'
  BY DEF IInv, TypeOK, StepTypes, CreateSteps, RemoveSteps, Owns, Tasks, Ifaces,
       Dummies
<1>2. StepTypes'
  BY DEF IInv, TypeOK, StepTypes, CreateSteps, RemoveSteps, Owns, Tasks, Ifaces,
       Dummies, LockDiscipline
<1>3. LockDiscipline'
  BY DEF IInv, TypeOK, StepTypes, CreateSteps, RemoveSteps, Owns, Tasks,
       LockDiscipline
<1>4. ASSUME Sound' PROVE StoreBacked'
  BY <1>4 DEF IInv, TypeOK, StepTypes, CreateSteps, RemoveSteps, Owns, Tasks,
       Dummies, LockDiscipline, Swept, Sound, Pending, StoreBacked, EntryBacked,
       CreatorOwnsLink, CreatorLink
<1>5. ASSUME Sound' PROVE OneCreatorPerInterface'
  BY <1>5 DEF IInv, TypeOK, StepTypes, CreateSteps, RemoveSteps, Owns, Tasks,
       Dummies, LockDiscipline, Swept, Sound, OneCreatorPerInterface, CreatorOwnsLink,
       CreatorLink
<1>6. ASSUME Sound' PROVE CreatorOwnsLink'
  BY <1>6 DEF IInv, TypeOK, StepTypes, CreateSteps, RemoveSteps, Owns, Tasks,
       Dummies, LockDiscipline, Swept, Sound, Pending, StoreBacked, EntryBacked,
       OneCreatorPerInterface, CreatorOwnsLink, CreatorLink, RemoverOwnsLink,
       RemoverLink
<1>7. ASSUME Sound' PROVE RemoverOwnsLink'
  BY <1>7 DEF IInv, TypeOK, StepTypes, CreateSteps, RemoveSteps, Owns, Tasks,
       Dummies, LockDiscipline, Swept, Sound, Pending, StoreBacked, EntryBacked,
       CreatorOwnsLink, CreatorLink, RemoverOwnsLink, RemoverLink
<1> QED
  BY <1>1, <1>2, <1>3, <1>4, <1>5, <1>6, <1>7 DEF IInv

(***************************************************************************)
(* A dropped handler leaves its link without an owner.                     *)
(***************************************************************************)
LEMMA DisconnectInv ==
  ASSUME IInv, NEW h \in Handlers, Disconnect(h)
  PROVE  IInv'
<1> USE DaemonAssumption DEF Disconnect, Answer, kernel, history
<1>1. TypeOK'
  BY DEF IInv, TypeOK, StepTypes, CreateSteps, RemoveSteps, Owns, Tasks, Ifaces,
       Dummies
<1>2. StepTypes'
  BY DEF IInv, TypeOK, StepTypes, CreateSteps, RemoveSteps, Owns, Tasks, Ifaces,
       Dummies, LockDiscipline
<1>3. LockDiscipline'
  BY DEF IInv, TypeOK, StepTypes, CreateSteps, RemoveSteps, Owns, Tasks,
       LockDiscipline
<1>4. ASSUME Sound' PROVE StoreBacked'
  BY <1>4 DEF IInv, TypeOK, StepTypes, CreateSteps, RemoveSteps, Owns, Tasks,
       Dummies, LockDiscipline, Swept, Sound, Pending, StoreBacked, EntryBacked,
       CreatorOwnsLink, CreatorLink
<1>5. ASSUME Sound' PROVE OneCreatorPerInterface'
  BY <1>5 DEF IInv, TypeOK, StepTypes, CreateSteps, RemoveSteps, Owns, Tasks,
       Dummies, LockDiscipline, Swept, Sound, OneCreatorPerInterface, CreatorOwnsLink,
       CreatorLink
<1>6. ASSUME Sound' PROVE CreatorOwnsLink'
  BY <1>6 DEF IInv, TypeOK, StepTypes, CreateSteps, RemoveSteps, Owns, Tasks,
       Dummies, LockDiscipline, Swept, Sound, Pending, StoreBacked, EntryBacked,
       OneCreatorPerInterface, CreatorOwnsLink, CreatorLink, RemoverOwnsLink,
       RemoverLink
<1>7. ASSUME Sound' PROVE RemoverOwnsLink'
  BY <1>7 DEF IInv, TypeOK, StepTypes, CreateSteps, RemoveSteps, Owns, Tasks,
       Dummies, LockDiscipline, Swept, Sound, Pending, StoreBacked, EntryBacked,
       CreatorOwnsLink, CreatorLink, RemoverOwnsLink, RemoverLink
<1> QED
  BY <1>1, <1>2, <1>3, <1>4, <1>5, <1>6, <1>7 DEF IInv

(***************************************************************************)
(* A delete request waits for the mutex with a key of the store.           *)
(***************************************************************************)
LEMMA BeginDeleteInv ==
  ASSUME IInv, NEW h \in Handlers, NEW k \in Keys, BeginDelete(h, k)
  PROVE  IInv'
<1> USE DaemonAssumption DEF BeginDelete, kernel, history
<1>1. TypeOK'
  BY DEF IInv, TypeOK, StepTypes, CreateSteps, RemoveSteps, Owns, Tasks, Ifaces,
       Dummies
<1>2. StepTypes'
  BY DEF IInv, TypeOK, StepTypes, CreateSteps, RemoveSteps, Owns, Tasks, Ifaces,
       Dummies, LockDiscipline
<1>3. LockDiscipline'
  BY DEF IInv, TypeOK, StepTypes, CreateSteps, RemoveSteps, Owns, Tasks,
       LockDiscipline
<1>4. ASSUME Sound' PROVE StoreBacked'
  BY <1>4 DEF IInv, TypeOK, StepTypes, CreateSteps, RemoveSteps, Owns, Tasks,
       Dummies, LockDiscipline, Swept, Sound, Pending, StoreBacked, EntryBacked,
       CreatorOwnsLink, CreatorLink
<1>5. ASSUME Sound' PROVE OneCreatorPerInterface'
  BY <1>5 DEF IInv, TypeOK, StepTypes, CreateSteps, RemoveSteps, Owns, Tasks,
       Dummies, LockDiscipline, Swept, Sound, OneCreatorPerInterface, CreatorOwnsLink,
       CreatorLink
<1>6. ASSUME Sound' PROVE CreatorOwnsLink'
  BY <1>6 DEF IInv, TypeOK, StepTypes, CreateSteps, RemoveSteps, Owns, Tasks,
       Dummies, LockDiscipline, Swept, Sound, Pending, StoreBacked, EntryBacked,
       OneCreatorPerInterface, CreatorOwnsLink, CreatorLink, RemoverOwnsLink,
       RemoverLink
<1>7. ASSUME Sound' PROVE RemoverOwnsLink'
  BY <1>7 DEF IInv, TypeOK, StepTypes, CreateSteps, RemoveSteps, Owns, Tasks,
       Dummies, LockDiscipline, Swept, Sound, Pending, StoreBacked, EntryBacked,
       CreatorOwnsLink, CreatorLink, RemoverOwnsLink, RemoverLink
<1> QED
  BY <1>1, <1>2, <1>3, <1>4, <1>5, <1>6, <1>7 DEF IInv

(***************************************************************************)
(* With the mutex free every entry is pending: the removal takes over the  *)
(* link that the entry backed.                                             *)
(***************************************************************************)
LEMMA TakeEntryInv ==
  ASSUME IInv, NEW h \in Handlers, TakeEntry(h)
  PROVE  IInv'
<1> USE DaemonAssumption DEF TakeEntry, Answer, kernel, history
<1>0. /\ h \in Tasks /\ h # Shutdown /\ want[h] \in Keys
      /\ pc[Shutdown] \notin RemoveSteps \cup {"sweep"} /\ todo = {}
      /\ pc'[h] \in {"addrDel", "idle"}
      /\ \A t \in Tasks \ {h} :
           pc'[t] = pc[t] /\ want'[t] = want[t] /\ dev'[t] = dev[t]
  BY DEF IInv, LockDiscipline, TypeOK, StepTypes, CreateSteps, RemoveSteps,
       Owns, Tasks
<1>1. TypeOK'
  <2>1. CASE store[want[h]] # NoIface
    <3>1. "addrDel" \in RemoveSteps /\ h \in Tasks \cup {NoTask}
      BY <1>0 DEF RemoveSteps
    <3>2. store[want[h]] \in 0 .. MaxDummy \cup {CidrText, NoIface}
      BY <1>0 DEF IInv, TypeOK, Ifaces, Dummies
    <3> QED
      BY <1>0, <2>1, <3>1, <3>2 DEF IInv, TypeOK
  <2>2. CASE store[want[h]] = NoIface
    BY <1>0, <2>2 DEF IInv, TypeOK
  <2> QED
    BY <2>1, <2>2
<1>2. StepTypes'
  <2>1. pc'[h] = "addrDel" => want'[h] = want[h] /\ dev'[h] \in Ifaces
    BY <1>0 DEF IInv, TypeOK
  <2>2. pc'[h] \notin CreateSteps /\ ~ Owns(h)'
    BY <1>0 DEF CreateSteps, Owns
  <2>3. \A g \in Handlers \ {h} : Owns(g)' <=> Owns(g)
    BY <1>0 DEF Owns, Tasks
  <2> QED
    BY <1>0, <2>1, <2>2, <2>3 DEF IInv, StepTypes, CreateSteps, RemoveSteps, Tasks
<1>3. LockDiscipline'
  BY DEF IInv, TypeOK, StepTypes, CreateSteps, RemoveSteps, Owns, Tasks,
       LockDiscipline
<1>4. ASSUME Sound' PROVE StoreBacked'
  <2> SUFFICES ASSUME NEW k \in Keys, Pending(k)'
               PROVE  EntryBacked(k)'
    BY DEF StoreBacked
  <2>1. Sound /\ Pending(k)
    BY <1>4, <1>0 DEF IInv, TypeOK, Swept, Sound, Pending, Tasks, Keys
  <2>2. EntryBacked(k) /\ store'[k] = store[k]
    BY <2>1, <1>0 DEF IInv, TypeOK, StoreBacked, Sound, Pending, Keys
  <2> QED
    BY <2>2 DEF EntryBacked
<1>5. ASSUME Sound' PROVE OneCreatorPerInterface'
  <2>1. Sound
    BY <1>5, <1>0 DEF Swept, Sound, Tasks
  <2>2. \A g \in Handlers : Owns(g)' => Owns(g) /\ dev'[g] = dev[g]
    BY <1>0 DEF Owns, Tasks
  <2> QED
    BY <2>1, <2>2 DEF IInv, OneCreatorPerInterface
<1>6. ASSUME Sound' PROVE CreatorOwnsLink'
  <2> SUFFICES ASSUME NEW g \in Handlers, Owns(g)'
               PROVE  CreatorLink(g)'
    BY DEF CreatorOwnsLink
  <2>1. Sound /\ Owns(g) /\ g # h
    BY <1>6, <1>0 DEF Swept, Sound, Owns, Tasks
  <2>2. CreatorLink(g)
    BY <2>1 DEF IInv, CreatorOwnsLink
  <2>3. \A k \in Keys : Pending(k)' => Pending(k) /\ store'[k] = store[k]
    BY <1>0 DEF IInv, TypeOK, Pending, Tasks, Keys
  <2> QED
    BY <2>1, <2>2, <2>3, <1>0 DEF CreatorLink, Tasks
<1>7. ASSUME Sound' PROVE RemoverOwnsLink'
  BY <1>7 DEF IInv, TypeOK, StepTypes, CreateSteps, RemoveSteps, Owns, Tasks,
       Dummies, LockDiscipline, Swept, Sound, Pending, StoreBacked, EntryBacked,
       CreatorOwnsLink, CreatorLink, RemoverOwnsLink, RemoverLink
<1> QED
  BY <1>1, <1>2, <1>3, <1>4, <1>5, <1>6, <1>7 DEF IInv

(***************************************************************************)
(* `ip addr del`: if it succeeds the link has the removal's network, so    *)
(* that it is the link that the removal took over.                         *)
(***************************************************************************)
LEMMA AddrDelInv ==
  ASSUME IInv, NEW t \in Tasks, AddrDel(t)
  PROVE  IInv'
<1> USE DaemonAssumption DEF AddrDel, Goto, EndRemove, HasAddress, history
<1>0. /\ t \in Tasks /\ Shutdown \in Tasks /\ dev[t] \in Ifaces /\ want[t] \in Keys
      /\ pc'[t] \notin {"addrDel", "done"}
      /\ pc'[Shutdown] = pc[Shutdown] \/ pc'[Shutdown] \in {"linkDel", "sweep"}
      /\ \A u \in Tasks \ {t} : pc'[u] = pc[u] /\ pc'[u] \notin RemoveSteps
                                /\ want'[u] = want[u] /\ dev'[u] = dev[u]
  BY DEF IInv, LockDiscipline, TypeOK, StepTypes, CreateSteps, RemoveSteps,
       Owns, Tasks
<1>s. ASSUME Sound'
      PROVE  Sound /\ (pc'[t] = "linkDel" \/ net' # net => want[t] \notin misread)
  <2>1. ~ Swept
    BY <1>0, <1>s DEF Swept, Sound
  <2>2. ~ astray'
    BY <1>s DEF Sound
  <2>3. CASE astray' = (astray \/ want[t] \in misread)
    <3>1. ~ astray /\ want[t] \notin misread
      BY <2>2, <2>3
    <3> QED
      BY <2>1, <3>1 DEF Sound
  <2>4. CASE EndRemove(t) /\ UNCHANGED <<net, astray>>
    <3>1. pc'[t] # "linkDel"
      BY <1>0, <2>4 DEF IInv, TypeOK
    <3> QED
      BY <2>1, <2>2, <2>4, <3>1 DEF Sound
  <2> QED
    BY <2>3, <2>4
<1>1. TypeOK'
  <2>1. pc' \in [Tasks -> {"idle", "delLock", "sweepLock", "sweep", "done"}
                        \cup CreateSteps \cup RemoveSteps]
    BY <1>0 DEF IInv, TypeOK, CreateSteps, RemoveSteps, Ifaces
  <2>2. want' \in [Tasks -> Keys \cup {NoNet}]
    BY <1>0 DEF IInv, TypeOK, Keys, Ifaces
  <2>3. dev' \in [Tasks -> 0 .. MaxDummy \cup {CidrText, NoIface}]
    BY <1>0 DEF IInv, TypeOK, Ifaces
  <2> QED
    <3>1. net' \in [Dummies -> Nets \cup {NoNet}] /\ \A d \in Dummies \ links : net'[d] = NoNet
      BY <1>0 DEF IInv, TypeOK
    <3>2. lock' \in Tasks \cup {NoTask} /\ astray' \in BOOLEAN
      BY <1>0 DEF IInv, TypeOK
    <3>3. UNCHANGED <<links, up, foreign, mode, store, todo, misread>>
      OBVIOUS
    <3> QED
      BY <2>1, <2>2, <2>3, <3>1, <3>2, <3>3 DEF IInv, TypeOK
<1>2. StepTypes'
  BY DEF IInv, TypeOK, StepTypes, CreateSteps, RemoveSteps, Owns, Tasks, Ifaces,
       Dummies, LockDiscipline
<1>3. LockDiscipline'
  BY DEF IInv, TypeOK, StepTypes, CreateSteps, RemoveSteps, Owns, Tasks,
       LockDiscipline
<1>4. ASSUME Sound' PROVE StoreBacked'
  <2> SUFFICES ASSUME NEW k \in Keys, Pending(k)'
               PROVE  EntryBacked(k)'
    BY DEF StoreBacked
  <2>1. Sound /\ Pending(k)
    BY <1>4, <1>s, <1>0, PendingBefore
  <2>2. EntryBacked(k)
    BY <2>1 DEF IInv, StoreBacked, Sound
  <2>3. net' # net => store[k] # dev[t]
    <3> SUFFICES ASSUME HasAddress(t), store[k] = dev[t]
                 PROVE  FALSE
      BY DEF HasAddress
    <3>1. want[t] = k
      BY <2>2 DEF HasAddress, EntryBacked
    <3>2. ~ Pending(k)
      <4>1. k \notin misread
        BY <2>1 DEF Pending
      <4> QED
        BY <2>1, <3>1, <4>1 DEF IInv, RemoverOwnsLink, RemoverLink
    <3> QED
      BY <2>1, <3>2
  <2> QED
    BY <2>2, <2>3 DEF IInv, TypeOK, EntryBacked
<1>5. ASSUME Sound' PROVE OneCreatorPerInterface'
  BY <1>5 DEF IInv, TypeOK, StepTypes, CreateSteps, RemoveSteps, Owns, Tasks,
       Dummies, LockDiscipline, Swept, Sound, OneCreatorPerInterface, CreatorOwnsLink,
       CreatorLink
<1>6. ASSUME Sound' PROVE CreatorOwnsLink'
  <2> SUFFICES ASSUME NEW g \in Handlers, Owns(g)'
               PROVE  CreatorLink(g)'
    BY DEF CreatorOwnsLink
  <2>1. /\ Sound /\ Owns(g)
        /\ pc'[g] = pc[g] /\ want'[g] = want[g] /\ dev'[g] = dev[g]
    <3>1. g \in Tasks /\ g # t
      BY <1>0 DEF IInv, TypeOK, Owns, Tasks
    <3> QED
      BY <1>6, <1>s, <1>0, <3>1 DEF Owns
  <2>2. CreatorLink(g)
    BY <2>1 DEF IInv, CreatorOwnsLink
  <2>3. net'[dev[g]] = net[dev[g]]
    <3>1. net' # net => RemoverLink(t)
      BY <1>6, <1>s, <2>1 DEF IInv, RemoverOwnsLink
    <3> QED
      BY <2>1, <2>2, <3>1 DEF IInv, TypeOK, RemoverLink, CreatorLink
  <2>4. \A k \in Keys : Pending(k)' => Pending(k)
    BY <1>0, PendingBefore
  <2> QED
    BY <2>1, <2>2, <2>3, <2>4 DEF CreatorLink
<1>7. ASSUME Sound' PROVE RemoverOwnsLink'
  <2> SUFFICES ASSUME NEW u \in Tasks,
                      (pc'[u] = "addrDel" /\ want'[u] \notin misread') \/ pc'[u] = "linkDel"
               PROVE  RemoverLink(u)'
    BY DEF RemoverOwnsLink
  <2>1. u = t /\ pc'[t] = "linkDel"
    BY <1>0 DEF RemoveSteps
  <2>2. HasAddress(t) /\ net' = [net EXCEPT ![dev[t]] = NoNet] /\ dev' = dev
    BY <2>1, <1>0 DEF IInv, TypeOK
  <2>3. Sound /\ want[t] \notin misread
    BY <1>7, <1>s, <2>1
  <2>5. \A h \in Handlers : Owns(h) => dev[h] # dev[t]
    BY <2>3 DEF IInv, RemoverOwnsLink, RemoverLink
  <2>4. \A h \in Handlers : Owns(h)' => Owns(h)
    BY <1>0, <2>1 DEF Owns, Tasks
  <2> QED
    BY <2>1, <2>2, <2>5, <2>4 DEF IInv, TypeOK, HasAddress, RemoverLink
<1> QED
  BY <1>1, <1>2, <1>3, <1>4, <1>5, <1>6, <1>7 DEF IInv

(***************************************************************************)
(* `ip link del`: the link has no address, so no pending entry names it,   *)
(* and no create request works on it.                                      *)
(***************************************************************************)
LEMMA LinkDelInv ==
  ASSUME IInv, NEW t \in Tasks, LinkDel(t)
  PROVE  IInv'
<1> USE DaemonAssumption DEF LinkDel, EndRemove, history
<1>0. /\ t \in Tasks /\ pc'[t] \notin RemoveSteps \cup {"done"}
      /\ \A u \in Tasks \ {t} : pc'[u] = pc[u] /\ pc'[u] \notin RemoveSteps
                                /\ want'[u] = want[u] /\ dev'[u] = dev[u]
  BY DEF IInv, LockDiscipline, TypeOK, StepTypes, CreateSteps, RemoveSteps,
       Owns, Tasks
<1>1. TypeOK'
  BY DEF IInv, TypeOK, StepTypes, CreateSteps, RemoveSteps, Owns, Tasks, Ifaces,
       Dummies
<1>2. StepTypes'
  BY DEF IInv, TypeOK, StepTypes, CreateSteps, RemoveSteps, Owns, Tasks, Ifaces,
       Dummies, LockDiscipline
<1>3. LockDiscipline'
  BY DEF IInv, TypeOK, StepTypes, CreateSteps, RemoveSteps, Owns, Tasks,
       LockDiscipline
<1>4. ASSUME Sound' PROVE StoreBacked'
  <2> SUFFICES ASSUME NEW k \in Keys, Pending(k)'
               PROVE  EntryBacked(k)'
    BY DEF StoreBacked
  <2>1. Sound /\ Pending(k)
    BY <1>4, <1>0 DEF IInv, LockDiscipline, Swept, Sound, Pending, RemoveSteps, Tasks
  <2>2. EntryBacked(k) /\ net[dev[t]] = NoNet
    BY <2>1 DEF IInv, StoreBacked, Sound, RemoverOwnsLink, RemoverLink
  <2>3. store[k] # dev[t]
    BY <2>2 DEF EntryBacked
  <2> QED
    BY <2>2, <2>3 DEF IInv, TypeOK, EntryBacked
<1>5. ASSUME Sound' PROVE OneCreatorPerInterface'
  BY <1>5 DEF IInv, TypeOK, StepTypes, CreateSteps, RemoveSteps, Owns, Tasks,
       Dummies, LockDiscipline, Swept, Sound, OneCreatorPerInterface, CreatorOwnsLink,
       CreatorLink
<1>6. ASSUME Sound' PROVE CreatorOwnsLink'
  BY <1>6 DEF IInv, TypeOK, StepTypes, CreateSteps, RemoveSteps, Owns, Tasks,
       Dummies, LockDiscipline, Swept, Sound, Pending, StoreBacked, EntryBacked,
       OneCreatorPerInterface, CreatorOwnsLink, CreatorLink, RemoverOwnsLink,
       RemoverLink
<1>7. ASSUME Sound' PROVE RemoverOwnsLink'
  BY <1>7 DEF IInv, TypeOK, StepTypes, CreateSteps, RemoveSteps, Owns, Tasks,
       Dummies, LockDiscipline, Swept, Sound, Pending, StoreBacked, EntryBacked,
       CreatorOwnsLink, CreatorLink, RemoverOwnsLink, RemoverLink
<1> QED
  BY <1>1, <1>2, <1>3, <1>4, <1>5, <1>6, <1>7 DEF IInv

(***************************************************************************)
(* SIGTERM changes nothing but the shutdown task's next step.              *)
(***************************************************************************)
LEMMA SigtermInv ==
  ASSUME IInv, Sigterm
  PROVE  IInv'
<1> USE DaemonAssumption DEF Sigterm, Goto, kernel, history
<1>1. TypeOK'
  BY DEF IInv, TypeOK, StepTypes, CreateSteps, RemoveSteps, Owns, Tasks, Ifaces,
       Dummies
<1>2. StepTypes'
  BY DEF IInv, TypeOK, StepTypes, CreateSteps, RemoveSteps, Owns, Tasks, Ifaces,
       Dummies, LockDiscipline
<1>3. LockDiscipline'
  BY DEF IInv, TypeOK, StepTypes, CreateSteps, RemoveSteps, Owns, Tasks,
       LockDiscipline
<1>4. ASSUME Sound' PROVE StoreBacked'
  BY <1>4 DEF IInv, TypeOK, StepTypes, CreateSteps, RemoveSteps, Owns, Tasks,
       Dummies, LockDiscipline, Swept, Sound, Pending, StoreBacked, EntryBacked,
       CreatorOwnsLink, CreatorLink
<1>5. ASSUME Sound' PROVE OneCreatorPerInterface'
  BY <1>5 DEF IInv, TypeOK, StepTypes, CreateSteps, RemoveSteps, Owns, Tasks,
       Dummies, LockDiscipline, Swept, Sound, OneCreatorPerInterface, CreatorOwnsLink,
       CreatorLink
<1>6. ASSUME Sound' PROVE CreatorOwnsLink'
  BY <1>6 DEF IInv, TypeOK, StepTypes, CreateSteps, RemoveSteps, Owns, Tasks,
       Dummies, LockDiscipline, Swept, Sound, Pending, StoreBacked, EntryBacked,
       OneCreatorPerInterface, CreatorOwnsLink, CreatorLink, RemoverOwnsLink,
       RemoverLink
<1>7. ASSUME Sound' PROVE RemoverOwnsLink'
  BY <1>7 DEF IInv, TypeOK, StepTypes, CreateSteps, RemoveSteps, Owns, Tasks,
       Dummies, LockDiscipline, Swept, Sound, Pending, StoreBacked, EntryBacked,
       CreatorOwnsLink, CreatorLink, RemoverOwnsLink, RemoverLink
<1> QED
  BY <1>1, <1>2, <1>3, <1>4, <1>5, <1>6, <1>7 DEF IInv

(***************************************************************************)
(* The sweep begins with all entries, which are the pending ones.          *)
(***************************************************************************)
LEMMA SweepBeginInv ==
  ASSUME IInv, SweepBegin
  PROVE  IInv'
<1> USE DaemonAssumption DEF SweepBegin, Goto, kernel, history
<1>1. TypeOK'
  BY DEF IInv, TypeOK, StepTypes, CreateSteps, RemoveSteps, Owns, Tasks, Ifaces,
       Dummies
<1>2. StepTypes'
  BY DEF IInv, TypeOK, StepTypes, CreateSteps, RemoveSteps, Owns, Tasks, Ifaces,
       Dummies, LockDiscipline
<1>3. LockDiscipline'
  BY DEF IInv, TypeOK, StepTypes, CreateSteps, RemoveSteps, Owns, Tasks,
       LockDiscipline
<1>4. ASSUME Sound' PROVE StoreBacked'
  BY <1>4 DEF IInv, TypeOK, StepTypes, CreateSteps, RemoveSteps, Owns, Tasks,
       Dummies, LockDiscipline, Swept, Sound, Pending, StoreBacked, EntryBacked,
       CreatorOwnsLink, CreatorLink
<1>5. ASSUME Sound' PROVE OneCreatorPerInterface'
  BY <1>5 DEF IInv, TypeOK, StepTypes, CreateSteps, RemoveSteps, Owns, Tasks,
       Dummies, LockDiscipline, Swept, Sound, OneCreatorPerInterface, CreatorOwnsLink,
       CreatorLink
<1>6. ASSUME Sound' PROVE CreatorOwnsLink'
  BY <1>6 DEF IInv, TypeOK, StepTypes, CreateSteps, RemoveSteps, Owns, Tasks,
       Dummies, LockDiscipline, Swept, Sound, Pending, StoreBacked, EntryBacked,
       OneCreatorPerInterface, CreatorOwnsLink, CreatorLink, RemoverOwnsLink,
       RemoverLink
<1>7. ASSUME Sound' PROVE RemoverOwnsLink'
  BY <1>7 DEF IInv, TypeOK, StepTypes, CreateSteps, RemoveSteps, Owns, Tasks,
       Dummies, LockDiscipline, Swept, Sound, Pending, StoreBacked, EntryBacked,
       CreatorOwnsLink, CreatorLink, RemoverOwnsLink, RemoverLink
<1> QED
  BY <1>1, <1>2, <1>3, <1>4, <1>5, <1>6, <1>7 DEF IInv

(***************************************************************************)
(* The entry that the sweep goes to is no longer pending; its link is the  *)
(* shutdown task's.                                                        *)
(***************************************************************************)
LEMMA SweepNextInv ==
  ASSUME IInv, NEW k \in Keys, SweepNext(k)
  PROVE  IInv'
<1> USE DaemonAssumption DEF SweepNext, kernel, history
<1>1. TypeOK'
  BY DEF IInv, TypeOK, StepTypes, CreateSteps, RemoveSteps, Owns, Tasks, Ifaces,
       Dummies
<1>2. StepTypes'
  BY DEF IInv, TypeOK, StepTypes, CreateSteps, RemoveSteps, Owns, Tasks, Ifaces,
       Dummies, LockDiscipline
<1>3. LockDiscipline'
  BY DEF IInv, TypeOK, StepTypes, CreateSteps, RemoveSteps, Owns, Tasks,
       LockDiscipline
<1>4. ASSUME Sound' PROVE StoreBacked'
  BY <1>4 DEF IInv, TypeOK, StepTypes, CreateSteps, RemoveSteps, Owns, Tasks,
       Dummies, LockDiscipline, Swept, Sound, Pending, StoreBacked, EntryBacked,
       CreatorOwnsLink, CreatorLink
<1>5. ASSUME Sound' PROVE OneCreatorPerInterface'
  BY <1>5 DEF IInv, TypeOK, StepTypes, CreateSteps, RemoveSteps, Owns, Tasks,
       Dummies, LockDiscipline, Swept, Sound, OneCreatorPerInterface, CreatorOwnsLink,
       CreatorLink
<1>6. ASSUME Sound' PROVE CreatorOwnsLink'
  BY <1>6 DEF IInv, TypeOK, StepTypes, CreateSteps, RemoveSteps, Owns, Tasks,
       Dummies, LockDiscipline, Swept, Sound, Pending, StoreBacked, EntryBacked,
       OneCreatorPerInterface, CreatorOwnsLink, CreatorLink, RemoverOwnsLink,
       RemoverLink
<1>7. ASSUME Sound' PROVE RemoverOwnsLink'
  BY <1>7 DEF IInv, TypeOK, StepTypes, CreateSteps, RemoveSteps, Owns, Tasks,
       Dummies, LockDiscipline, Swept, Sound, Pending, StoreBacked, EntryBacked,
       CreatorOwnsLink, CreatorLink, RemoverOwnsLink, RemoverLink
<1> QED
  BY <1>1, <1>2, <1>3, <1>4, <1>5, <1>6, <1>7 DEF IInv

(***************************************************************************)
(* After the sweep only the types and the use of the mutex are claimed.    *)
(***************************************************************************)
LEMMA SweepEndInv ==
  ASSUME IInv, SweepEnd
  PROVE  IInv'
<1> USE DaemonAssumption DEF SweepEnd, Goto, kernel, history
<1>1. TypeOK'
  BY DEF IInv, TypeOK, StepTypes, CreateSteps, RemoveSteps, Owns, Tasks, Ifaces,
       Dummies
<1>2. StepTypes'
  BY DEF IInv, TypeOK, StepTypes, CreateSteps, RemoveSteps, Owns, Tasks, Ifaces,
       Dummies, LockDiscipline
<1>3. LockDiscipline'
  BY DEF IInv, TypeOK, StepTypes, CreateSteps, RemoveSteps, Owns, Tasks,
       LockDiscipline
<1>4. ASSUME Sound' PROVE StoreBacked'
  BY <1>4 DEF IInv, TypeOK, StepTypes, CreateSteps, RemoveSteps, Owns, Tasks,
       Dummies, LockDiscipline, Swept, Sound, Pending, StoreBacked, EntryBacked,
       CreatorOwnsLink, CreatorLink
<1>5. ASSUME Sound' PROVE OneCreatorPerInterface'
  BY <1>5 DEF IInv, TypeOK, StepTypes, CreateSteps, RemoveSteps, Owns, Tasks,
       Dummies, LockDiscipline, Swept, Sound, OneCreatorPerInterface, CreatorOwnsLink,
       CreatorLink
<1>6. ASSUME Sound' PROVE CreatorOwnsLink'
  BY <1>6 DEF IInv, TypeOK, StepTypes, CreateSteps, RemoveSteps, Owns, Tasks,
       Dummies, LockDiscipline, Swept, Sound, Pending, StoreBacked, EntryBacked,
       OneCreatorPerInterface, CreatorOwnsLink, CreatorLink, RemoverOwnsLink,
       RemoverLink
<1>7. ASSUME Sound' PROVE RemoverOwnsLink'
  BY <1>7 DEF IInv, TypeOK, StepTypes, CreateSteps, RemoveSteps, Owns, Tasks,
       Dummies, LockDiscipline, Swept, Sound, Pending, StoreBacked, EntryBacked,
       CreatorOwnsLink, CreatorLink, RemoverOwnsLink, RemoverLink
<1> QED
  BY <1>1, <1>2, <1>3, <1>4, <1>5, <1>6, <1>7 DEF IInv

(***************************************************************************)
(* Nothing is in progress when the process is gone, and nothing pending.   *)
(***************************************************************************)
LEMMA DieInv ==
  ASSUME IInv, Die
  PROVE  IInv'
<1> USE DaemonAssumption DEF Die, kernel, history
<1>1. TypeOK'
  BY DEF IInv, TypeOK, StepTypes, CreateSteps, RemoveSteps, Owns, Tasks, Ifaces,
       Dummies
<1>2. StepTypes'
  BY DEF IInv, TypeOK, StepTypes, CreateSteps, RemoveSteps, Owns, Tasks, Ifaces,
       Dummies, LockDiscipline
<1>3. LockDiscipline'
  BY DEF IInv, TypeOK, StepTypes, CreateSteps, RemoveSteps, Owns, Tasks,
       LockDiscipline
<1>4. ASSUME Sound' PROVE StoreBacked'
  BY DEF StoreBacked, Pending, Keys
<1>5. ASSUME Sound' PROVE OneCreatorPerInterface'
  BY <1>5 DEF IInv, TypeOK, StepTypes, CreateSteps, RemoveSteps, Owns, Tasks,
       Dummies, LockDiscipline, Swept, Sound, OneCreatorPerInterface, CreatorOwnsLink,
       CreatorLink
<1>6. ASSUME Sound' PROVE CreatorOwnsLink'
  BY <1>6 DEF IInv, TypeOK, StepTypes, CreateSteps, RemoveSteps, Owns, Tasks,
       Dummies, LockDiscipline, Swept, Sound, Pending, StoreBacked, EntryBacked,
       OneCreatorPerInterface, CreatorOwnsLink, CreatorLink, RemoverOwnsLink,
       RemoverLink
<1>7. ASSUME Sound' PROVE RemoverOwnsLink'
  BY <1>7 DEF IInv, TypeOK, StepTypes, CreateSteps, RemoveSteps, Owns, Tasks,
       Dummies, LockDiscipline, Swept, Sound, Pending, StoreBacked, EntryBacked,
       CreatorOwnsLink, CreatorLink, RemoverOwnsLink, RemoverLink
<1> QED
  BY <1>1, <1>2, <1>3, <1>4, <1>5, <1>6, <1>7 DEF IInv

(***************************************************************************)
(* What the restarted daemon detects for a client's network is an          *)
(* interface that has it, and no request is in progress.                   *)
(***************************************************************************)
LEMMA StartInv ==
  ASSUME IInv, Start
  PROVE  IInv'
<1> USE DaemonAssumption DEF Start, kernel, task, history
<1>1. TypeOK'
  BY DEF IInv, TypeOK, StepTypes, CreateSteps, RemoveSteps, Owns, Tasks, Ifaces,
       Dummies
<1>2. StepTypes'
  BY DEF IInv, TypeOK, StepTypes, CreateSteps, RemoveSteps, Owns, Tasks, Ifaces,
       Dummies, LockDiscipline
<1>3. LockDiscipline'
  BY DEF IInv, TypeOK, StepTypes, CreateSteps, RemoveSteps, Owns, Tasks,
       LockDiscipline
<1>4. ASSUME Sound' PROVE StoreBacked'
  <2> SUFFICES ASSUME NEW k \in Keys, Pending(k)'
               PROVE  EntryBacked(k)'
    BY DEF StoreBacked
  <2>1. store'[k] # NoIface /\ k \notin misread'
    BY DEF Pending
  <2> QED
    BY <2>1 DEF EntryBacked
<1>5. ASSUME Sound' PROVE OneCreatorPerInterface'
  BY <1>5 DEF IInv, TypeOK, StepTypes, CreateSteps, RemoveSteps, Owns, Tasks,
       Dummies, LockDiscipline, Swept, Sound, OneCreatorPerInterface, CreatorOwnsLink,
       CreatorLink
<1>6. ASSUME Sound' PROVE CreatorOwnsLink'
  BY <1>6 DEF IInv, TypeOK, StepTypes, CreateSteps, RemoveSteps, Owns, Tasks,
       Dummies, LockDiscipline, Swept, Sound, Pending, StoreBacked, EntryBacked,
       OneCreatorPerInterface, CreatorOwnsLink, CreatorLink, RemoverOwnsLink,
       RemoverLink
<1>7. ASSUME Sound' PROVE RemoverOwnsLink'
  BY <1>7 DEF IInv, TypeOK, StepTypes, CreateSteps, RemoveSteps, Owns, Tasks,
       Dummies, LockDiscipline, Swept, Sound, Pending, StoreBacked, EntryBacked,
       CreatorOwnsLink, CreatorLink, RemoverOwnsLink, RemoverLink
<1> QED
  BY <1>1, <1>2, <1>3, <1>4, <1>5, <1>6, <1>7 DEF IInv

(***************************************************************************)
(* IInv is an invariant: every action is one of the lemmas'.               *)
(***************************************************************************)
THEOREM Inductive == Spec => []IInv
<1>1. ASSUME IInv, [Next]_vars PROVE IInv'
  <2> USE <1>1
  <2>1. ASSUME NEW h \in Handlers, Request(h) PROVE IInv'
    BY <2>1, BeginCreateInv, BeginDeleteInv DEF Request
  <2>2. ASSUME NEW h \in Handlers, Create(h) PROVE IInv'
    BY <2>2, ProbeInv, LinkAddInv, AddrAddInv, LinkUpInv, InsertInv DEF Create
  <2>3. ASSUME NEW h \in Handlers, TakeEntry(h) \/ Disconnect(h) PROVE IInv'
    BY <2>3, TakeEntryInv, DisconnectInv
  <2>4. ASSUME NEW t \in Tasks, Remove(t) PROVE IInv'
    BY <2>4, AddrDelInv, LinkDelInv DEF Remove
  <2>5. CASE Sigterm \/ Sweep
    BY <2>5, SigtermInv, SweepBeginInv, SweepNextInv, SweepEndInv DEF Sweep
  <2>6. CASE Exit \/ Crash
    BY <2>6, DieInv DEF Exit, Crash
  <2>7. CASE Start
    BY <2>7, StartInv
  <2>8. CASE Drain \/ (\E f \in Foreign : ForeignUp(f) \/ ForeignDown(f)) \/ UNCHANGED vars
    <3>1. UNCHANGED <<links, net, up, store, lock, task, todo, history>>
      BY <2>8 DEF Drain, ForeignUp, ForeignDown, vars, kernel
    <3>2. foreign' \subseteq Foreign /\ (mode' \in {"serving", "draining"} \/ mode' = mode)
      BY <2>8 DEF IInv, TypeOK, Drain, ForeignUp, ForeignDown, vars, kernel
    <3> QED
      BY <3>1, <3>2, QuietInv
  <2> QED
    BY <1>1, <2>1, <2>2, <2>3, <2>4, <2>5, <2>6, <2>7, <2>8 DEF Next
<1> QED
  BY <1>1, InitInv, PTL DEF Spec

-----------------------------------------------------------------------------
(***************************************************************************)
(* What a step does to the links: one of four commands succeeds, or no     *)
(* link and no address changes and no task comes to work on a link.        *)
(***************************************************************************)
OthersKept(t) == \A u \in Tasks \ {t} : pc'[u] = pc[u] /\ dev'[u] = dev[u]

LinkAdded(h) ==
  /\ dev[h] \in Dummies \ links /\ links' = links \cup {dev[h]} /\ net' = net
  /\ pc'[h] = "addrAdd" /\ dev'[h] = dev[h] /\ OthersKept(h)

AddrAdded(h) ==
  /\ pc[h] = "addrAdd" /\ links' = links /\ net' = [net EXCEPT ![dev[h]] = want[h]]
  /\ pc'[h] = "linkUp" /\ dev'[h] = dev[h] /\ OthersKept(h)

AddrDeleted(t) ==
  /\ pc[t] = "addrDel" /\ dev[t] \in links /\ net[dev[t]] # NoNet
  /\ links' = links /\ net' = [net EXCEPT ![dev[t]] = NoNet]
  /\ pc'[t] = "linkDel" /\ dev'[t] = dev[t] /\ OthersKept(t)

LinkDeleted(t) ==
  /\ pc[t] = "linkDel" /\ links' = links \ {dev[t]} /\ net' = [net EXCEPT ![dev[t]] = NoNet]
  /\ pc'[t] \in {"idle", "sweep"} /\ OthersKept(t)

LinksKept ==
  /\ UNCHANGED <<links, net>>
  /\ \A h \in Handlers : Owns(h)' => Owns(h) /\ dev'[h] = dev[h]
  /\ \A t \in Tasks : pc'[t] \in {"addrAdd", "linkDel"} => pc[t] = pc'[t] /\ dev'[t] = dev[t]

LEMMA LinkStep ==
  ASSUME IInv, [Next]_vars
  PROVE  \/ LinksKept
         \/ \E h \in Handlers : LinkAdded(h) \/ AddrAdded(h)
         \/ \E t \in Tasks : AddrDeleted(t) \/ LinkDeleted(t)
<1>0. /\ TypeOK /\ StepTypes /\ LockDiscipline
      /\ Shutdown \in Tasks /\ \A h \in Handlers : h \in Tasks
  BY DEF IInv, Tasks
<1>1. ASSUME NEW h \in Handlers,
             Request(h) \/ Probe(h) \/ LinkUp(h) \/ Insert(h) \/ TakeEntry(h) \/ Disconnect(h)
      PROVE  LinksKept
  <2>1. UNCHANGED <<links, net>> /\ OthersKept(h)
    BY <1>0, <1>1 DEF TypeOK, Request, BeginCreate, BeginDelete, Probe, LinkUp, Insert,
       TakeEntry, Disconnect, Goto, Answer, kernel, OthersKept
  <2>2. /\ pc'[h] \notin {"addrAdd", "linkDel"}
        /\ Owns(h)' => Owns(h) /\ dev'[h] = dev[h]
    BY <1>0, <1>1 DEF TypeOK, Request, BeginCreate, BeginDelete, Probe, LinkUp, Insert,
       TakeEntry, Disconnect, Goto, Answer, Owns
  <2> QED
    BY <1>0, <2>1, <2>2 DEF LinksKept, OthersKept, Owns
<1>2. ASSUME NEW h \in Handlers, LinkAdd(h)
      PROVE  LinkAdded(h) \/ LinksKept
  <2>1. OthersKept(h) /\ dev[h] \in Dummies
    BY <1>0, <1>2 DEF TypeOK, StepTypes, LinkAdd, Goto, Answer, OthersKept
  <2>2. CASE Answer(h) /\ UNCHANGED links
    BY <1>0, <1>2, <2>1, <2>2 DEF TypeOK, LinkAdd, Answer, LinksKept, OthersKept, Owns
  <2>3. CASE dev[h] \notin links /\ links' = links \cup {dev[h]} /\ Goto(h, "addrAdd")
    BY <1>0, <1>2, <2>1, <2>3 DEF TypeOK, LinkAdd, Goto, LinkAdded
  <2> QED
    BY <1>2, <2>2, <2>3 DEF LinkAdd
<1>3. ASSUME NEW h \in Handlers, AddrAdd(h)
      PROVE  AddrAdded(h) \/ LinksKept
  <2>1. OthersKept(h)
    BY <1>0, <1>3 DEF TypeOK, AddrAdd, Goto, Answer, OthersKept
  <2>2. CASE Answer(h) /\ UNCHANGED net
    BY <1>0, <1>3, <2>1, <2>2 DEF TypeOK, AddrAdd, Answer, LinksKept, OthersKept, Owns
  <2>3. CASE net' = [net EXCEPT ![dev[h]] = want[h]] /\ Goto(h, "linkUp")
    BY <1>0, <1>3, <2>1, <2>3 DEF TypeOK, AddrAdd, Goto, AddrAdded
  <2> QED
    BY <1>3, <2>2, <2>3 DEF AddrAdd
<1>4. ASSUME NEW t \in Tasks, AddrDel(t)
      PROVE  AddrDeleted(t) \/ LinksKept
  <2>1. OthersKept(t) /\ want[t] \in Keys
    BY <1>0, <1>4 DEF TypeOK, StepTypes, AddrDel, Goto, EndRemove, OthersKept, RemoveSteps
  <2>2. CASE EndRemove(t) /\ UNCHANGED net
    <3>1. pc'[t] \in {"idle", "sweep"} /\ UNCHANGED links
      BY <1>0, <1>4, <2>2 DEF TypeOK, AddrDel, EndRemove
    <3> QED
      BY <1>0, <2>1, <2>2, <3>1 DEF LinksKept, OthersKept, Owns
  <2>3. CASE HasAddress(t) /\ net' = [net EXCEPT ![dev[t]] = NoNet] /\ Goto(t, "linkDel")
    BY <1>0, <1>4, <2>1, <2>3, DaemonAssumption
    DEF TypeOK, AddrDel, Goto, HasAddress, AddrDeleted
  <2> QED
    BY <1>4, <2>2, <2>3 DEF AddrDel
<1>5. ASSUME NEW t \in Tasks, LinkDel(t)
      PROVE  LinkDeleted(t) \/ LinksKept
  <2>1. OthersKept(t) /\ pc'[t] \in {"idle", "sweep"} /\ pc[t] = "linkDel"
    BY <1>0, <1>5 DEF TypeOK, LinkDel, EndRemove, OthersKept
  <2>2. CASE UNCHANGED <<links, net, up>>
    BY <1>0, <2>1, <2>2 DEF LinksKept, OthersKept, Owns
  <2>3. CASE links' = links \ {dev[t]} /\ net' = [net EXCEPT ![dev[t]] = NoNet]
    BY <2>1, <2>3 DEF LinkDeleted
  <2> QED
    BY <1>5, <2>2, <2>3 DEF LinkDel
<1>6. CASE Sigterm \/ Sweep
  <2>1. UNCHANGED <<links, net>> /\ OthersKept(Shutdown)
    BY <1>0, <1>6 DEF TypeOK, Sigterm, Sweep, SweepBegin, SweepNext, SweepEnd, Goto,
       kernel, OthersKept
  <2>2. pc'[Shutdown] \notin {"addrAdd", "linkDel"}
    BY <1>0, <1>6 DEF TypeOK, Sigterm, Sweep, SweepBegin, SweepNext, SweepEnd, Goto
  <2> QED
    BY <1>0, <2>1, <2>2, DaemonAssumption DEF LinksKept, OthersKept, Owns
<1>7. CASE Exit \/ Crash
  <2>1. UNCHANGED <<links, net>> /\ \A t \in Tasks : pc'[t] = "idle"
    BY <1>7 DEF Exit, Crash, Die, kernel
  <2> QED
    BY <1>0, <2>1 DEF LinksKept, Owns
<1>8. CASE \/ Start \/ Drain \/ (\E f \in Foreign : ForeignUp(f) \/ ForeignDown(f))
           \/ UNCHANGED vars
  <2>1. UNCHANGED <<links, net, pc, dev>>
    BY <1>8 DEF Start, Drain, ForeignUp, ForeignDown, vars, kernel, task
  <2> QED
    BY <2>1 DEF LinksKept, Owns
<1> QED
  BY <1>1, <1>2, <1>3, <1>4, <1>5, <1>6, <1>7, <1>8 DEF Next, Create, Remove

(***************************************************************************)
(* A link without an address stays so until the task that works on it goes *)
(* on: nobody else's command reaches it, the sweep over or not.            *)
(***************************************************************************)
LEMMA BareStep ==
  ASSUME IInv, BareLinks, [Next]_vars
  PROVE  BareLinks'
<1>0. /\ TypeOK /\ \A h \in Handlers : h \in Tasks
      /\ \A t, u \in Tasks : pc[t] = "linkDel" /\ pc[u] \in RemoveSteps => t = u
      /\ \A t \in Tasks : pc[t] = "addrAdd" => t \in Handlers
  BY DEF IInv, LockDiscipline, StepTypes, RemoveSteps, CreateSteps, Tasks
<1>1. CASE LinksKept
  BY <1>0, <1>1 DEF BareLinks, LinksKept
<1>2. ASSUME NEW h \in Handlers, LinkAdded(h) PROVE BareLinks'
  <2>1. net[dev[h]] = NoNet /\ \A t \in Tasks \ {h} : pc[t] \in {"addrAdd", "linkDel"} => dev[t] # dev[h]
    BY <1>0, <1>2 DEF TypeOK, BareLinks, LinkAdded
  <2> QED
    BY <1>0, <1>2, <2>1 DEF BareLinks, LinkAdded, OthersKept
<1>3. ASSUME NEW h \in Handlers, AddrAdded(h) PROVE BareLinks'
  <2>1. \A t \in Tasks \ {h} : pc[t] \in {"addrAdd", "linkDel"} => dev[t] # dev[h]
    BY <1>3 DEF BareLinks, AddrAdded
  <2>2. \A t \in Tasks \ {h} : pc[t] \in {"addrAdd", "linkDel"} => net'[dev[t]] = NoNet
    BY <1>0, <1>3, <2>1 DEF TypeOK, BareLinks, AddrAdded
  <2> QED
    BY <1>0, <1>3, <2>1, <2>2 DEF BareLinks, AddrAdded, OthersKept
<1>4. ASSUME NEW t \in Tasks, AddrDeleted(t) PROVE BareLinks'
  <2>1. \A h \in Handlers : pc[h] = "addrAdd" => dev[h] # dev[t]
    BY <1>4 DEF BareLinks, AddrDeleted
  <2>2. net'[dev[t]] = NoNet /\ \A h \in Handlers : pc[h] = "addrAdd" => net'[dev[h]] = NoNet
    BY <1>0, <1>4, <2>1 DEF TypeOK, BareLinks, AddrDeleted
  <2>3. \A u \in Tasks \ {t} : pc[u] # "linkDel"
    BY <1>0, <1>4 DEF AddrDeleted, RemoveSteps
  <2> QED
    BY <1>0, <1>4, <2>1, <2>2, <2>3 DEF BareLinks, AddrDeleted, OthersKept
<1>5. ASSUME NEW t \in Tasks, LinkDeleted(t) PROVE BareLinks'
  <2>1. \A h \in Handlers : pc[h] = "addrAdd" =>
          dev[h] # dev[t] /\ dev[h] \in links' /\ net'[dev[h]] = NoNet
    BY <1>0, <1>5 DEF TypeOK, BareLinks, LinkDeleted
  <2>2. \A u \in Tasks : pc'[u] # "linkDel"
    BY <1>0, <1>5 DEF LinkDeleted, OthersKept, RemoveSteps
  <2> QED
    BY <1>0, <1>5, <2>1, <2>2 DEF BareLinks, LinkDeleted, OthersKept
<1> QED
  BY <1>1, <1>2, <1>3, <1>4, <1>5, LinkStep

-----------------------------------------------------------------------------
(***************************************************************************)
(* The types of the variables, for every number of requests in progress.   *)
(***************************************************************************)
THEOREM TypeCorrect == Spec => []TypeOK
<1>1. IInv => TypeOK
  BY DEF IInv
<1> QED
  BY <1>1, Inductive, PTL

(***************************************************************************)
(* Every entry the daemon has still to act on is backed by an interface,   *)
(* in spite of all interleavings, failing commands, disconnects, crashes   *)
(* and restarts.                                                           *)
(***************************************************************************)
THEOREM StoreIsBacked == Spec => []StoreBacked
<1>1. IInv => StoreBacked
  <2>1. IInv /\ Swept => \A k \in Keys : ~ Pending(k)
    BY DEF IInv, LockDiscipline, RemoveSteps, Swept, Pending
  <2> QED
    BY <2>1 DEF IInv, StoreBacked, Sound
<1> QED
  BY <1>1, Inductive, PTL

(***************************************************************************)
(* `ip link add` keeps the requests in progress apart, however many there  *)
(* are, until the sweep is over.                                           *)
(***************************************************************************)
THEOREM CreatorsApart == Spec => []OneCreatorPerInterface
<1>1. IInv => OneCreatorPerInterface
  BY DEF IInv, OneCreatorPerInterface
<1> QED
  BY <1>1, Inductive, PTL

(***************************************************************************)
(* A removal never takes a link away that still has an address, whatever   *)
(* detection has misread and the sweep over or not; nor, without these,    *)
(* one that a create request is configuring.                               *)
(***************************************************************************)
THEOREM OwnLinksDeleted == Spec => DeletesOwnLinkOnly
<1> DEFINE Own == \A d \in links \ links' :
                    /\ net[d] = NoNet
                    /\ Sound => \A h \in Handlers : Owns(h) => dev[h] # d
<1>1. ASSUME IInv, BareLinks, [Next]_vars PROVE [Own]_vars
  <2> SUFFICES ASSUME NEW d \in links, d \notin links'
               PROVE  /\ net[d] = NoNet
                      /\ Sound => \A h \in Handlers : Owns(h) => dev[h] # d
    OBVIOUS
  <2>1. PICK t \in Tasks : LinkDeleted(t)
    BY <1>1, LinkStep DEF LinksKept, LinkAdded, AddrAdded, AddrDeleted
  <2>2. d = dev[t] /\ pc[t] = "linkDel"
    BY <2>1 DEF LinkDeleted
  <2> QED
    BY <1>1, <2>2 DEF IInv, BareLinks, RemoverOwnsLink, RemoverLink
<1>2. Init => BareLinks
  BY DEF Init, BareLinks, Tasks
<1>3. IInv /\ BareLinks /\ [Next]_vars => BareLinks'
  BY BareStep
<1> QED
  BY <1>1, <1>2, <1>3, Inductive, PTL DEF Spec, DeletesOwnLinkOnly

(***************************************************************************)
(* A link without an address on which no task works stays so.              *)
(***************************************************************************)
LEMMA UntouchedKept ==
  ASSUME IInv, [Next]_vars, NEW d, Untouched(d)
  PROVE  Untouched(d)'
<1>0. TypeOK /\ \A h \in Handlers : h \in Tasks
  BY DEF IInv, Tasks
<1> SUFFICES ASSUME d # CidrText PROVE Untouched(d)'
  BY DEF Untouched
<1>u. /\ d \in links /\ d \in Dummies /\ net[d] = NoNet
      /\ \A h \in Handlers : Owns(h) => dev[h] # d
      /\ \A t \in Tasks : pc[t] = "linkDel" => dev[t] # d
  BY <1>0 DEF Untouched, TypeOK
<1>1. CASE LinksKept
  BY <1>u, <1>1 DEF LinksKept, Untouched
<1>2. ASSUME NEW h \in Handlers, LinkAdded(h) PROVE Untouched(d)'
  BY <1>0, <1>u, <1>2 DEF LinkAdded, OthersKept, Owns, Untouched
<1>3. ASSUME NEW h \in Handlers, AddrAdded(h) PROVE Untouched(d)'
  <2>1. dev[h] # d /\ net'[d] = NoNet
    BY <1>0, <1>u, <1>3 DEF TypeOK, AddrAdded, Owns
  <2> QED
    BY <1>0, <1>u, <1>3, <2>1 DEF AddrAdded, OthersKept, Owns, Untouched
<1>4. ASSUME NEW t \in Tasks, AddrDeleted(t) PROVE Untouched(d)'
  <2>1. dev[t] # d /\ net'[d] = NoNet
    BY <1>0, <1>u, <1>4 DEF TypeOK, AddrDeleted
  <2> QED
    BY <1>0, <1>u, <1>4, <2>1 DEF AddrDeleted, OthersKept, Owns, Untouched
<1>5. ASSUME NEW t \in Tasks, LinkDeleted(t) PROVE Untouched(d)'
  <2>1. dev[t] # d /\ net'[d] = NoNet
    BY <1>0, <1>u, <1>5 DEF TypeOK, LinkDeleted
  <2> QED
    BY <1>0, <1>u, <1>5, <2>1 DEF LinkDeleted, OthersKept, Owns, Untouched
<1> QED
  BY <1>1, <1>2, <1>3, <1>4, <1>5, LinkStep

(***************************************************************************)
(* Where entries and removals of misread keys come from: the entry was     *)
(* there before, the daemon starts, or the removal took an entry over.     *)
(***************************************************************************)
EntriesFrom ==
  /\ \A k \in misread' : store'[k] # NoIface => k \in misread /\ store[k] = store'[k]
  /\ \A t \in Tasks : pc'[t] = "addrDel" /\ want'[t] \in misread' =>
       /\ want'[t] \in misread
       /\ \/ pc[t] = "addrDel" /\ want[t] = want'[t] /\ dev[t] = dev'[t]
          \/ store[want'[t]] # NoIface /\ store[want'[t]] = dev'[t]

LEMMA MisreadStep ==
  ASSUME IInv, MisreadUntouched, [Next]_vars
  PROVE  MisreadUntouched'
<1> SUFFICES ASSUME LabelShown PROVE MisreadUntouched'
  BY DEF MisreadUntouched
<1>0. /\ TypeOK /\ StepTypes /\ LockDiscipline
      /\ Shutdown \in Tasks /\ \A h \in Handlers : h \in Tasks
  BY DEF IInv, Tasks
<1>u. /\ ~ astray
      /\ \A k \in misread : store[k] # NoIface => Untouched(store[k])
      /\ \A t \in Tasks : pc[t] = "addrDel" /\ want[t] \in misread => Untouched(dev[t])
      /\ \A t \in Tasks : pc[t] = "linkDel" => want[t] \notin misread
  BY DEF MisreadUntouched
<1>k. ASSUME EntriesFrom, ~ astray',
             \A t \in Tasks : pc'[t] = "linkDel" => want'[t] \notin misread'
      PROVE  MisreadUntouched'
  <2>0. \A d : Untouched(d) => Untouched(d)'
    BY UntouchedKept
  <2>1. (\A k \in misread : store[k] # NoIface => Untouched(store[k]))'
    <3> SUFFICES ASSUME NEW k \in misread', store'[k] # NoIface
                 PROVE  Untouched(store[k])'
      OBVIOUS
    <3>1. PICK d : d = store[k]
      OBVIOUS
    <3>2. Untouched(d)' /\ d = store'[k]
      BY <1>u, <1>k, <2>0, <3>1 DEF EntriesFrom
    <3> QED
      BY <3>2 DEF Untouched
  <2>2. (\A t \in Tasks : pc[t] = "addrDel" /\ want[t] \in misread => Untouched(dev[t]))'
    <3> SUFFICES ASSUME NEW t \in Tasks, pc'[t] = "addrDel", want'[t] \in misread'
                 PROVE  Untouched(dev[t])'
      OBVIOUS
    <3>1. PICK d : d = IF pc[t] = "addrDel" /\ dev[t] = dev'[t] /\ want[t] = want'[t]
                       THEN dev[t] ELSE store[want'[t]]
      OBVIOUS
    <3>2. Untouched(d) /\ d = dev'[t]
      BY <1>u, <1>k, <3>1 DEF EntriesFrom
    <3> QED
      BY <2>0, <3>2 DEF Untouched
  <2> QED
    BY <1>k, <2>1, <2>2 DEF MisreadUntouched
<1>q. ASSUME misread' \subseteq misread, ~ astray',
             \A k \in misread' : store'[k] \in {store[k], NoIface},
             \A t \in Tasks : pc'[t] \in RemoveSteps =>
               pc'[t] = pc[t] /\ want'[t] = want[t] /\ dev'[t] = dev[t]
      PROVE  MisreadUntouched'
  <2>1. EntriesFrom
    BY <1>q DEF EntriesFrom, RemoveSteps
  <2>2. \A t \in Tasks : pc'[t] = "linkDel" => want'[t] \notin misread'
    BY <1>u, <1>q DEF RemoveSteps
  <2> QED
    BY <1>k, <1>q, <2>1, <2>2
<1>1. ASSUME NEW h \in Handlers,
             \/ Request(h) \/ Probe(h) \/ LinkAdd(h) \/ AddrAdd(h) \/ LinkUp(h) \/ Disconnect(h)
      PROVE  MisreadUntouched'
  <2>1. UNCHANGED <<store, misread, astray>>
    BY <1>1 DEF Request, BeginCreate, BeginDelete, Probe, LinkAdd, AddrAdd, LinkUp,
       Disconnect, history
  <2>2. /\ pc'[h] \notin RemoveSteps
        /\ \A t \in Tasks \ {h} : pc'[t] = pc[t] /\ want'[t] = want[t] /\ dev'[t] = dev[t]
    BY <1>0, <1>1 DEF TypeOK, Request, BeginCreate, BeginDelete, Probe, LinkAdd, AddrAdd,
       LinkUp, Disconnect, Goto, Answer, RemoveSteps
  <2>3. \A t \in Tasks : pc'[t] \in RemoveSteps =>
          pc'[t] = pc[t] /\ want'[t] = want[t] /\ dev'[t] = dev[t]
    BY <2>2
  <2> QED
    BY <1>u, <1>q, <2>1, <2>3
<1>2. ASSUME NEW h \in Handlers, Insert(h) PROVE MisreadUntouched'
  <2>1. /\ misread' = misread \ {want[h]} /\ astray' = astray
        /\ \A k \in Keys \ {want[h]} : store'[k] = store[k]
    BY <1>0, <1>2 DEF TypeOK, Insert
  <2>2. \A t \in Tasks : pc'[t] \in RemoveSteps =>
          pc'[t] = pc[t] /\ want'[t] = want[t] /\ dev'[t] = dev[t]
    BY <1>0, <1>2 DEF TypeOK, Insert, Answer, RemoveSteps
  <2>3. \A k \in misread' : store'[k] \in {store[k], NoIface}
    BY <1>0, <2>1 DEF TypeOK
  <2> QED
    BY <1>u, <1>q, <2>1, <2>2, <2>3
<1>3. ASSUME NEW h \in Handlers, TakeEntry(h) PROVE MisreadUntouched'
  <2>1. /\ UNCHANGED <<misread, astray>>
        /\ \A k \in Keys : store'[k] \in {store[k], NoIface}
        /\ \A t \in Tasks \ {h} : pc'[t] = pc[t] /\ want'[t] = want[t] /\ dev'[t] = dev[t]
    BY <1>0, <1>3 DEF TypeOK, TakeEntry, Answer, history
  <2>2. \/ pc'[h] = "idle"
        \/ /\ pc'[h] = "addrDel" /\ want'[h] = want[h]
           /\ store[want[h]] # NoIface /\ dev'[h] = store[want[h]]
    BY <1>0, <1>3 DEF TypeOK, TakeEntry, Answer
  <2>3. EntriesFrom
    BY <1>0, <2>1, <2>2 DEF TypeOK, EntriesFrom
  <2>4. \A t \in Tasks : pc'[t] = "linkDel" => want'[t] \notin misread'
    BY <1>u, <2>1, <2>2
  <2> QED
    BY <1>u, <1>k, <2>1, <2>3, <2>4
<1>4. ASSUME NEW t \in Tasks, AddrDel(t) PROVE MisreadUntouched'
  <2>1. UNCHANGED <<store, misread>>
    BY <1>4 DEF AddrDel
  <2>2. \A u \in Tasks \ {t} : pc'[u] = pc[u] /\ want'[u] = want[u] /\ dev'[u] = dev[u]
    BY <1>0, <1>4 DEF TypeOK, AddrDel, Goto, EndRemove
  <2>3. CASE EndRemove(t) /\ UNCHANGED <<net, astray>>
    <3>1. pc'[t] \notin RemoveSteps
      BY <1>0, <2>3 DEF TypeOK, EndRemove, RemoveSteps
    <3>2. \A u \in Tasks : pc'[u] \in RemoveSteps =>
            pc'[u] = pc[u] /\ want'[u] = want[u] /\ dev'[u] = dev[u]
      BY <2>2, <3>1
    <3> QED
      BY <1>u, <1>q, <2>1, <2>3, <3>2
  <2>4. CASE /\ HasAddress(t) /\ Goto(t, "linkDel")
             /\ astray' = (astray \/ want[t] \in misread)
    <3>1. want[t] \notin misread
      <4>1. dev[t] \in links /\ net[dev[t]] = want[t] /\ want[t] \in Keys
        BY <1>0, <1>4, <2>4 DEF AddrDel, HasAddress, StepTypes, RemoveSteps
      <4>2. dev[t] # CidrText
        <5>1. dev[t] \in Dummies
          BY <1>0, <4>1 DEF TypeOK
        <5>2. MaxDummy \in Nat /\ CidrText \notin Nat
          BY DaemonAssumption
        <5> QED
          BY <5>1, <5>2 DEF Dummies
      <4>3. net[dev[t]] # NoNet
        BY <4>1, DaemonAssumption
      <4> QED
        BY <1>u, <1>4, <4>2, <4>3 DEF AddrDel, Untouched
    <3>2. pc'[t] = "linkDel" /\ want'[t] = want[t]
      BY <1>0, <2>4 DEF TypeOK, Goto
    <3>3. EntriesFrom
      BY <2>1, <2>2, <3>2 DEF EntriesFrom
    <3>4. \A u \in Tasks : pc'[u] = "linkDel" => want'[u] \notin misread'
      BY <1>u, <2>1, <2>2, <3>1, <3>2
    <3>5. ~ astray'
      BY <1>u, <2>4, <3>1
    <3> QED
      BY <1>k, <3>3, <3>4, <3>5
  <2> QED
    BY <1>4, <2>3, <2>4 DEF AddrDel
<1>5. ASSUME NEW t \in Tasks, LinkDel(t) PROVE MisreadUntouched'
  <2>1. UNCHANGED <<store, misread, astray>>
    BY <1>5 DEF LinkDel, history
  <2>2. \A u \in Tasks : pc'[u] \in RemoveSteps =>
          pc'[u] = pc[u] /\ want'[u] = want[u] /\ dev'[u] = dev[u]
    BY <1>0, <1>5 DEF TypeOK, LinkDel, EndRemove, RemoveSteps
  <2> QED
    BY <1>u, <1>q, <2>1, <2>2
<1>6. CASE Sigterm \/ SweepBegin \/ SweepEnd
  <2>1. UNCHANGED <<store, misread, astray>>
    BY <1>6 DEF Sigterm, SweepBegin, SweepEnd, history
  <2>2. \A u \in Tasks : pc'[u] \in RemoveSteps =>
          pc'[u] = pc[u] /\ want'[u] = want[u] /\ dev'[u] = dev[u]
    BY <1>0, <1>6 DEF TypeOK, Sigterm, SweepBegin, SweepEnd, Goto, RemoveSteps
  <2> QED
    BY <1>u, <1>q, <2>1, <2>2
<1>7. ASSUME NEW k \in Keys, SweepNext(k) PROVE MisreadUntouched'
  <2>1. /\ UNCHANGED <<store, misread, astray>>
        /\ \A t \in Tasks \ {Shutdown} : pc'[t] = pc[t] /\ want'[t] = want[t] /\ dev'[t] = dev[t]
    BY <1>0, <1>7 DEF TypeOK, SweepNext, history
  <2>2. /\ pc'[Shutdown] = "addrDel" /\ want'[Shutdown] = k
        /\ store[k] # NoIface /\ dev'[Shutdown] = store[k]
    BY <1>0, <1>7 DEF TypeOK, LockDiscipline, SweepNext
  <2>3. EntriesFrom
    BY <2>1, <2>2 DEF EntriesFrom
  <2>4. \A t \in Tasks : pc'[t] = "linkDel" => want'[t] \notin misread'
    BY <1>u, <2>1, <2>2
  <2> QED
    BY <1>u, <1>k, <2>1, <2>3, <2>4
<1>8. CASE Exit \/ Crash
  <2>1. misread' = {} /\ ~ astray' /\ \A t \in Tasks : pc'[t] = "idle"
    BY <1>8 DEF Exit, Crash, Die
  <2> QED
    BY <1>q, <2>1 DEF RemoveSteps
<1>9. CASE Start
  <2>1. UNCHANGED <<links, net, pc, dev, astray>> /\ \A t \in Tasks : pc[t] = "idle"
    BY <1>0, <1>9 DEF Start, kernel, task, LockDiscipline
  <2>2. (\A k \in misread : store[k] # NoIface => Untouched(store[k]))'
    <3> SUFFICES ASSUME NEW k \in misread', store'[k] # NoIface
                 PROVE  Untouched(store[k])'
      OBVIOUS
    <3>1. k \in Keys /\ store'[k] \in DetectedOn(k)
      BY <1>9 DEF Start
    <3>2. PICK d \in links : store'[k] = CurrentAfter(d)
      BY <3>1 DEF DetectedOn
    <3>3. store'[k] = CidrText \/ (store'[k] \in links /\ net[store'[k]] = NoNet)
      BY <3>2 DEF CurrentAfter
    <3> QED
      BY <1>0, <2>1, <3>3 DEF Untouched, Owns
  <2> QED
    BY <1>u, <2>1, <2>2 DEF MisreadUntouched
<1>10. CASE \/ Drain \/ (\E f \in Foreign : ForeignUp(f) \/ ForeignDown(f))
            \/ UNCHANGED vars
  <2>1. UNCHANGED <<store, misread, astray, pc, want, dev>>
    BY <1>10 DEF Drain, ForeignUp, ForeignDown, vars, task, history
  <2> QED
    BY <1>u, <1>q, <2>1
<1> QED
  BY <1>1, <1>2, <1>3, <1>4, <1>5, <1>6, <1>7, <1>8, <1>9, <1>10
  DEF Next, Create, Remove, Sweep

(***************************************************************************)
(* With the lines that iproute2 prints, no removal ever gets as far as     *)
(* `ip link del` under the name of a misread entry, whatever networks      *)
(* other programs' interfaces have, clients' subnets included.             *)
(***************************************************************************)
THEOREM MisreadEntriesHarmless == Spec => []DetectionHarmless
<1>1. Init => MisreadUntouched
  BY DEF Init, MisreadUntouched, Tasks
<1>2. IInv /\ MisreadUntouched /\ [Next]_vars => MisreadUntouched'
  BY MisreadStep
<1>3. MisreadUntouched => DetectionHarmless
  BY DEF MisreadUntouched, DetectionHarmless
<1> QED
  BY <1>1, <1>2, <1>3, Inductive, PTL DEF Spec

(***************************************************************************)
(* What is configured is valid, and a daemon that is not there has stored  *)
(* nothing.                                                                *)
(***************************************************************************)
OnlyValid ==
  /\ \A h \in Handlers : pc[h] \in CreateSteps => ValidNetwork(want[h])
  /\ \A d \in Dummies : net[d] # NoNet => ValidNetwork(net[d])
  /\ mode = "down" => \A k \in Keys : store[k] = NoIface

\* A step that configures nothing and keeps its hands off a daemon that is down.
LEMMA ValidKept ==
  ASSUME OnlyValid, mode' = "down" => mode = "down" /\ UNCHANGED store,
         \A d \in Dummies : net'[d] \in {net[d], NoNet},
         \A h \in Handlers : pc'[h] \in CreateSteps =>
           want'[h] = want[h] /\ pc[h] \in CreateSteps
  PROVE  OnlyValid'
BY DEF OnlyValid

LEMMA ValidStep == IInv /\ OnlyValid /\ [Next]_vars => OnlyValid'
<1> SUFFICES ASSUME IInv, OnlyValid, [Next]_vars PROVE OnlyValid'
  OBVIOUS
<1>0. TypeOK /\ StepTypes /\ (mode = "down" => \A t \in Tasks : pc[t] = "idle")
  BY DEF IInv, LockDiscipline
<1>t. \A h \in Handlers : h \in Tasks
  BY DEF Tasks
<1>1. ASSUME NEW h \in Handlers, NEW n \in Nets, BeginCreate(h, n) PROVE OnlyValid'
  <2>1. /\ want'[h] = n /\ ValidNetwork(n)
        /\ \A g \in Handlers \ {h} : pc'[g] = pc[g] /\ want'[g] = want[g]
        /\ UNCHANGED <<net, mode>> /\ mode # "down"
    BY <1>0, <1>1, <1>t DEF TypeOK, BeginCreate, kernel
  <2> QED
    BY <2>1 DEF OnlyValid
<1>2. ASSUME NEW h \in Handlers, AddrAdd(h) PROVE OnlyValid'
  <2>1. /\ mode # "down" /\ UNCHANGED mode /\ pc[h] \in CreateSteps
        /\ \A g \in Handlers : pc'[g] \in CreateSteps =>
             pc[g] \in CreateSteps /\ want'[g] = want[g]
        /\ \A d \in Dummies : net'[d] \in {net[d], want[h]}
    BY <1>0, <1>2, <1>t DEF TypeOK, AddrAdd, Goto, Answer, CreateSteps
  <2> QED
    BY <2>1 DEF OnlyValid
<1>3. ASSUME NEW h \in Handlers,
             \/ Probe(h) \/ LinkAdd(h) \/ LinkUp(h) \/ Insert(h) \/ TakeEntry(h)
             \/ Disconnect(h) \/ \E k \in Keys : BeginDelete(h, k)
      PROVE  OnlyValid'
  <2>1. mode # "down" /\ UNCHANGED <<mode, net>>
    BY <1>0, <1>3, <1>t DEF Probe, LinkAdd, LinkUp, Insert, TakeEntry, Disconnect,
       BeginDelete, kernel
  <2>2. \A g \in Handlers : pc'[g] \in CreateSteps =>
          want'[g] = want[g] /\ pc[g] \in CreateSteps
    BY <1>0, <1>3, <1>t DEF TypeOK, Probe, LinkAdd, LinkUp, Insert, TakeEntry, Disconnect,
       BeginDelete, Goto, Answer, CreateSteps
  <2> QED
    BY <2>1, <2>2, ValidKept
<1>4. ASSUME NEW t \in Tasks, Remove(t) PROVE OnlyValid'
  <2>1. mode # "down" /\ UNCHANGED mode
    BY <1>0, <1>4 DEF Remove, AddrDel, LinkDel
  <2>2. \A d \in Dummies : net'[d] \in {net[d], NoNet}
    BY <1>0, <1>4 DEF TypeOK, Remove, AddrDel, LinkDel
  <2>3. \A g \in Handlers : pc'[g] \in CreateSteps =>
          want'[g] = want[g] /\ pc[g] \in CreateSteps
    BY <1>0, <1>4, <1>t DEF TypeOK, Remove, AddrDel, LinkDel, Goto, EndRemove, CreateSteps
  <2> QED
    BY <2>1, <2>2, <2>3, ValidKept
<1>5. CASE Sigterm \/ Sweep
  <2>1. mode # "down" /\ UNCHANGED <<mode, net>>
    <3>1. Shutdown \in Tasks
      BY DEF Tasks
    <3> QED
      BY <1>0, <1>5, <3>1 DEF Sigterm, Sweep, SweepBegin, SweepNext, SweepEnd, kernel
  <2>2. \A g \in Handlers : pc'[g] = pc[g] /\ want'[g] = want[g]
    BY <1>0, <1>5, <1>t, DaemonAssumption
    DEF TypeOK, Sigterm, Sweep, SweepBegin, SweepNext, SweepEnd, Goto
  <2> QED
    BY <2>1, <2>2, ValidKept
<1>6. CASE Exit \/ Crash
  <2>1. Die
    BY <1>6 DEF Exit, Crash
  <2>2. /\ UNCHANGED net /\ \A k \in Keys : store'[k] = NoIface
        /\ \A g \in Handlers : pc'[g] = "idle"
    BY <1>t, <2>1 DEF Die, kernel
  <2> QED
    BY <2>2 DEF OnlyValid, CreateSteps
<1>7. CASE \/ Start \/ Drain \/ (\E f \in Foreign : ForeignUp(f) \/ ForeignDown(f))
           \/ UNCHANGED vars
  <2>1. /\ UNCHANGED <<net, pc, want>>
        /\ mode' # "down" \/ UNCHANGED <<mode, store>>
    BY <1>7 DEF Start, Drain, ForeignUp, ForeignDown, vars, kernel, task
  <2> QED
    BY <2>1, ValidKept
<1> QED
  BY <1>1, <1>2, <1>3, <1>4, <1>5, <1>6, <1>7 DEF Next, Request, Create

\* An interface stays accounted for by the entries and tasks that keep it.
LEMMA StaysAccounted ==
  ASSUME NEW d, Accounted(d), misread' \subseteq misread,
         \A k \in Keys \ misread : store'[k] = store[k],
         \A h \in Handlers : Owns(h) /\ dev[h] = d => Owns(h)' /\ dev'[h] = d,
         \A t \in Tasks : pc[t] \in RemoveSteps /\ want[t] \notin misread /\ dev[t] = d =>
           pc'[t] \in RemoveSteps /\ want'[t] = want[t] /\ dev'[t] = d
  PROVE  Accounted(d)'
BY DEF Accounted

\* Where an entry is replaced, two interfaces have the network of its key.
LEMMA InsertCollides ==
  ASSUME IInv, Sound, NEW h \in Handlers, Insert(h),
         NEW d \in links, Accounted(d), ~ Accounted(d)'
  PROVE  \E e \in links \ {d} : net[e] = net[d]
<1>0. /\ TypeOK /\ StepTypes /\ LockDiscipline /\ StoreBacked /\ CreatorOwnsLink
      /\ h \in Tasks /\ Shutdown \in Tasks /\ Shutdown # h
  BY DaemonAssumption DEF IInv, Sound, Tasks
<1>1. /\ want[h] \in Nets /\ want[h] \in Keys
      /\ dev[h] \in links /\ net[dev[h]] = want[h]
  BY <1>0 DEF Insert, StepTypes, CreateSteps, CreatorOwnsLink, CreatorLink, Owns, Keys
<1>2. /\ store'[want[h]] = dev[h] /\ misread' = misread \ {want[h]}
      /\ \A k \in Keys \ {want[h]} : store'[k] = store[k]
      /\ \A t \in Tasks \ {h} : pc'[t] = pc[t] /\ want'[t] = want[t] /\ dev'[t] = dev[t]
      /\ pc[h] = "insert"
  BY <1>0, <1>1 DEF TypeOK, Insert, Answer
<1>3. d # dev[h]
  BY <1>1, <1>2 DEF Accounted
<1>4. store[want[h]] = d /\ want[h] \notin misread
  <2>1. \A g \in Handlers : ~ (Owns(g) /\ dev[g] = d)
    BY <1>0, <1>2, <1>3 DEF Accounted, Owns, Tasks
  <2>2. \A t \in Tasks : ~ (pc[t] \in RemoveSteps /\ want[t] \notin misread /\ dev[t] = d)
    BY <1>2, <1>3 DEF Accounted
  <2>3. PICK k \in Keys \ misread : store[k] = d
    BY <2>1, <2>2 DEF Accounted
  <2> QED
    BY <1>2, <2>3 DEF Accounted
<1>5. Pending(want[h])
  <2>1. d # NoIface
    BY <1>0, DaemonAssumption DEF TypeOK, Dummies
  <2>2. pc[Shutdown] \in {"idle", "sweepLock"}
    BY <1>0, DaemonAssumption DEF LockDiscipline, Insert, StepTypes, Swept, Sound
  <2> QED
    BY <1>4, <2>1, <2>2 DEF Pending
<1>6. net[d] = want[h]
  BY <1>0, <1>1, <1>4, <1>5 DEF StoreBacked, EntryBacked, Sound
<1> QED
  BY <1>1, <1>3, <1>6

(***************************************************************************)
(* When no command fails and no client leaves, a configured interface is   *)
(* lost from the daemon's sight only where two create requests raced for   *)
(* one network. The entries that detect_existing_subnets makes of other    *)
(* programs' interfaces count for nothing here: they come and go and hide  *)
(* no interface of the daemon's own.                                       *)
(***************************************************************************)
THEOREM LeaksAreCollisions ==
  ASSUME Faults = {}
  PROVE  Spec => LeakOnlyByCollision
<1> DEFINE Collides == Sound /\ mode' # "down" =>
             \A d \in links \cap links' :
               Accounted(d) /\ ~ Accounted(d)' => \E e \in links \ {d} : net[e] = net[d]
<1>1. ASSUME IInv, OnlyValid, [Next]_vars PROVE [Collides]_vars
  <2> SUFFICES ASSUME Sound, mode' # "down", Next,
                      NEW d \in links, d \in links', Accounted(d), ~ Accounted(d)'
               PROVE  \E e \in links \ {d} : net[e] = net[d]
    BY <1>1
  <2>0. /\ TypeOK /\ StepTypes /\ CreatorOwnsLink /\ RemoverOwnsLink
        /\ (mode = "down" => \A t \in Tasks : pc[t] = "idle")
    BY <1>1 DEF IInv, LockDiscipline
  <2>t. \A h \in Handlers : h \in Tasks
    BY DEF Tasks
  <2>1. ASSUME NEW h \in Handlers,
               Request(h) \/ Probe(h) \/ LinkAdd(h) \/ AddrAdd(h) \/ LinkUp(h)
        PROVE  FALSE
    <3>1. UNCHANGED <<store, misread>>
      BY <2>1 DEF Request, BeginCreate, BeginDelete, Probe, LinkAdd, AddrAdd, LinkUp, history
    <3>2. \A t \in Tasks \ {h} : pc'[t] = pc[t] /\ want'[t] = want[t] /\ dev'[t] = dev[t]
      BY <2>0, <2>1, <2>t DEF TypeOK, Request, BeginCreate, BeginDelete, Probe, LinkAdd,
         AddrAdd, LinkUp, Goto, Answer
    <3>3. CASE Request(h) \/ Probe(h) \/ LinkAdd(h)
      <4>1. ~ Owns(h) /\ pc[h] \notin RemoveSteps
        BY <3>3 DEF Request, BeginCreate, BeginDelete, Probe, LinkAdd, RemoveSteps, Owns
      <4> QED
        BY <2>t, <3>1, <3>2, <4>1, StaysAccounted DEF Owns
    <3>4. CASE AddrAdd(h) \/ LinkUp(h)
      <4>1. dev[h] \in links
        BY <2>0, <3>4 DEF AddrAdd, LinkUp, CreatorOwnsLink, CreatorLink, Owns
      <4>2. Owns(h)' /\ dev'[h] = dev[h] /\ pc[h] \notin RemoveSteps
        BY <2>0, <2>t, <3>4, <4>1
        DEF TypeOK, AddrAdd, LinkUp, Goto, CommandMayFail, Owns, RemoveSteps
      <4> QED
        BY <2>t, <3>1, <3>2, <4>2, StaysAccounted DEF Owns
    <3> QED
      BY <2>1, <3>3, <3>4
  <2>2. ASSUME NEW h \in Handlers, Insert(h) PROVE \E e \in links \ {d} : net[e] = net[d]
    BY <1>1, <2>2, InsertCollides
  <2>3. ASSUME NEW h \in Handlers, TakeEntry(h) PROVE FALSE
    <3>1. /\ pc[h] = "delLock" /\ want[h] \in Keys /\ UNCHANGED misread
          /\ \A t \in Tasks \ {h} : pc'[t] = pc[t] /\ want'[t] = want[t] /\ dev'[t] = dev[t]
          /\ \A k \in Keys \ {want[h]} : store'[k] = store[k]
          /\ \/ store'[want[h]] = store[want[h]]
             \/ dev'[h] = store[want[h]] /\ pc'[h] = "addrDel" /\ want'[h] = want[h]
      BY <2>0, <2>3, <2>t DEF TypeOK, StepTypes, TakeEntry, Answer, history
    <3>2. ~ \E g \in Handlers : Owns(g) /\ dev[g] = d
      BY <2>t, <3>1 DEF Accounted, Owns
    <3>3. ~ \E t \in Tasks : pc[t] \in RemoveSteps /\ want[t] \notin misread /\ dev[t] = d
      BY <3>1 DEF Accounted, RemoveSteps
    <3>4. PICK k \in Keys \ misread : store[k] = d
      BY <3>2, <3>3 DEF Accounted
    <3> QED
      BY <2>t, <3>1, <3>4 DEF Accounted, RemoveSteps
  <2>4. ASSUME NEW h \in Handlers, Disconnect(h) PROVE FALSE
    BY <2>4 DEF Disconnect
  <2>5. ASSUME NEW t \in Tasks, AddrDel(t) PROVE FALSE
    <3>1. /\ UNCHANGED <<store, misread>> /\ pc[t] = "addrDel"
          /\ \A u \in Tasks \ {t} : pc'[u] = pc[u] /\ want'[u] = want[u] /\ dev'[u] = dev[u]
      BY <2>0, <2>5 DEF TypeOK, AddrDel, Goto, EndRemove
    <3>2. CASE want[t] \in misread
      BY <2>t, <3>1, <3>2, StaysAccounted DEF Owns
    <3>3. CASE want[t] \notin misread
      <4>1. HasAddress(t) /\ dev[t] \in Dummies /\ want[t] # NoNet
        BY <2>0, <3>1, <3>3, DaemonAssumption
        DEF StepTypes, RemoveSteps, RemoverOwnsLink, RemoverLink, HasAddress, TypeOK
      <4>2. ValidNetwork(want[t])
        BY <1>1, <4>1 DEF OnlyValid, HasAddress
      <4>3. pc'[t] = "linkDel" /\ want'[t] = want[t] /\ dev'[t] = dev[t]
        BY <2>0, <2>5, <4>1, <4>2 DEF TypeOK, AddrDel, CommandMayFail, Goto
      <4> QED
        BY <2>t, <3>1, <4>3, StaysAccounted DEF RemoveSteps, Owns
    <3> QED
      BY <3>2, <3>3
  <2>6. ASSUME NEW t \in Tasks, LinkDel(t) PROVE FALSE
    <3>1. dev[t] # d
      BY <2>6 DEF LinkDel, CommandMayFail
    <3>2. /\ UNCHANGED <<store, misread>>
          /\ \A u \in Tasks \ {t} : pc'[u] = pc[u] /\ want'[u] = want[u] /\ dev'[u] = dev[u]
      BY <2>0, <2>6 DEF TypeOK, LinkDel, EndRemove, history
    <3> QED
      BY <2>t, <3>1, <3>2, StaysAccounted DEF Owns
  <2>7. CASE Sigterm \/ Sweep
    <3>1. /\ UNCHANGED <<store, misread>>
          /\ \A t \in Tasks \ {Shutdown} :
               pc'[t] = pc[t] /\ want'[t] = want[t] /\ dev'[t] = dev[t]
          /\ pc[Shutdown] \in {"idle", "sweepLock", "sweep"}
      BY <2>0, <2>7
      DEF TypeOK, Sigterm, Sweep, SweepBegin, SweepNext, SweepEnd, Goto, history
    <3> QED
      BY <2>t, <3>1, StaysAccounted, DaemonAssumption DEF RemoveSteps, Owns
  <2>8. CASE Drain \/ \E f \in Foreign : ForeignUp(f) \/ ForeignDown(f)
    BY <2>8, StaysAccounted DEF Drain, ForeignUp, ForeignDown, task, history, Owns
  <2>9. ~ Exit /\ ~ Crash
    BY DEF Exit, Crash, Die
  <2>10. CASE Start
    <3>1. \A k \in Keys : store[k] = NoIface
      BY <1>1, <2>10 DEF Start, OnlyValid
    <3>2. d # NoIface
      BY <2>0, DaemonAssumption DEF TypeOK, Dummies
    <3> QED
      BY <2>0, <2>t, <2>10, <3>1, <3>2 DEF Start, Accounted, RemoveSteps, Owns
  <2> QED
    BY <2>1, <2>2, <2>3, <2>4, <2>5, <2>6, <2>7, <2>8, <2>9, <2>10 DEF Next, Create, Remove
<1>2. Init => OnlyValid
  BY DEF Init, OnlyValid, CreateSteps, Tasks
<1> QED
  BY <1>1, <1>2, ValidStep, Inductive, PTL DEF Spec, LeakOnlyByCollision
=============================================================================
