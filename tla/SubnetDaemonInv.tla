-------------------------- MODULE SubnetDaemonInv --------------------------
(***************************************************************************)
(* The inductive invariant of the subnet daemon: what each task may rely   *)
(* on at each of its steps.                                                *)
(***************************************************************************)
EXTENDS SubnetDaemon

(***************************************************************************)
(* What a task works on at each step, and which task takes which steps.    *)
(***************************************************************************)
StepTypes ==
  /\ \A h \in Handlers :
       /\ pc[h] \in {"idle", "delLock"} \cup CreateSteps \cup RemoveSteps
       /\ pc[h] \in CreateSteps => want[h] \in Nets
       /\ pc[h] = "probe" => dev[h] \in 0 .. MaxDummy
       /\ pc[h] = "linkAdd" \/ Owns(h) => dev[h] \in Dummies
       /\ pc[h] = "delLock" => want[h] \in Keys
  /\ pc[Shutdown] \in {"idle", "sweepLock", "sweep", "done"} \cup RemoveSteps
  /\ \A t \in Tasks :
       pc[t] \in RemoveSteps => want[t] \in Keys /\ dev[t] \in Ifaces

(***************************************************************************)
(* Who holds the mutex, and what a process that is not there has left.     *)
(***************************************************************************)
LockDiscipline ==
  /\ \A h \in Handlers : pc[h] \in RemoveSteps <=> lock = h
  /\ pc[Shutdown] \in RemoveSteps \cup {"sweep"} <=> lock = Shutdown
  /\ \A k \in todo : lock = Shutdown /\ store[k] # NoIface
  /\ mode = "down" => \A t \in Tasks : pc[t] = "idle"

(***************************************************************************)
(* A create request works on a link of its own, which has no address yet   *)
(* at addrAdd and the request's after it, and which no entry names.        *)
(***************************************************************************)
CreatorLink(h) ==
  /\ dev[h] \in links
  /\ net[dev[h]] = IF pc[h] = "addrAdd" THEN NoNet ELSE want[h]
  /\ \A k \in Keys : Pending(k) => store[k] # dev[h]

CreatorOwnsLink == \A h \in Handlers : Owns(h) => CreatorLink(h)

(***************************************************************************)
(* A removal works on a link that no create request is configuring. Until  *)
(* `ip addr del` the link has the removal's network, of which the store    *)
(* has no entry left; after it the link has no address.                    *)
(***************************************************************************)
RemoverLink(t) ==
  /\ dev[t] \in links
  /\ pc[t] = "addrDel" => net[dev[t]] = want[t] /\ ~ Pending(want[t])
  /\ pc[t] = "linkDel" => net[dev[t]] = NoNet
  /\ \A h \in Handlers : Owns(h) => dev[h] # dev[t]

RemoverOwnsLink ==
  \A t \in Tasks :
    (pc[t] = "addrDel" /\ want[t] \notin misread) \/ pc[t] = "linkDel" => RemoverLink(t)

IInv ==
  /\ TypeOK
  /\ StepTypes
  /\ LockDiscipline
  /\ Sound => /\ StoreBacked
              /\ OneCreatorPerInterface
              /\ CreatorOwnsLink
              /\ RemoverOwnsLink

(***************************************************************************)
(* Between `ip link add` and `ip addr add`, and between `ip addr del` and  *)
(* `ip link del`, a link has no address, and no two tasks are there with   *)
(* one link: this needs neither the store nor what detection read.         *)
(***************************************************************************)
BareLinks ==
  /\ \A h \in Handlers :
       pc[h] = "addrAdd" =>
         /\ dev[h] \in links /\ net[dev[h]] = NoNet
         /\ \A t \in Tasks : pc[t] \in {"addrAdd", "linkDel"} /\ dev[t] = dev[h] => t = h
  /\ \A t \in Tasks : pc[t] = "linkDel" => dev[t] \in links /\ net[dev[t]] = NoNet

(***************************************************************************)
(* With the lines that iproute2 prints, a misread entry names the text of  *)
(* an address or a link that a failed request left without one. No task    *)
(* works on such a link, so it keeps having none.                          *)
(***************************************************************************)
Untouched(d) ==
  \/ d = CidrText
  \/ /\ d \in links /\ net[d] = NoNet
     /\ \A h \in Handlers : Owns(h) => dev[h] # d
     /\ \A t \in Tasks : pc[t] = "linkDel" => dev[t] # d

MisreadUntouched ==
  LabelShown =>
    /\ ~ astray
    /\ \A k \in misread : store[k] # NoIface => Untouched(store[k])
    /\ \A t \in Tasks :
         /\ pc[t] = "addrDel" /\ want[t] \in misread => Untouched(dev[t])
         /\ pc[t] = "linkDel" => want[t] \notin misread
=============================================================================
