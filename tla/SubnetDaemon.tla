--------------------------- MODULE SubnetDaemon ---------------------------
(***************************************************************************)
(* The subnet daemon on Linux: the axum server of                          *)
(* network/bin/subnet_daemon.rs, its store of subnets behind a tokio       *)
(* Mutex, the shutdown task, and the kernel's interfaces that both change  *)
(* by running the `ip` command (network/src/subnet_interface.rs).          *)
(*                                                                         *)
(* A request runs in a handler of its own. Every `ip` command is a step,   *)
(* and so is every time the mutex is taken; between two steps any other    *)
(* task may run. create_subnet configures the interface before it takes    *)
(* the mutex; remove_subnet_handler and the shutdown task hold the mutex   *)
(* while they run their commands.                                          *)
(***************************************************************************)
EXTENDS Ipv4Nets

CONSTANTS Handlers,    \* requests that can be in progress at a time
          Shutdown,    \* the task that sweeps the store at SIGTERM
          MaxDummy,    \* the code tries dummy0 .. dummy254
          Nets,        \* the networks clients ask for
          Foreign,     \* interfaces of other programs, TUN devices among them
          ForeignNet,  \* the network each of them has, a client's perhaps
          LabelShown,  \* `ip addr show` ends an inet line with the interface's name
          Faults,      \* what may go wrong, see below
          NoNet, NoIface, NoTask,
          CidrText     \* an "interface" that is the text of an address

Dummies == 0 .. MaxDummy - 1

Tasks == Handlers \cup {Shutdown}

\* The keys of the store are the CIDR texts of requests and of detected lines.
Keys == Nets \cup {ForeignNet[f] : f \in Foreign}

Ifaces == Dummies \cup {CidrText}

ASSUME DaemonAssumption ==
  /\ MaxDummy \in Nat \ {0}
  /\ Shutdown \notin Handlers
  /\ NoTask \notin Tasks
  /\ Nets \subseteq Net
  /\ ForeignNet \in [Foreign -> Net]
  /\ NoNet \notin Keys
  /\ NoIface \notin Nat /\ CidrText \notin Nat /\ NoIface # CidrText
  /\ LabelShown \in BOOLEAN
  /\ Faults \subseteq {"command",      \* an `ip` command fails and changes nothing
                       "disconnect",   \* a client goes away before its answer
                       "crash"}        \* the daemon is killed

VARIABLES
  (* The kernel, which outlives the daemon. *)
  links,     \* the dummy interfaces that exist
  net,       \* the network whose address a dummy interface has
  up,        \* the dummy interfaces that are up
  foreign,   \* the interfaces of other programs that exist
  (* The daemon. *)
  mode,      \* the server: "down", "serving", or "draining" after the sweep
  store,     \* SubnetStore: CIDR -> interface
  lock,      \* the task that holds the store's mutex
  pc,        \* what each task does next
  want,      \* the network a task works on
  dev,       \* the interface a task works on
  todo,      \* the subnets the sweep has not reached
  (* History: what properties look at, and no action. *)
  misread,   \* keys detected on an interface that does not have the network
  astray     \* a removal met, under a misread key's name, that very network

kernel == <<links, net, up, foreign>>

task == <<pc, want, dev>>

history == <<misread, astray>>

vars == <<kernel, mode, store, lock, task, todo, history>>

CreateSteps == {"probe", "linkAdd", "addrAdd", "linkUp", "insert"}

RemoveSteps == {"addrDel", "linkDel"}

TypeOK ==
  /\ links \subseteq Dummies
  /\ net \in [Dummies -> Nets \cup {NoNet}]
  /\ \A d \in Dummies \ links : net[d] = NoNet
  /\ up \subseteq links
  /\ foreign \subseteq Foreign
  /\ mode \in {"down", "serving", "draining"}
  /\ store \in [Keys -> Ifaces \cup {NoIface}]
  /\ lock \in Tasks \cup {NoTask}
  /\ pc \in [Tasks -> {"idle", "delLock", "sweepLock", "sweep", "done"}
                        \cup CreateSteps \cup RemoveSteps]
  /\ want \in [Tasks -> Keys \cup {NoNet}]
  /\ dev \in [Tasks -> 0 .. MaxDummy \cup {CidrText, NoIface}]
  /\ todo \subseteq Keys
  /\ misread \subseteq Keys
  /\ astray \in BOOLEAN
-----------------------------------------------------------------------------
(***************************************************************************)
(* default_net::get_interfaces: the addresses of every interface.          *)
(***************************************************************************)
Addresses == {net[d].addr : d \in {e \in links : net[e] # NoNet}}
               \cup {ForeignNet[f].addr : f \in foreign}

CommandMayFail == "command" \in Faults

\* Task t does s next, with its network and interface as they are.
Goto(t, s) == pc' = [pc EXCEPT ![t] = s] /\ UNCHANGED <<want, dev>>

\* Handler h answers, with a subnet or an error, and is free for a request.
Answer(h) ==
  /\ pc' = [pc EXCEPT ![h] = "idle"]
  /\ want' = [want EXCEPT ![h] = NoNet]
  /\ dev' = [dev EXCEPT ![h] = NoIface]
-----------------------------------------------------------------------------
\* Mutant: configure_subnet does not look whether the network is in use.
BeginCreateUnasked(h, n) ==
  /\ mode = "serving" /\ pc[h] = "idle" /\ ValidNetwork(n)
  /\ pc' = [pc EXCEPT ![h] = "probe"]
  /\ want' = [want EXCEPT ![h] = n]
  /\ dev' = [dev EXCEPT ![h] = 0]
  /\ UNCHANGED <<kernel, mode, store, lock, todo, history>>

(***************************************************************************)
(* POST /subnet: create_subnet, configure_subnet. A request refused at     *)
(* once, for its network or because it is in use, changes nothing and is   *)
(* not a step.                                                             *)
(***************************************************************************)
BeginCreate(h, n) ==
  /\ mode = "serving" /\ pc[h] = "idle"
  /\ ValidNetwork(n) /\ Available(n, Addresses)
  /\ pc' = [pc EXCEPT ![h] = "probe"]
  /\ want' = [want EXCEPT ![h] = n]
  /\ dev' = [dev EXCEPT ![h] = 0]
  /\ UNCHANGED <<kernel, mode, store, lock, todo, history>>

\* Mutant: the loop tries one name more than there are.
ProbeOneMore(h) ==
  /\ pc[h] = "probe"
  /\ \/ dev[h] > MaxDummy /\ Answer(h)
     \/ dev[h] \in links /\ dev' = [dev EXCEPT ![h] = @ + 1] /\ UNCHANGED <<pc, want>>
     \/ dev[h] \notin links /\ dev[h] <= MaxDummy /\ Goto(h, "linkAdd")
  /\ UNCHANGED <<kernel, mode, store, lock, todo, history>>

\* `ip link show dummyN`, for N = 0, 1, ... until it fails.
Probe(h) ==
  /\ pc[h] = "probe"
  /\ \/ /\ dev[h] = MaxDummy \/ CommandMayFail
        /\ Answer(h)
     \/ /\ dev[h] < MaxDummy
        /\ dev[h] \in links
        /\ dev' = [dev EXCEPT ![h] = @ + 1]
        /\ UNCHANGED <<pc, want>>
     \/ /\ dev[h] < MaxDummy
        /\ dev[h] \notin links \/ CommandMayFail
        /\ Goto(h, "linkAdd")
  /\ UNCHANGED <<kernel, mode, store, lock, todo, history>>

\* Mutant: the exit status of `ip link add` is not looked at.
LinkAddUnchecked(h) ==
  /\ pc[h] = "linkAdd"
  /\ links' = links \cup {dev[h]}
  /\ Goto(h, "addrAdd")
  /\ UNCHANGED <<net, up, foreign, mode, store, lock, todo, history>>

\* `ip link add dummyN type dummy`, refused when the name is taken.
LinkAdd(h) ==
  /\ pc[h] = "linkAdd"
  /\ \/ /\ dev[h] \notin links
        /\ links' = links \cup {dev[h]}
        /\ Goto(h, "addrAdd")
     \/ /\ dev[h] \in links \/ CommandMayFail
        /\ Answer(h)
        /\ UNCHANGED links
  /\ UNCHANGED <<net, up, foreign, mode, store, lock, todo, history>>

\* `ip addr add`. After an error the interface stays: nothing is rolled back.
AddrAdd(h) ==
  /\ pc[h] = "addrAdd"
  /\ \/ /\ dev[h] \in links
        /\ net' = [net EXCEPT ![dev[h]] = want[h]]
        /\ Goto(h, "linkUp")
     \/ /\ dev[h] \notin links \/ CommandMayFail
        /\ Answer(h)
        /\ UNCHANGED net
  /\ UNCHANGED <<links, up, foreign, mode, store, lock, todo, history>>

\* `ip link set dummyN up`.
LinkUp(h) ==
  /\ pc[h] = "linkUp"
  /\ \/ /\ dev[h] \in links
        /\ up' = up \cup {dev[h]}
        /\ Goto(h, "insert")
     \/ /\ dev[h] \notin links \/ CommandMayFail
        /\ Answer(h)
        /\ UNCHANGED up
  /\ UNCHANGED <<links, net, foreign, mode, store, lock, todo, history>>

\* The mutex is taken, the subnet replaces what the store had under its CIDR.
Insert(h) ==
  /\ pc[h] = "insert" /\ lock = NoTask
  /\ store' = [store EXCEPT ![want[h]] = dev[h]]
  /\ Answer(h)
  /\ misread' = misread \ {want[h]}
  /\ UNCHANGED <<kernel, mode, lock, todo, astray>>

(***************************************************************************)
(* hyper drops the handler of a connection that its client closed. The     *)
(* handlers await only the mutex, so only there they can be dropped.       *)
(***************************************************************************)
Disconnect(h) ==
  /\ "disconnect" \in Faults
  /\ pc[h] \in {"insert", "delLock"}
  /\ Answer(h)
  /\ UNCHANGED <<kernel, mode, store, lock, todo, history>>
-----------------------------------------------------------------------------
(***************************************************************************)
(* DELETE /subnet/:cidr: remove_subnet_handler.                            *)
(***************************************************************************)
BeginDelete(h, k) ==
  /\ mode = "serving" /\ pc[h] = "idle"
  /\ pc' = [pc EXCEPT ![h] = "delLock"]
  /\ want' = [want EXCEPT ![h] = k]
  /\ UNCHANGED <<kernel, mode, store, lock, dev, todo, history>>

\* Mutant: the entry is looked up, not removed.
TakeEntryByGet(h) ==
  /\ pc[h] = "delLock" /\ lock = NoTask /\ store[want[h]] # NoIface
  /\ dev' = [dev EXCEPT ![h] = store[want[h]]]
  /\ pc' = [pc EXCEPT ![h] = "addrDel"]
  /\ lock' = h
  /\ UNCHANGED <<kernel, mode, store, want, todo, history>>

\* Mutant: the mutex is released before the commands run.
TakeEntryUnlocked(h) ==
  /\ pc[h] = "delLock" /\ lock = NoTask /\ store[want[h]] # NoIface
  /\ store' = [store EXCEPT ![want[h]] = NoIface]
  /\ dev' = [dev EXCEPT ![h] = store[want[h]]]
  /\ pc' = [pc EXCEPT ![h] = "addrDel"]
  /\ UNCHANGED <<kernel, mode, lock, want, todo, history>>

\* The entry leaves the store before any command has run.
TakeEntry(h) ==
  /\ pc[h] = "delLock" /\ lock = NoTask
  /\ \/ /\ store[want[h]] # NoIface
        /\ store' = [store EXCEPT ![want[h]] = NoIface]
        /\ dev' = [dev EXCEPT ![h] = store[want[h]]]
        /\ pc' = [pc EXCEPT ![h] = "addrDel"]
        /\ lock' = h
        /\ UNCHANGED want
     \/ /\ store[want[h]] = NoIface
        /\ Answer(h)
        /\ UNCHANGED <<store, lock>>
  /\ UNCHANGED <<kernel, mode, todo, history>>

\* Mutant: the error path of a removal keeps the mutex.
EndRemoveLocked(t) ==
  /\ pc' = [pc EXCEPT ![t] = IF t = Shutdown THEN "sweep" ELSE "idle"]
  /\ want' = [want EXCEPT ![t] = NoNet]
  /\ dev' = [dev EXCEPT ![t] = NoIface]
  /\ UNCHANGED lock

(***************************************************************************)
(* remove_subnet is over, for a handler or for the sweep, which goes on to *)
(* the next subnet whatever the outcome.                                   *)
(***************************************************************************)
EndRemove(t) ==
  /\ pc' = [pc EXCEPT ![t] = IF t = Shutdown THEN "sweep" ELSE "idle"]
  /\ want' = [want EXCEPT ![t] = NoNet]
  /\ dev' = [dev EXCEPT ![t] = NoIface]
  /\ lock' = IF t = Shutdown THEN lock ELSE NoTask

\* `ip addr del` works when that interface has that address.
HasAddress(t) == dev[t] \in links /\ net[dev[t]] = want[t]

\* Mutant: the exit status of `ip addr del` is not looked at.
AddrDelUnchecked(t) ==
  /\ pc[t] = "addrDel"
  /\ net' = IF HasAddress(t) THEN [net EXCEPT ![dev[t]] = NoNet] ELSE net
  /\ Goto(t, "linkDel")
  /\ UNCHANGED astray
  /\ UNCHANGED <<links, up, foreign, mode, store, lock, todo, misread>>

\* remove_subnet: the validation and `ip addr del`.
AddrDel(t) ==
  /\ pc[t] = "addrDel"
  /\ \/ /\ ValidNetwork(want[t]) /\ HasAddress(t)
        /\ net' = [net EXCEPT ![dev[t]] = NoNet]
        /\ astray' = (astray \/ want[t] \in misread)
        /\ Goto(t, "linkDel")
        /\ UNCHANGED lock
     \/ /\ ~ ValidNetwork(want[t]) \/ ~ HasAddress(t) \/ CommandMayFail
        /\ EndRemove(t)
        /\ UNCHANGED <<net, astray>>
  /\ UNCHANGED <<links, up, foreign, mode, store, todo, misread>>

\* Mutant: the interface is left when its address is gone.
LinkDelForgotten(t) ==
  pc[t] = "linkDel" /\ EndRemove(t) /\ UNCHANGED <<kernel, mode, store, todo, history>>

\* remove_subnet: `ip link del`, which takes any address along.
LinkDel(t) ==
  /\ pc[t] = "linkDel"
  /\ \/ /\ dev[t] \in links
        /\ links' = links \ {dev[t]}
        /\ net' = [net EXCEPT ![dev[t]] = NoNet]
        /\ up' = up \ {dev[t]}
     \/ /\ dev[t] \notin links \/ CommandMayFail
        /\ UNCHANGED <<links, net, up>>
  /\ EndRemove(t)
  /\ UNCHANGED <<foreign, mode, store, todo, history>>
-----------------------------------------------------------------------------
(***************************************************************************)
(* SIGTERM: the shutdown task takes the mutex, removes every subnet of the *)
(* store from the host and then tells the server to stop. It does not take *)
(* the entries out of the store, and the server accepts requests until it  *)
(* is told.                                                                *)
(***************************************************************************)
Sigterm ==
  /\ mode = "serving" /\ pc[Shutdown] = "idle"
  /\ Goto(Shutdown, "sweepLock")
  /\ UNCHANGED <<kernel, mode, store, lock, todo, history>>

SweepBegin ==
  /\ pc[Shutdown] = "sweepLock" /\ lock = NoTask
  /\ lock' = Shutdown
  /\ todo' = {k \in Keys : store[k] # NoIface}
  /\ Goto(Shutdown, "sweep")
  /\ UNCHANGED <<kernel, mode, store, history>>

\* The next subnet in the order of the hash map, which is any order.
SweepNext(k) ==
  /\ pc[Shutdown] = "sweep" /\ k \in todo
  /\ todo' = todo \ {k}
  /\ pc' = [pc EXCEPT ![Shutdown] = "addrDel"]
  /\ want' = [want EXCEPT ![Shutdown] = k]
  /\ dev' = [dev EXCEPT ![Shutdown] = store[k]]
  /\ UNCHANGED <<kernel, mode, store, lock, history>>

\* Mutant: the shutdown task ends without telling the server.
SweepEndSilent ==
  /\ pc[Shutdown] = "sweep" /\ todo = {}
  /\ lock' = NoTask
  /\ Goto(Shutdown, "idle")
  /\ UNCHANGED <<kernel, mode, store, todo, history>>

SweepEnd ==
  /\ pc[Shutdown] = "sweep" /\ todo = {}
  /\ lock' = NoTask
  /\ Goto(Shutdown, "done")
  /\ UNCHANGED <<kernel, mode, store, todo, history>>

\* with_graceful_shutdown: no new request, the ones in progress are finished.
Drain ==
  /\ mode = "serving" /\ pc[Shutdown] = "done"
  /\ mode' = "draining"
  /\ UNCHANGED <<kernel, store, lock, task, todo, history>>

\* The process is gone, and everything it kept in memory with it.
Die ==
  /\ mode' = "down"
  /\ store' = [k \in Keys |-> NoIface]
  /\ lock' = NoTask
  /\ pc' = [t \in Tasks |-> "idle"]
  /\ want' = [t \in Tasks |-> NoNet]
  /\ dev' = [t \in Tasks |-> NoIface]
  /\ todo' = {}
  /\ misread' = {} /\ astray' = FALSE
  /\ UNCHANGED kernel

Exit == mode = "draining" /\ (\A h \in Handlers : pc[h] = "idle") /\ Die

Crash == "crash" \in Faults /\ mode # "down" /\ Die
-----------------------------------------------------------------------------
(***************************************************************************)
(* detect_existing_subnets reads the lines of `ip addr show`. A line with  *)
(* "dummy" in it sets the current interface to its second word, and that   *)
(* is also done by the inet line of a dummy interface when it ends with    *)
(* the interface's name. Other interfaces do not reset it: their addresses *)
(* are put on the dummy interface listed last before them. The order of    *)
(* the list, by age, is not kept: any dummy interface may be that one, and *)
(* of several lines with one network any may be the last, which counts.    *)
(***************************************************************************)
CurrentAfter(d) == IF LabelShown /\ net[d] # NoNet THEN CidrText ELSE d

DetectedOn(k) ==
  LET carriers == {d \in links : ~ LabelShown /\ net[d] = k}
      strays   == IF \E f \in foreign : ForeignNet[f] = k
                  THEN {CurrentAfter(d) : d \in links}
                  ELSE {}
  IN  IF ~ Contains(Allowed, k.addr) THEN {NoIface}
      ELSE carriers \cup strays \cup (IF carriers = {} THEN {NoIface} ELSE {})

\* run_server: the store starts with what was detected, or empty on an error.
Start ==
  /\ mode = "down"
  /\ mode' = "serving"
  /\ store' \in {s \in [Keys -> Ifaces \cup {NoIface}] :
                   \/ \A k \in Keys : s[k] \in DetectedOn(k)
                   \/ CommandMayFail /\ \A k \in Keys : s[k] = NoIface}
  /\ misread' = {k \in Keys : store'[k] # NoIface
                                /\ ~ (store'[k] \in links /\ net[store'[k]] = k)}
  /\ UNCHANGED <<kernel, lock, task, todo, astray>>

ForeignUp(f) ==
  /\ f \notin foreign
  /\ foreign' = foreign \cup {f}
  /\ UNCHANGED <<links, net, up, mode, store, lock, task, todo, history>>

ForeignDown(f) ==
  /\ f \in foreign
  /\ foreign' = foreign \ {f}
  /\ UNCHANGED <<links, net, up, mode, store, lock, task, todo, history>>
-----------------------------------------------------------------------------
\* A host without dummy interfaces, and no daemon yet.
Init ==
  /\ links = {} /\ up = {} /\ foreign = {}
  /\ net = [d \in Dummies |-> NoNet]
  /\ mode = "down"
  /\ store = [k \in Keys |-> NoIface]
  /\ lock = NoTask
  /\ pc = [t \in Tasks |-> "idle"]
  /\ want = [t \in Tasks |-> NoNet]
  /\ dev = [t \in Tasks |-> NoIface]
  /\ todo = {}
  /\ misread = {} /\ astray = FALSE

Create(h) ==
  Probe(h) \/ LinkAdd(h) \/ AddrAdd(h) \/ LinkUp(h) \/ Insert(h)

Remove(t) == AddrDel(t) \/ LinkDel(t)

Request(h) ==
  (\E n \in Nets : BeginCreate(h, n)) \/ (\E k \in Keys : BeginDelete(h, k))

Sweep == SweepBegin \/ SweepEnd \/ \E k \in Keys : SweepNext(k)

Next ==
  \/ \E h \in Handlers : Request(h) \/ Create(h) \/ TakeEntry(h) \/ Disconnect(h)
  \/ \E t \in Tasks : Remove(t)
  \/ Sigterm \/ Sweep \/ Drain \/ Exit \/ Crash \/ Start
  \/ \E f \in Foreign : ForeignUp(f) \/ ForeignDown(f)

Spec == Init /\ [][Next]_vars

(***************************************************************************)
(* Every command ends, a task that can run is run, and tokio's Mutex is    *)
(* first come, first served: a task waiting for it gets it if it becomes   *)
(* free again and again. Nothing makes a client, a signal, another program *)
(* or systemd act.                                                         *)
(***************************************************************************)
Fairness ==
  /\ \A h \in Handlers :
       /\ WF_vars(Create(h))
       /\ SF_vars(Insert(h)) /\ SF_vars(TakeEntry(h))
  /\ \A t \in Tasks : WF_vars(Remove(t))
  /\ SF_vars(SweepBegin) /\ WF_vars(Sweep)
  /\ WF_vars(Drain) /\ WF_vars(Exit)

FairSpec == Spec /\ Fairness
-----------------------------------------------------------------------------
(***************************************************************************)
(* Safety.                                                                 *)
(***************************************************************************)
\* Task h is creating: it made the interface dev[h] and has not stored it yet.
Owns(h) == pc[h] \in {"addrAdd", "linkUp", "insert"}

(***************************************************************************)
(* An entry of a client's subnet that the daemon still has to act on:      *)
(* before a sweep every one, during a sweep the ones not reached. What is  *)
(* left in the store after that names interfaces that are gone. An entry   *)
(* that detection made of another interface's line is none of these.       *)
(***************************************************************************)
Pending(k) ==
  /\ store[k] # NoIface /\ k \notin misread
  /\ pc[Shutdown] \in {"idle", "sweepLock"} \/ k \in todo

EntryBacked(k) == store[k] \in links /\ net[store[k]] = k

(***************************************************************************)
(* What the store says of a client's subnet is so: its interface exists    *)
(* and has its address, although handlers change the host outside of the   *)
(* mutex, one at every command, and the store only later. A misread entry, *)
(* be it for a network that a client has too, spoils no other, unless its  *)
(* own removal has gone astray.                                            *)
(***************************************************************************)
StoreBacked == ~ astray => \A k \in Keys : Pending(k) => EntryBacked(k)

(***************************************************************************)
(* Two things put an interface that a request works on within reach of a   *)
(* removal. After the sweep the store names interfaces that are gone, and  *)
(* a DELETE of such an entry can reach a link made since then. And where   *)
(* `ip addr show` does not end a line with the interface's name, a misread *)
(* entry can come to name an interface with the very network it was read   *)
(* for, and lead a removal there. What follows holds without either.       *)
(***************************************************************************)
Swept == pc[Shutdown] = "done"

Sound == ~ Swept /\ ~ astray

(***************************************************************************)
(* With the lines that iproute2 prints, what detection read from another   *)
(* program's interface never leads a removal to `ip link del`, whatever    *)
(* networks other programs have and clients create and delete since.       *)
(***************************************************************************)
DetectionHarmless ==
  LabelShown => \A t \in Tasks : pc[t] = "linkDel" => want[t] \notin misread

(***************************************************************************)
(* Two requests in progress never configure one interface, although both   *)
(* found the same name free: `ip link add` decides.                        *)
(***************************************************************************)
OneCreatorPerInterface ==
  Sound => \A g, h \in Handlers : Owns(g) /\ Owns(h) /\ dev[g] = dev[h] => g = h

(***************************************************************************)
(* `ip link del` takes away only an interface whose address was removed    *)
(* before, also after the sweep and when a removal went astray: no subnet  *)
(* goes but the one the removal named. Without these it never takes one    *)
(* that a create request is still configuring.                             *)
(***************************************************************************)
DeletesOwnLinkOnly ==
  [][\A d \in links \ links' :
       /\ net[d] = NoNet
       /\ Sound => \A h \in Handlers : Owns(h) => dev[h] # d]_vars

(***************************************************************************)
(* An interface is accounted for: the store has it under the network it    *)
(* was made for or a task works on it. When nothing fails, it stops being  *)
(* accounted for, while it exists, only if a second interface has the same *)
(* network: two create requests passed is_subnet_available together, and   *)
(* the later one replaced the entry.                                       *)
(***************************************************************************)
Accounted(d) ==
  \/ \E k \in Keys \ misread : store[k] = d
  \/ \E h \in Handlers : Owns(h) /\ dev[h] = d
  \/ \E t \in Tasks : pc[t] \in RemoveSteps /\ want[t] \notin misread /\ dev[t] = d

LeakOnlyByCollision ==
  [][Sound /\ mode' # "down" =>
       \A d \in links \cap links' :
         Accounted(d) /\ ~ Accounted(d)' =>
           \E e \in links \ {d} : net[e] = net[d]]_vars

(***************************************************************************)
(* "Subnet {} is already in use": no two interfaces have the same network. *)
(***************************************************************************)
OneInterfacePerSubnet ==
  \A d, e \in links : net[d] # NoNet /\ net[d] = net[e] => d = e

(***************************************************************************)
(* "Detect and register existing subnets": a subnet that a dummy interface *)
(* has when the daemon starts is in its store.                             *)
(***************************************************************************)
StartRegisters ==
  [][mode = "down" /\ mode' = "serving" =>
       \A d \in links : net[d] # NoNet => store'[net[d]] # NoIface]_vars
-----------------------------------------------------------------------------
(***************************************************************************)
(* Liveness.                                                               *)
(***************************************************************************)
(***************************************************************************)
(* Every request is answered, also when the sweep holds the mutex while it *)
(* runs its commands.                                                      *)
(***************************************************************************)
RequestAnswered ==
  \A h \in Handlers : pc[h] # "idle" ~> pc[h] = "idle"

(***************************************************************************)
(* SIGTERM ends the daemon, although the server accepts requests during    *)
(* the sweep and finishes the ones in progress after it.                   *)
(***************************************************************************)
ShutdownCompletes == pc[Shutdown] = "sweepLock" ~> mode = "down"
=============================================================================
