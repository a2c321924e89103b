----------------------------- MODULE TunDaemon -----------------------------
(***************************************************************************)
(* TUN devices: the daemon of network/bin/tun_daemon.rs, of which          *)
(* network/bin/tun.rs is the same server in the foreground, with its store *)
(* behind a tokio Mutex; the program network/bin/tun_old.rs; the kernel.   *)
(*                                                                         *)
(* Both look for a free network 10.i.0.0/24, create a device and give it   *)
(* the network's first address. The device belongs to the file descriptor  *)
(* that created it: the kernel removes it when the descriptor is closed.   *)
(* The daemon closes it when create_tun_device returns, tun_old reads      *)
(* packets from it until it ends. Other interfaces, those of the subnet    *)
(* daemon among them, come and go with any networks.                       *)
(***************************************************************************)
EXTENDS Ipv4Nets

CONSTANTS Handlers,  \* requests that the daemon works on at a time
          OldRuns,   \* processes of tun_old
          Octet,     \* bits of an octet, 8
          Blocks,    \* the code tries 10.0.0 .. 10.255.0
          Names,     \* tun0, tun1, ... by their numbers
          OtherNets, \* networks that other interfaces have
          Faults,    \* what may go wrong: "device", "disconnect", "crash"
          NoName, NoBlock, NoDevice

Creators == Handlers \cup OldRuns

ASSUME TunAssumption ==
  /\ Octet \in Nat /\ Blocks \subseteq Nat /\ Names \subseteq Nat
  /\ OtherNets \subseteq Net
  /\ Handlers \cap OldRuns = {}
  /\ NoName \notin Nat /\ NoBlock \notin Nat
  /\ NoDevice \notin Blocks \cup {NoBlock}
  /\ Faults \subseteq {"device", "disconnect", "crash"}

VARIABLES
  device,   \* the kernel: per name, the block of its address, NoBlock or NoDevice
  others,   \* the networks of the host's other interfaces
  store,    \* DeviceStore: per name the block it was created with, or NoDevice
  pc, name, block   \* per request and process

request == <<pc, name, block>>

vars == <<device, others, store, request>>

TypeOK ==
  /\ device \in [Names -> Blocks \cup {NoBlock, NoDevice}]
  /\ others \subseteq OtherNets
  /\ store \in [Names -> Blocks \cup {NoDevice}]
  /\ pc \in [Creators -> {"idle", "open", "configure", "open fd", "insert"}]
  /\ name \in [Creators -> Names \cup {NoName}]
  /\ block \in [Creators -> Blocks \cup {NoBlock}]

\* Request or process c goes on with step s.
Goto(c, s) == pc' = [pc EXCEPT ![c] = s]

\* A request answers, with a device or an error; a process ends.
Answer(c) ==
  /\ Goto(c, "idle")
  /\ name' = [name EXCEPT ![c] = NoName]
  /\ block' = [block EXCEPT ![c] = NoBlock]
-----------------------------------------------------------------------------
\* 10.i.0.1/24.
TunNet(i) ==
  [addr |-> First(Allowed) + i * 2^(2 * Octet) + 1, len |-> Width - Octet]

ASSUME BlocksAssumption == \A i \in Blocks : TunNet(i) \in Net

DeviceNets == {TunNet(device[n]) : n \in {m \in Names : device[m] \in Blocks}}

\* Mutant: a device's own network is looked for, not any address in it.
InUseSame == {i \in Blocks : TunNet(i) \in others \cup DeviceNets}

(***************************************************************************)
(* find_available_subnet: the text of an address begins with "10.i.0" when *)
(* it is in 10.i.0.0/24, so that is what is in use.                        *)
(***************************************************************************)
InUse == {i \in Blocks : \E n \in others \cup DeviceNets : Contains(TunNet(i), n.addr)}

Available24 == Blocks \ InUse

Least(S) == {x \in S : \A y \in S : x <= y}

(***************************************************************************)
(* POST /tun, with a name or NoName; or tun_old starts. When no block is   *)
(* free that is an error at once and not a step.                           *)
(***************************************************************************)
BeginCreate(c, n) ==
  /\ pc[c] = "idle" /\ Goto(c, "open")
  /\ name' = [name EXCEPT ![c] = n]
  /\ \E i \in Least(Available24) : block' = [block EXCEPT ![c] = i]
  /\ UNCHANGED <<device, others, store>>

StartOld(c) == c \in OldRuns /\ BeginCreate(c, NoName)

(***************************************************************************)
(* tun::create_as_async opens the device: the kernel takes the name asked  *)
(* for unless another descriptor has it, or the first free number.         *)
(***************************************************************************)
FreeNames == {n \in Names : device[n] = NoDevice}

\* Mutant: a name that another descriptor has is shared.
OpenShared(c) ==
  /\ pc[c] = "open"
  /\ \E n \in Names :
       /\ name[c] \in {n, NoName}
       /\ device' = [device EXCEPT ![n] = NoBlock]
       /\ name' = [name EXCEPT ![c] = n]
  /\ Goto(c, "configure")
  /\ UNCHANGED <<others, store, block>>

Open(c) ==
  /\ pc[c] = "open"
  /\ \/ \E n \in IF name[c] = NoName THEN Least(FreeNames) ELSE FreeNames \cap {name[c]} :
          /\ device' = [device EXCEPT ![n] = NoBlock]
          /\ name' = [name EXCEPT ![c] = n]
          /\ Goto(c, "configure")
          /\ UNCHANGED block
     \/ /\ FreeNames = {} \/ name[c] \in Names \ FreeNames \/ "device" \in Faults
        /\ Answer(c)
        /\ UNCHANGED device
  /\ UNCHANGED <<others, store>>

\* It sets the address and brings the device up; an error closes it again.
Configure(c) ==
  /\ pc[c] = "configure"
  /\ \/ /\ device' = [device EXCEPT ![name[c]] = block[c]]
        /\ Goto(c, "open fd")
        /\ UNCHANGED <<name, block>>
     \/ /\ "device" \in Faults
        /\ device' = [device EXCEPT ![name[c]] = NoDevice]
        /\ Answer(c)
  /\ UNCHANGED <<others, store>>

\* create_tun_device returns what the device was; `dev` is closed.
Drop(h) ==
  /\ h \in Handlers /\ pc[h] = "open fd"
  /\ device' = [device EXCEPT ![name[h]] = NoDevice]
  /\ Goto(h, "insert")
  /\ UNCHANGED <<others, store, name, block>>

\* Mutant: what goes into the store is read from the kernel afterwards.
InsertFromKernel(h) ==
  /\ pc[h] = "insert"
  /\ store' = [store EXCEPT ![name[h]] = device[name[h]]]
  /\ Answer(h)
  /\ UNCHANGED <<device, others>>

\* create_tun puts the device into the store, over one of the same name.
Insert(h) ==
  /\ pc[h] = "insert"
  /\ store' = [store EXCEPT ![name[h]] = block[h]]
  /\ Answer(h)
  /\ UNCHANGED <<device, others>>

\* The client is gone: its handler is dropped where it awaits the mutex.
Disconnect(h) ==
  /\ "disconnect" \in Faults
  /\ pc[h] = "insert"
  /\ Answer(h)
  /\ UNCHANGED <<device, others, store>>

\* The names of the devices that some of the creators C have open.
OpenBy(C) == {name[c] : c \in {d \in C : pc[d] \in {"configure", "open fd"}}}

(***************************************************************************)
(* The daemon's process ends, its descriptors are closed, and systemd      *)
(* starts it again with an empty store: run_server detects nothing.        *)
(***************************************************************************)
Restart ==
  /\ "crash" \in Faults
  /\ device' = [n \in Names |-> IF n \in OpenBy(Handlers) THEN NoDevice ELSE device[n]]
  /\ store' = [n \in Names |-> NoDevice]
  /\ pc' = [c \in Creators |-> IF c \in Handlers THEN "idle" ELSE pc[c]]
  /\ name' = [c \in Creators |-> IF c \in Handlers THEN NoName ELSE name[c]]
  /\ block' = [c \in Creators |-> IF c \in Handlers THEN NoBlock ELSE block[c]]
  /\ UNCHANGED others

\* tun_old reads packets until it is stopped, at any point.
StopOld(c) ==
  /\ c \in OldRuns /\ pc[c] # "idle"
  /\ device' = [n \in Names |-> IF n \in OpenBy({c}) THEN NoDevice ELSE device[n]]
  /\ Answer(c)
  /\ UNCHANGED <<others, store>>

\* Another program, the subnet daemon among them, adds or removes an interface.
OthersChange(n) ==
  /\ others' = IF n \in others THEN others \ {n} ELSE others \cup {n}
  /\ UNCHANGED <<device, store, request>>

Init ==
  /\ device = [n \in Names |-> NoDevice]
  /\ others = {}
  /\ store = [n \in Names |-> NoDevice]
  /\ pc = [c \in Creators |-> "idle"]
  /\ name = [c \in Creators |-> NoName]
  /\ block = [c \in Creators |-> NoBlock]

Create(c) == Open(c) \/ Configure(c) \/ Drop(c) \/ Insert(c)

Next ==
  \/ \E h \in Handlers :
       (\E n \in Names \cup {NoName} : BeginCreate(h, n)) \/ Disconnect(h)
  \/ \E c \in Creators : Create(c) \/ StartOld(c) \/ StopOld(c)
  \/ Restart
  \/ \E n \in OtherNets : OthersChange(n)

Spec == Init /\ [][Next]_vars
-----------------------------------------------------------------------------
(***************************************************************************)
(* Of the requests and processes exactly one has each device that exists   *)
(* open: no device outlives it, no two configure one, and a restart of the *)
(* daemon takes none away from tun_old.                                    *)
(***************************************************************************)
Holders(n) == {c \in Creators : pc[c] \in {"configure", "open fd"} /\ name[c] = n}

EveryDeviceHeldOnce ==
  \A n \in Names :
    IF device[n] = NoDevice
    THEN Holders(n) = {}
    ELSE \E c \in Creators : Holders(n) = {c}

\* The inductive invariant: names and blocks are known where they are used.
IInv ==
  /\ TypeOK
  /\ EveryDeviceHeldOnce
  /\ \A c \in Creators :
       /\ pc[c] \in {"configure", "open fd", "insert"} => name[c] \in Names
       /\ pc[c] # "idle" => block[c] \in Blocks
       /\ pc[c] = "insert" => c \in Handlers

(***************************************************************************)
(* "Check if this subnet is already in use": comparing the text of other   *)
(* addresses is enough that a network that is chosen has no address in     *)
(* common with another interface's, or is a part of a wider one whose own  *)
(* address is elsewhere: 10.1.0.0/24 inside of 10.1.2.0/16.                *)
(***************************************************************************)
ChoosesFree ==
  [][\A c \in Creators : pc[c] = "idle" /\ pc'[c] = "open" =>
       LET chosen == TunNet(block'[c]) IN
       \A n \in others \cup DeviceNets :
         \/ Span(chosen) \cap Span(n) = {}
         \/ n.len < chosen.len /\ Span(chosen) \subseteq Span(n) \ {n.addr}]_vars

(***************************************************************************)
(* "List TUN devices": a device that GET /tun lists exists.                *)
(***************************************************************************)
ListedDeviceExists ==
  \A n \in Names : store[n] # NoDevice => device[n] # NoDevice
=============================================================================
