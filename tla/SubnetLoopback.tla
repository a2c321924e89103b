--------------------------- MODULE SubnetLoopback ---------------------------
(***************************************************************************)
(* The subnet service on macOS: the foreground server of                   *)
(* network/bin/subnet.rs, with the macOS half of                           *)
(* network/src/subnet_interface.rs. A subnet is an alias of lo0: its       *)
(* address and a netmask. What decides is the address alone: adding an     *)
(* alias for one that lo0 has replaces its netmask, and `-alias` names no  *)
(* netmask. The labels lo0:N, which ifconfig does not know, go nowhere.    *)
(*                                                                         *)
(* A removal runs its one command under the mutex of the store, and nobody *)
(* sees the store without the mutex, so a removal is one step. Only the    *)
(* sweep of the store at ctrl-c keeps the mutex for many steps.            *)
(***************************************************************************)
EXTENDS Ipv4Nets

CONSTANTS Handlers,       \* requests that can be in progress at a time
          Nets,           \* the networks clients ask for
          ForeignNets,    \* networks of addresses that other programs give lo0
          Faults,         \* what may go wrong, see below
          NoNet

ASSUME LoopbackAssumption ==
  /\ Nets \subseteq Net /\ ForeignNets \subseteq Net /\ NoNet \notin Net
  /\ Faults \subseteq {"command",     \* an `ifconfig` command fails and changes nothing
                       "disconnect",  \* a client goes away before its answer
                       "crash"}       \* the service is killed

VARIABLES
  lo0,      \* the kernel: the aliases of lo0, each an address and a netmask
  mode,     \* the server: "down", "serving", or "draining" after the sweep
  store,    \* SubnetStore: its CIDRs
  sweep,    \* the shutdown task: "idle", "lock", "run" with the mutex, or "done"
  swept,    \* the entries of the store that the sweep has dealt with
  pc, want, \* per request in progress, its next step and its network
  excused   \* history: addresses that the store cannot be right about, see below

task == <<pc, want>>

vars == <<lo0, mode, store, sweep, swept, task, excused>>

TypeOK ==
  /\ lo0 \subseteq [addr : Address, mask : Address]
  /\ \A a, b \in lo0 : a.addr = b.addr => a = b
  /\ mode \in {"down", "serving", "draining"}
  /\ sweep \in {"idle", "lock", "run", "done"}
  /\ store \subseteq Nets \cup ForeignNets /\ swept \subseteq store
  /\ pc \in [Handlers -> {"idle", "alias", "insert", "delete"}]
  /\ want \in [Handlers -> Nets \cup ForeignNets \cup {NoNet}]
  /\ excused \subseteq Address
-----------------------------------------------------------------------------
\* ipnet: the netmask of a network.
Mask(n) == 2^Width - Size(n)

Alias(n) == [addr |-> n.addr, mask |-> Mask(n)]

\* ifconfig lo0 alias, and -alias.
WithAlias(n) == {a \in lo0 : a.addr # n.addr} \cup {Alias(n)}
WithoutAlias(n) == {a \in lo0 : a.addr # n.addr}

HasAlias(n) == \E a \in lo0 : a.addr = n.addr

\* default_net::get_interfaces; the host's other interfaces are left out.
Addresses == {a.addr : a \in lo0}

CommandMayFail == "command" \in Faults

Goto(h, s) == pc' = [pc EXCEPT ![h] = s]

\* A request answers, with a subnet or an error.
Answer(h) == Goto(h, "idle") /\ want' = [want EXCEPT ![h] = NoNet]

Excuse(A) == excused' = excused \cup A
-----------------------------------------------------------------------------
(***************************************************************************)
(* POST /subnet: configure_subnet up to its command. A refused request is  *)
(* not a step. Two requests for one address can both get here.             *)
(***************************************************************************)
BeginCreate(h, n) ==
  /\ mode = "serving" /\ pc[h] = "idle"
  /\ ValidNetwork(n) /\ Available(n, Addresses)
  /\ Goto(h, "alias") /\ want' = [want EXCEPT ![h] = n]
  /\ Excuse(IF \E g \in Handlers : pc[g] = "alias" /\ want[g].addr = n.addr
            THEN {n.addr} ELSE {})
  /\ UNCHANGED <<lo0, mode, store, sweep, swept>>

\* sudo ifconfig lo0 alias.
AddAlias(h) ==
  /\ pc[h] = "alias"
  /\ \/ lo0' = WithAlias(want[h]) /\ Goto(h, "insert") /\ UNCHANGED want
     \/ CommandMayFail /\ Answer(h) /\ UNCHANGED lo0
  /\ UNCHANGED <<mode, store, sweep, swept, excused>>

\* create_subnet takes the mutex and inserts.
Insert(h) ==
  /\ pc[h] = "insert" /\ sweep # "run"
  /\ store' = store \cup {want[h]}
  /\ swept' = swept \ {want[h]}
  /\ Answer(h)
  /\ UNCHANGED <<lo0, mode, sweep, excused>>

\* DELETE /subnet/:cidr.
BeginDelete(h, k) ==
  /\ mode = "serving" /\ pc[h] = "idle"
  /\ Goto(h, "delete") /\ want' = [want EXCEPT ![h] = k]
  /\ UNCHANGED <<lo0, mode, store, sweep, swept, excused>>

(***************************************************************************)
(* remove_subnet: the validation, which networks that were detected may    *)
(* fail, and `ifconfig lo0 -alias`.                                        *)
(***************************************************************************)
RemoveAlias(n) ==
  /\ \/ ValidNetwork(n) /\ HasAlias(n) /\ lo0' = WithoutAlias(n)
     \/ (~ ValidNetwork(n) \/ ~ HasAlias(n) \/ CommandMayFail) /\ UNCHANGED lo0
  /\ Excuse(IF n \in swept \/ (HasAlias(n) /\ lo0' = lo0) THEN {n.addr} ELSE {})

\* Mutant: the alias is removed although the store does not have the subnet.
DeleteUnlisted(h) ==
  /\ pc[h] = "delete" /\ sweep # "run"
  /\ store' = store \ {want[h]} /\ swept' = swept \ {want[h]}
  /\ RemoveAlias(want[h])
  /\ Answer(h)
  /\ UNCHANGED <<mode, sweep>>

(***************************************************************************)
(* remove_subnet_handler. The entry is gone whether or not the alias is;   *)
(* after the sweep it can be a swept one, and the alias another's.         *)
(***************************************************************************)
Delete(h) ==
  /\ pc[h] = "delete" /\ sweep # "run"
  /\ store' = store \ {want[h]} /\ swept' = swept \ {want[h]}
  /\ \/ want[h] \in store /\ RemoveAlias(want[h])
     \/ want[h] \notin store /\ UNCHANGED <<lo0, excused>>
  /\ Answer(h)
  /\ UNCHANGED <<mode, sweep>>

\* hyper drops a handler whose client has gone, where it awaits the mutex.
Disconnect(h) ==
  /\ "disconnect" \in Faults /\ pc[h] \in {"insert", "delete"}
  /\ Excuse(IF pc[h] = "insert" THEN {want[h].addr} ELSE {})
  /\ Answer(h)
  /\ UNCHANGED <<lo0, mode, store, sweep, swept>>
-----------------------------------------------------------------------------
\* Ctrl-c: the shutdown task awaits the mutex.
CtrlC ==
  /\ mode = "serving" /\ sweep = "idle" /\ sweep' = "lock"
  /\ UNCHANGED <<lo0, mode, store, swept, task, excused>>

SweepBegin ==
  /\ sweep = "lock" /\ sweep' = "run"
  /\ UNCHANGED <<lo0, mode, store, swept, task, excused>>

\* The next subnet, in any order. Its entry stays.
SweepNext(n) ==
  /\ sweep = "run" /\ n \in store \ swept
  /\ RemoveAlias(n) /\ swept' = swept \cup {n}
  /\ UNCHANGED <<mode, store, sweep, task>>

\* Mutant: the loop ends after one subnet.
SweepEndEarly ==
  /\ sweep = "run" /\ (swept # {} \/ store = {}) /\ sweep' = "done"
  /\ UNCHANGED <<lo0, mode, store, swept, task, excused>>

\* The mutex is dropped and the server told to stop.
SweepEnd ==
  /\ sweep = "run" /\ swept = store /\ sweep' = "done"
  /\ UNCHANGED <<lo0, mode, store, swept, task, excused>>

\* with_graceful_shutdown: the requests in progress are finished.
Drain ==
  /\ mode = "serving" /\ sweep = "done" /\ mode' = "draining"
  /\ UNCHANGED <<lo0, store, sweep, swept, task, excused>>

Die ==
  /\ mode' = "down" /\ sweep' = "idle" /\ store' = {} /\ swept' = {}
  /\ pc' = [h \in Handlers |-> "idle"] /\ want' = [h \in Handlers |-> NoNet]
  /\ UNCHANGED <<lo0, excused>>

Exit == mode = "draining" /\ (\A h \in Handlers : pc[h] = "idle") /\ Die

Crash == "crash" \in Faults /\ mode # "down" /\ Die
-----------------------------------------------------------------------------
\* u32::leading_zeros, of Width bits.
LeadingZeros(x) == CHOOSE k \in 0 .. Width : x < 2^(Width - k) /\ (k = Width \/ x >= 2^(Width - k - 1))

\* Mutant: the zeros are counted in the netmask itself.
PrefixLenOfMask(mask) == Width - LeadingZeros(mask)

\* The prefix length of a netmask: (!mask).leading_zeros().
PrefixLen(mask) == LeadingZeros(2^Width - 1 - mask)

(***************************************************************************)
(* detect_existing_subnets: the aliases of lo0 with an allowed address,    *)
(* whoever made them.                                                      *)
(***************************************************************************)
Detected ==
  {[addr |-> a.addr, len |-> PrefixLen(a.mask)] : a \in {b \in lo0 : Contains(Allowed, b.addr)}}

\* main: detection, of which an error leaves the store empty, and bind.
Start ==
  /\ mode = "down" /\ mode' = "serving"
  /\ \/ store' = Detected
     \/ CommandMayFail /\ store' = {}
  /\ excused' = {a.addr : a \in {b \in lo0 : store' = {} \/ ~ Contains(Allowed, b.addr)}}
  /\ UNCHANGED <<lo0, sweep, swept, task>>

\* Another program adds or removes an alias.
Foreign(n) ==
  /\ lo0' \in {WithAlias(n), WithoutAlias(n)} /\ lo0' # lo0
  /\ Excuse({n.addr})
  /\ UNCHANGED <<mode, store, sweep, swept, task>>

Init ==
  /\ lo0 = {} /\ mode = "down" /\ store = {} /\ sweep = "idle" /\ swept = {}
  /\ pc = [h \in Handlers |-> "idle"] /\ want = [h \in Handlers |-> NoNet]
  /\ excused = {}

Next ==
  \/ \E h \in Handlers :
       \/ \E n \in Nets : BeginCreate(h, n) \/ BeginDelete(h, n)
       \/ AddAlias(h) \/ Insert(h) \/ Delete(h) \/ Disconnect(h)
  \/ CtrlC \/ SweepBegin \/ SweepEnd \/ (\E n \in store : SweepNext(n))
  \/ Drain \/ Exit \/ Crash \/ Start
  \/ \E n \in ForeignNets : Foreign(n)

Spec == Init /\ [][Next]_vars
-----------------------------------------------------------------------------
(***************************************************************************)
(* The store and the requests that are about to insert tell exactly which  *)
(* aliases lo0 has, with their prefix lengths: across restarts, during the *)
(* sweep and in the window after it, when swept entries are still listed.  *)
(* This cannot be said, and is excused, of an address                      *)
(*   - that two create requests found free together,                       *)
(*   - whose client went away before the insertion,                        *)
(*   - whose removal failed, or whose detection did,                       *)
(*   - that another program changed, until the next start,                 *)
(*   - that was deleted by way of an entry the sweep had dealt with.       *)
(***************************************************************************)
Made == {want[h] : h \in {g \in Handlers : pc[g] = "insert"}}

StoreTellsLo0 ==
  mode # "down" =>
    \A a \in Address \ excused :
      {b \in lo0 : b.addr = a} = {Alias(n) : n \in {m \in (store \ swept) \cup Made : m.addr = a}}

(***************************************************************************)
(* "cleaning up subnets": when the sweep ends lo0 has no alias of the      *)
(* service but those of requests that still await the mutex, which insert  *)
(* after the sweep and leave their alias behind when the service ends.     *)
(***************************************************************************)
SweepClears ==
  [][sweep = "run" /\ sweep' = "done" =>
       \A a \in lo0 : a.addr \in excused \/ \E n \in Made : Alias(n) = a]_vars

Accepts(n) == \E h \in Handlers : pc[h] = "idle" /\ pc'[h] = "alias" /\ want'[h] = n

(***************************************************************************)
(* validate_network: comparing written addresses both ways is enough to    *)
(* keep a network that is accepted apart from every protected one, and, if *)
(* it is no wider than the allowed range, within that.                     *)
(***************************************************************************)
AcceptsAllowedOnly ==
  [][\A n \in Nets : Accepts(n) =>
       /\ \A p \in Protected : Span(n) \cap Span(p) = {}
       /\ n.len >= Allowed.len => Span(n) \subseteq Span(Allowed)]_vars

(***************************************************************************)
(* is_subnet_available: a network that is accepted and one that the store  *)
(* lists are disjoint, or it is a proper part of that one which leaves the *)
(* one's own address out, although the check compares addresses only.      *)
(***************************************************************************)
AcceptsFreeOnly ==
  [][\A n \in Nets, m \in store \ swept :
       Accepts(n) /\ m.addr \notin excused =>
         \/ Span(n) \cap Span(m) = {}
         \/ Span(n) \subseteq Span(m) \ {m.addr}]_vars
-----------------------------------------------------------------------------
Creating(h) == pc[h] \in {"alias", "insert"}

\* For an address at most one entry, or one create request, answers.
OwnersApart ==
  /\ \A m, n \in store \ swept : m.addr = n.addr => m = n \/ m.addr \in excused
  /\ \A g, h \in Handlers :
       Creating(g) /\ Creating(h) /\ want[g].addr = want[h].addr =>
         g = h \/ want[g].addr \in excused
  /\ \A h \in Handlers, n \in store \ swept :
       Creating(h) /\ want[h].addr = n.addr => n.addr \in excused

\* StoreTellsLo0, alias by alias and entry by entry.
AliasesTold ==
  mode # "down" =>
    /\ \A b \in lo0 : \/ b.addr \in excused
                      \/ \E n \in (store \ swept) \cup Made : b = Alias(n)
    /\ \A n \in (store \ swept) \cup Made : n.addr \in excused \/ Alias(n) \in lo0

(***************************************************************************)
(* The inductive invariant behind StoreTellsLo0: an alias can change hands *)
(* between a request and the store, but no two ever answer for one.        *)
(***************************************************************************)
IInv ==
  /\ TypeOK
  /\ mode = "down" => store = {} /\ sweep = "idle" /\ \A h \in Handlers : pc[h] = "idle"
  /\ \A h \in Handlers : pc[h] # "idle" => want[h] # NoNet
  /\ lo0 \subseteq {Alias(n) : n \in Nets \cup ForeignNets}
  /\ OwnersApart
  /\ AliasesTold
=============================================================================
