# A verification project for `networks_and_filesystems`

The repository holds three servers written in Rust: a daemon that gives subnets
of 10.0.0.0/8 to the dummy interfaces of a host, a daemon that creates TUN
devices, and an NFSv4-like file server. This directory holds TLA+ models of
them, the TLC configurations that check the models on small instances, and
proofs for TLAPS. `PROJECT.json` ties every definition to the lines it models.

- [The system](#the-system)
- [The modules](#the-modules)
- [The runs](#the-runs)
- [Fairness](#fairness)
- [What is proved](#what-is-proved)
- [What disagrees with the code's own words](#what-disagrees-with-the-codes-own-words)
- [What is not modelled](#what-is-not-modelled)
- [Plan](#plan)

## The system

| Part | Source | State | Operations |
|---|---|---|---|
| Network validation | `network/src/subnet_interface.rs` 10-64, 160-174 | none | `validate_network`, `is_subnet_available` |
| Subnet daemon | `network/bin/subnet_daemon.rs`, `subnet_interface.rs` | `SubnetStore` (CIDR to interface) behind a tokio `Mutex`; the kernel's dummy interfaces, addresses and flags | `POST /subnet`, `DELETE /subnet/:cidr`, `GET /subnet`, detection at start, the sweep and the graceful shutdown at SIGTERM |
| Subnet service in the foreground | `network/bin/subnet.rs` | the same | the same, stopped by ctrl-c |
| Subnet configuration on macOS | `subnet_interface.rs` 70-123, 176-226, 288-307 | the aliases of `lo0` with their netmasks | `ifconfig lo0 alias` and `-alias`, detection from `ifconfig` |
| TUN daemon | `network/bin/tun_daemon.rs`, `tun.rs`, `network/src/tun_interface.rs` | `DeviceStore` behind a `Mutex`; the kernel's TUN devices, each tied to a file descriptor | `POST /tun`, `GET /tun` |
| tun_old | `network/bin/tun_old.rs` | a device, kept | runs until it is stopped |
| Daemon life cycle | both daemons' `main`, the systemd units, the launchd lists, the Makefile | pid file, log files, the bound port | daemonize, start, restart |
| NFS server | `nfs4/src/server.rs`, `protocol.rs` | `handles` and `stateids` behind two tokio `RwLock`s; files of the export, open file descriptions with their offsets, writes queued in tokio's blocking pool | the operations of `handle_compound` |
| RPC connection | `nfs4/src/main.rs`, `rpc.rs` | one task and one buffer per connection | framing, decoding, one compound after the other, replies |

How the parts interact. The two network daemons share no memory: each sees the
other's interfaces as addresses of the host (`default_net::get_interfaces`) and
as lines of `ip addr show`. Inside a daemon every request runs in its own task;
the tasks share the store's mutex and, outside of it, the kernel, which they
change by running `ip` or `ifconfig`. The NFS server has a task per connection; the tasks
share two tables, and through a stateid also a file offset.

What is hard:

- `create_subnet` and `create_tun_device` decide and configure *before* they
  take the mutex. Between the look at the host's addresses and the insertion
  there are several commands of other requests.
- Commands fail half-way, clients disconnect while a handler waits for the
  mutex, and the process can be killed between any two commands while the
  kernel keeps what it did. Detection must then rebuild the store from text.
- At SIGTERM the sweep runs commands under the mutex while the server goes on
  accepting requests.
- Every start takes the pid file it finds for stale, removes it and makes its
  own, in several system calls that other starts can get between; only the bind
  decides who serves.
- TCP delivers half a length field, half a message or several at once.
- READ and WRITE of the NFS server are a seek and a system call on an offset
  that all users of a stateid share, and `write_all` returns before it wrote.
- `handle_lookup` and `handle_create` await a write lock whose read guard they
  hold.

What makes each part correct:

- *Validation*: no accepted network reaches a protected one, none swallows a
  network that an interface has.
- *Subnet daemon*: what the store says of the host is so, at every moment and
  not only between requests; no task works on an interface of another; an
  interface is never deleted from under somebody; nothing is forgotten without
  a cause; requests are answered and SIGTERM ends the daemon; one request at a
  time, the host follows a simple ledger.
- *Subnet service on macOS*: the same promise, where a second alias for an
  address replaces the first one and a removal takes whichever is there.
- *TUN devices*: every device belongs to exactly one request or process; the
  network chosen for it is free, whatever interfaces others have.
- *Daemon life cycle*: starts that overlap never share a pid file's lock, the
  file names the daemon that serves unless starts overlapped, and they do not
  all fail on account of each other.
- *RPC connection*: calls are answered one at a time, in order and once each,
  however TCP cuts the stream.
- *NFS server*: a compound stops at its first error; a stateid stays valid until
  its CLOSE, and while it is used; nobody waits for itself and nobody starves;
  used as a client should, it is a file service with atomic I/O.

## The modules

| Module | Models or states |
|---|---|
| `Ipv4Nets` | networks as `ipnet` keeps them, `ValidNetwork`, `Available` |
| `Ipv4NetsProofs` | powers of two and networks, for addresses of any width |
| `SubnetDaemon` | the subnet daemon on Linux: handlers, shutdown task, mutex, store, kernel, other programs |
| `SubnetDaemonInv`, `SubnetDaemonProofs` | its inductive invariant, `IInv`, and the proofs about it |
| `SubnetLedger` | what the daemon promises: a book of networks |
| `SubnetDaemonSerial`, `SubnetDaemonSerialProofs` | the daemon with one request at a time, which implements the ledger, and the proof that it does |
| `SubnetLoopback`, `SubnetLoopbackProofs` | the subnet service on macOS, where subnets are aliases of `lo0` |
| `TunDaemon`, `TunDaemonProofs` | the TUN daemon and `tun_old` with the kernel's life cycle of a device, among other interfaces |
| `DaemonLifecycle`, `DaemonLifecycleProofs` | overlapping starts of one service: pid file, lock, bind |
| `RpcPipe` | what a connection promises: calls answered in order |
| `RpcConnection`, `RpcConnectionProofs` | a connection to the NFS server: framing, decoding, replies; it implements `RpcPipe` |
| `NfsServer` | the NFS server: compounds, both tables and their locks, offsets, queued writes |
| `NfsFiles` | what the NFS server promises: atomic operations on files |
| `NfsServerPrivate` | the server when stateids are not shared and writes are stable, which implements `NfsFiles` |
| `NfsServerProofs` | the proofs about the server and about that refinement |
| `MC*` | the values of the constants for TLC |

How they compose. `SubnetDaemon`, `SubnetLoopback` and `TunDaemon` extend
`Ipv4Nets`, so that the decisions about networks are made in the running
services, on the addresses the host has at that moment. Either network daemon
is an interface of *any* network to the other, one that clients ask for among
them: `Foreign` and `OthersChange` are environments of which the other daemon is
a case.
`RpcConnection` has one step for a whole compound, which `NfsServer` takes
apart; a connection's task works on one compound at a time in both.

### Networks

`Ipv4Nets` has the width of an address as a constant (32 in the program). A
network is the *written* address, host bits included, and a length, because
`Ipv4Net::addr()` is what the code compares. The text of a CIDR is abstracted
to the network it names.

### Subnet daemon on Linux

One action per `ip` command and per time the mutex is taken, since these are
the points between which other tasks run:

| Code | Actions |
|---|---|
| `create_subnet`, `configure_subnet` | `BeginCreate` (validation and look at the addresses), `Probe` (`ip link show dummyN`), `LinkAdd`, `AddrAdd`, `LinkUp`, `Insert` (mutex, store) |
| `remove_subnet_handler`, `remove_subnet` | `BeginDelete`, `TakeEntry` (mutex, entry removed), `AddrDel`, `LinkDel`; `EndRemove` lets go of the mutex |
| the SIGTERM task | `Sigterm`, `SweepBegin` (mutex), `SweepNext`, `AddrDel`, `LinkDel`, `SweepEnd` |
| `with_graceful_shutdown` | `Drain`, `Exit` |
| `run_server`, `detect_existing_subnets` | `Start` |
| the environment | `Disconnect`, `Crash`, `ForeignUp`, `ForeignDown`, the failing alternative of every command |

Choices worth knowing:

- A create request that is refused at once changes nothing and is not a step.
- `default_net::get_interfaces` is one atomic look at the host.
- Axum's handlers await only the mutex, so that is where a disconnected client's
  handler can be dropped.
- Commands that outlive a killed daemon are not modelled.
- `Start` follows the parser of `ip addr show`: the current interface is set by
  every line that contains `dummy` and is not reset by other interfaces. The
  constant `LabelShown` says whether an inet line ends with the interface's
  name, as iproute2 prints it (`TRUE`), or not, as in the example in the code's
  comment (`FALSE`). With `TRUE` the store starts nearly empty; `FALSE` gives a
  fuller store and is what `subnet_races` uses, while `subnet_ledger` and
  `subnet_restart` use `TRUE`. The order of the listing is abstracted: any dummy
  interface may be the last one before a foreign one, and of several lines with
  one CIDR any may be the last, whose entry stays.
- An interface of another program may have the very network of a client's subnet
  (`ForeignNet \in [Foreign -> Net]`). Detection then registers that subnet on a
  dummy interface that does not have it, or, with `TRUE`, under the text of a
  CIDR. `misread` is a history: the keys whose entry is such a one. An insertion
  of a create request under the key, or the end of the process, takes it back.
- `astray` is a history too. It becomes true when the removal of a misread entry
  succeeds at `ip addr del`. That needs a dummy interface of the name in the entry
  with the very network it was misread for. With `FALSE` this happens: `dummy0`
  has `Wide` and the daemon is killed; another program's interface comes up with
  `Part`; the restart puts both on `dummy0`; a DELETE of `Wide` removes it; the
  other program's interface goes, a create of `Part` makes `dummy0` again, and
  before it has inserted a DELETE of `Part` finds the misread entry and deletes the
  interface under the request. With the lines that iproute2 prints the misread
  entry names a CIDR's text or a dummy interface that had no address. Neither can
  lead anywhere: no interface has that text for its name, and a link without an
  address is one that a failed command left behind, which nothing gives an address
  again or deletes. That is `DetectionHarmless`, and it is proved.
- `GET /subnet` reads under the mutex and changes nothing; it is not an action.

### Subnet service on macOS

The server of `subnet.rs` with the macOS half of `subnet_interface.rs`. The
address alone identifies an alias: adding a second one replaces its netmask, and
`-alias` names no netmask.

| Code | Actions |
|---|---|
| `create_subnet`, `configure_subnet` | `BeginCreate`, `AddAlias` (`ifconfig lo0 alias`), `Insert` (mutex, store) |
| `remove_subnet_handler`, `remove_subnet` | `BeginDelete`, `Delete`: the entry, the validation and the one command, all under the mutex |
| the ctrl-c task | `CtrlC`, `SweepBegin` (mutex), `SweepNext`, `SweepEnd` |
| `with_graceful_shutdown` | `Drain`, `Exit` |
| `main`, `detect_existing_subnets` | `Start`: the prefix length is counted in the netmask as the code does |
| the environment | `Disconnect`, `Crash`, `Foreign` |

`swept` tells the entries that the sweep has dealt with, which the code leaves
in the store. `excused` is a history: the addresses of which the store cannot be
right, each put there by the one step that makes it so (a collision of two
requests, a disconnect, a failed removal or detection, another program, a DELETE
of a swept entry) and taken back by the next start, which reads `lo0`. So
`StoreTellsLo0` is exact about every other address.

### TUN devices

`BeginCreate` finds the first free network 10.i.0.0/24, `Open` creates the
device (the kernel refuses a name in use or picks the first free number),
`Configure` sets address and state, `Drop` closes the descriptor at the end of
`create_tun_device`, whereupon the kernel removes the device, and `Insert` puts
the description into the store. `Restart` is the end of the daemon's process and
its next start, with an empty store: this daemon detects nothing. `tun_old` is
the same up to `Configure` and keeps its device until `StopOld`. `InUse` is the
comparison of texts by what it does: an address begins with `10.i.0` when it
lies in 10.i.0.0/24. Other interfaces come and go at any time with any network
of `OtherNets` (`OthersChange`).

### Daemon life cycle

One action per system call on shared state: `Check` (`exists`), `Remove`
(`remove_file`), then those of the crate daemonize, `Open` (`O_CREAT`), `Lock`
(`flock`, exclusive, not blocking), `Chown` (by path), `Write` (the pid), then
`Bind`, and `Stop` or `Kill`. A process whose call fails exits with 1. A file
that was removed lives on in those that have it open, so files are told apart
by who created them. Processes of `Foreground` are `subnet` or `tun` at the
same port. systemd's `Restart=on-failure`, launchd's `KeepAlive` and an operator
are all `Launch`: another process at any time. `met` is a history: the daemons
that have been alive together with another.

### RPC connection

| Code | Actions |
|---|---|
| `handle_client`, `read_buf` | `Read` (any number of the bytes that have arrived), `EndOfStream` |
| `read_rpc_message` | `NoFrame` (None), `TakeFrame` |
| `RpcMessage::from_bytes`, the match on program and version, `CompoundRequest::from_bytes` | `Decode` |
| `handle_compound` | `Compound` |
| the two `write_all` of a reply | `WriteLength`, `WriteBody` |
| the client and TCP | `Send`, `Leave` |

The stream is numbered byte by byte, and the buffer is the interval
`head .. tail`. At an offset where no message starts the length field can be
any number and the bytes decode to nothing, so a loss of alignment would show.
What a message contains is its kind. `marked` messages have the last fragment's
bit of RPC's record marking set.

### NFS server

A connection is `idle` until `Receive` gives it a compound; then `Serve` runs
the operations in order, one action or a few for each, until `Over`, and
`Reply` sends the response or loses it. An error that goes up with `?` ends the
connection (`Abort`); the slot then stands for a new connection of the client.

- **Current filehandle.** `GetFh` hands out a random handle that is in no
  table, and nothing else sets one first; `UseHandle` is the five operations on
  it. `Outcomes` keeps what they would do with a handle that *is* in the table:
  LOOKUP and CREATE await the write lock under their own read guard, and a COMMIT
  whose `sync_all` fails ends the connection. In the code as it is this cannot be
  reached, which is what `NoSelfDeadlock` says; the model
  has it so that a change of GETFH would show.
- **Lock of `stateids`.** tokio's `RwLock` is a queue. The variable `ahead`
  says, for each connection in it, who came before; `Holds` is having nobody
  ahead (writers: OPEN, CLOSE) or only readers (READ, WRITE).
- **I/O.** `position` is the offset of a stateid's file description, which its
  clones share. `Seek` looks the stateid up, clones and seeks; `Read` is one
  `read(2)`; `Write` queues the write, and `Perform` is a thread of the blocking
  pool doing it at whatever offset the description has *then*. `Sync` waits for
  a stable write. `write_all` returns before the write and `sync_all` does not
  report its error, so a queued write that fails (`server.rs` 443) is answered
  Ok; `NfsFiles` says the same of `Write`, and that nothing but that block is
  then missing.
- **Data.** A block stands for the bytes of one READ or WRITE, below the 2 MiB
  that a tokio `File` takes at a time. A file ends after its last block that
  was written. Attributes and access bits are only statuses.
- **Bounds in the model.** `StateIds` bounds the number of OPENs in a behaviour;
  when it is used up OPEN fails as it does without file descriptors. `Slots`
  bounds the writes queued at a time. An offset is at most `LastPosition`: the
  last one that a client names, and a block more for each queued write and each
  connection that is between its seek and its read or write. `TypeOK` has this
  of the offsets, and it is proved, by `OffsetsHaveRoom`.
- `Shared` says whether clients use each other's stateids.

## The runs

| Run | Instance | What it shows |
|---|---|---|
| `subnet_races` | two handlers, two interfaces, two overlapping networks, a foreign interface that has one of them, every fault | `TypeOK`, `StoreBacked`, `OneCreatorPerInterface`, `DeletesOwnLinkOnly`, `IInv` |
| `subnet_ledger` | one handler, three networks, two foreign interfaces, iproute2's lines, every fault | `ImplementsLedger`, `DetectionHarmless` |
| `subnet_live` | two handlers, nothing fails | `RequestAnswered`, `ShutdownCompletes`, `LeakOnlyByCollision` |
| `subnet_loopback` | two handlers, four networks, two aliases of other programs, every fault | `TypeOK`, `StoreTellsLo0`, `IInv`, `SweepClears`, `AcceptsAllowedOnly`, `AcceptsFreeOnly` |
| `subnet_collision` | two handlers, nothing fails | `OneInterfacePerSubnet` does not hold |
| `subnet_restart` | one handler, a crash, iproute2's lines | `StartRegisters` does not hold |
| `tun_races` | three requests and a process of `tun_old`, two names, two blocks, three networks of other interfaces, every fault | `TypeOK`, `EveryDeviceHeldOnce`, `ChoosesFree` |
| `tun_listed` | a single request is enough | `ListedDeviceExists` does not hold |
| `daemon_lifecycle` | three starts of a daemon and one in the foreground | `TypeOK`, `IInv`, `LockedFileNamesHolder`, `PidFileNamesLoneServer`, `StartServes` |
| `rpc_connection` | messages of every kind, of no, one and two bytes, with and without the bit of the record mark, in reads of every length | `TypeOK`, `IInv`, `ImplementsPipe`, `CallAnswered` |
| `nfs_server` | two connections that share two stateids, every operation, stable and unstable writes, every fault | `TypeOK`, `StopsAtFirstError`, `BusyStateidStaysOpen`, `NoSelfDeadlock`, `IInv`, `GoesOnlyByClose` |
| `nfs_files` | two connections, a file, two stateids not shared, stable writes of two values at two offsets, every fault | `FilesInv`, `ImplementsFiles`, `RequestServed` |

Why the bounds are enough:

- *Four-bit addresses* hold every relation of two blocks: equal, inside, around,
  apart, with and without host bits. In the daemon's runs `Wide` spans the
  allowed range, `Part` is a part of it that leaves `Wide`'s own address out (so
  that `Wide` then `Part` is accepted and `Part` then `Wide` is not), and `Bad` is
  never valid. The foreign interface of `subnet_races` has `Part`; `subnet_ledger`
  has one more with an address inside `Wide` that no client asks for. In
  `subnet_loopback` one network reaches a protected one, one is wider than the
  allowed range and two are its halves, the upper one written with host bits;
  three have one written address, so that aliases replace each other. One alias of
  another program fails the validation, so that it is detected and cannot be
  removed, and one is outside of the range. What is found of networks is proved for
  every width.
- *Six-bit addresses* of `tun_races` are octets of two bits: the allowed block, i,
  j and k. The other interfaces are a network around a block with its address
  outside (the text prefix misses it), an address inside of a block, and a
  whole second block.
- *Two handlers* make every pairwise race: two creators of one name or of one
  network, a creator and a DELETE, either and the sweep. The proofs cover any
  number.
- *Two interfaces* let names run out and be used again, which takes 255 in the
  code; the loop is the same.
- *Three TUN requests* for two names and two blocks: one more than there is of
  either.
- *Three starts of a daemon*: one that serves or has left a file, and two that
  remove and create files under each other. Processes do not start twice, since
  a start after an end is another process; `CHECK_DEADLOCK FALSE` is said there
  because no process is left to start at the end.
- *A stream of fewer than ten bytes* with a header of two: two or three messages,
  several in a read and each cut everywhere. `LastFragment`, ten, stands for
  2^31: more than a client sends in all.
- *Two connections* of the NFS server make a reader and a writer, two readers and
  two writers of the lock; two stateids make one to be opened while the other
  is in use. `nfs_server` has one offset and one value because its properties
  do not look at the data; `nfs_files` has two of each, so that a misplaced or
  a stale block shows. The requests include compounds whose second operation
  sees the effect of the first, and one after an operation that fails.

Symmetry is used only in runs without liveness, over handlers, connections and
stateids, which the models treat alike.

What a run does not claim:

- `OneCreatorPerInterface` and the half of `DeletesOwnLinkOnly` that is about create
  requests are claimed until the sweep is over (`Swept`) and unless a removal went
  `astray`; `Sound` is neither. The sweep leaves its entries in the store, the
  server accepts requests until it is told to stop, and a DELETE of such an entry
  can then reach an interface that was made under the same name in the meantime;
  without the guard TLC finds this behaviour. The other half of
  `DeletesOwnLinkOnly` holds always: what such a removal deletes has no address any
  more, since `ip addr del` took the network that the DELETE named.
- `StoreBacked` speaks of the entries that are still `Pending`, which is every one
  until the sweep and the ones not reached during it; of entries that detection did
  not misread; and only as long as nothing went `astray`.
- On macOS the window after the sweep is the last of the causes in `excused`, and
  the create request that inserts after the sweep, whose alias stays behind, is
  `Made` in `SweepClears`.
- With a stateid that two connections use, or with unstable writes, a READ or
  WRITE can happen at an offset that another one seeked to. `ImplementsFiles` is
  therefore about clients that keep to their own stateids and to stable writes,
  which `Private` states. It does not claim that an answered write is in the
  file when the write itself failed.
- `LeakOnlyByCollision` is about a daemon none of whose commands fail. A misread
  entry does not account for an interface, so what becomes of it says nothing about
  one. The theorem is about any interfaces of other programs; the run has none, as
  it also checks liveness.
- `PidFileNamesLoneServer` is about daemons that never met another (`met`): a
  start beside a live daemon removes its pid file.
- `StartServes` allows for a start that is killed between its removal of the
  file and its bind, on account of which another one can have given up.
- `CallAnswered` is not about calls behind a record mark (`Arrived`).

## Fairness

- *Subnet daemon.* Weak fairness on the commands and on each step of the
  shutdown: `ip` ends, and tokio runs a task that can run. Strong fairness on
  the steps that take the mutex: tokio's `Mutex` hands itself on in the order of
  arrival, so a task that waits gets it if it becomes free again and again.
- *Daemon life cycle.* Weak fairness on `Go(p)` for each process: the kernel runs
  a process that has been started, and none of its calls blocks (`flock` is
  asked not to).
- *RPC connection.* Weak fairness on `Serve`: tokio runs the task, and TCP
  delivers the bytes of a connection that stands.
- *NFS server.* Weak fairness on `Serve` and `Perform`: tokio runs tasks that can
  go on, and the blocking pool does what is queued. No strong fairness is
  needed, because the model has the lock's queue itself: whoever is first stays
  first.
- Nothing makes a client, a signal, another program or systemd act: there is no
  fairness on `Request`, `Receive`, `Send`, `Leave`, `Sigterm`, `Start`,
  `Launch`, `Stop`, on faults or on interfaces of other programs.

## What is proved

The theorems hold for every value of the constants that the named assumptions
of the modules allow: `NetsAssumption`, `DaemonAssumption`, `SerialAssumption`
(one handler), `LoopbackAssumption`, `TunAssumption` and `BlocksAssumption` (the
blocks fit into addresses), `LifecycleAssumption`, `RpcAssumption`,
`NfsAssumption` and `OperationsAssumption` (an operation carries what its kind
has). TLC evaluates each of them in a run. Three theorems have a hypothesis of
their own, which the run of their property satisfies: `LeaksAreCollisions` that
`Faults` is empty, `OffsetsAreKept` and `FilesAreImplemented`
that the clients are `Private`.

**Networks** (`Ipv4NetsProofs`). `NestedOrApart`: two networks are disjoint or
one is inside the other. This is arithmetic on powers of two, whose laws would
be proved by induction, which is not available here. They are proved by counting
instead: a set of k elements has 2^k subsets (`Subsets`, from a fact of the
library), a set that grows has more of them (`PowerGrows`), and a subset of
1..j+k is a pair of one of 1..j and one of the k numbers above
(`PowerOfSum`). From there on it is division with remainder.

**Subnet daemon** (`SubnetDaemonProofs`): `Inductive`, `TypeCorrect`,
`StoreIsBacked`, `CreatorsApart`, `OwnLinksDeleted`, `MisreadEntriesHarmless`,
`LeaksAreCollisions`. They are about any interfaces of other programs, with any
networks, and about either way the lines of `ip addr show` end. `StoreBacked` is not
inductive alone, since an entry is backed by an interface that other tasks'
commands could take away. `IInv` adds what each task may rely on:

- `StepTypes` and `LockDiscipline`: who takes which steps with which values,
  and that a removal holds the mutex for all its commands;
- `CreatorOwnsLink`: from `ip link add` to its insertion a create request has
  a link of its own, that has no address before `ip addr add` and the request's
  after it, and that no entry names. `ip link add` is what makes it so: it fails
  on a name that exists;
- `RemoverOwnsLink`: a removal works on a link that no create request owns, and
  whose network has no entry any more. `ip addr del` is what makes it so: it
  fails when the interface does not have that address, for instance because
  the entry was misread.

The last three are guarded by `Sound`. A step is a step of one task, so each proof
is by action, and for each action by the part of the invariant it can disturb.
`OwnLinksDeleted` is an action property: only `LinkDel` removes a link. That the link
has no address is `BareLinks`, an invariant of its own that needs no guard: between
`ip addr del` and `ip link del` nobody gives the link one, because `ip addr add` is
only for a link its request has just made. That no create request has the link is
`RemoverOwnsLink`.

`MisreadEntriesHarmless` rests on `MisreadUntouched`: with iproute2's lines the
interface a misread entry names, and the one a removal of it works on, is the text of
a CIDR or `Untouched`, a link without an address that no task works on. Every step
keeps an untouched link so (`UntouchedKept`), hence `ip addr del` fails there.

`LeaksAreCollisions` looks at every step that could take an interface from the
entry or the task that keeps it (`StaysAccounted` is the case of those that do
not). The insertion of a create request replaces an entry only of its own
network, and by `StoreBacked` the replaced entry's interface has that network
too: this is the collision (`InsertCollides`). A removal that has taken an entry
goes on until the interface is deleted: without faults `ip addr del` fails only
on a network that does not validate or an address that is not there. The second
is excluded by `RemoverOwnsLink`, the first by `OnlyValid`, an invariant of this
proof: what is configured has passed validation. `OnlyValid` also has that a
daemon that is down has stored nothing, so that a start has nothing to lose.
`Accounted` leaves misread entries out, so that it does not matter what their
removals do.

**Ledger** (`SubnetDaemonSerialProofs`): `FollowsLedger`, the refinement
`Spec => ImplementsLedger`. The step that books is `AddrAdd`, but the decision
was `BeginCreate`'s. `StillFree` carries it over: with one request at a time
nobody else gives out an address, so what was valid and free still is, and the
request's link has no address yet. Of the steps only `AddrAdd` and `AddrDel`
change the book (`CreateBooked`, `RemoveBooked`, `OtherBooked`).

**Subnet service on macOS** (`SubnetLoopbackProofs`): `Inductive`,
`TypeCorrect`, `Lo0AsTold`, `SweepLeavesNothing`, `AcceptedIsAllowed`,
`AcceptedIsFree`, `MaskRoundTrip`. `StoreTellsLo0` alone is not inductive: two
requests that answer for one address could hand its alias to the store twice.
`IInv` adds `OwnersApart`, that of the requests and entries at most one answers
for an address that is not excused. A start needs `MaskRoundTrip`, that counting
the zeros of a netmask gives its length back, which follows from `PowerGrows`.
The two theorems on accepted networks rest on `NestedOrApart`: if neither
written address is in the other network, the networks are apart.

**TUN devices** (`TunDaemonProofs`): `Inductive`, `TypeCorrect`,
`DevicesHeldOnce`, `FreeChosen`. `IInv`, which is only a step of these proofs, adds that whoever has a device open
knows its name. `FreeChosen` is `NestedOrApart` again: a network with an address
outside of the block that was chosen is apart from it or around it.

**Daemon life cycle** (`DaemonLifecycleProofs`): `Inductive`, `TypeCorrect`,
`HolderNamed`, `LoneServerNamed`. `IInv` says that locks are exclusive, that only who has the
lock has written, and `LoneHasPath`: a daemon that met no other has the file at
the path open, since only starts move the path to another file.

**RPC connection** (`RpcConnectionProofs`): `Inductive`, `TypeCorrect`,
`KeepsPromise`, the refinement `Spec => ImplementsPipe`. The heart of `IInv` is
`Aligned`: the buffer begins where the message after the last one taken begins.
With it the bytes at the head announce the right size, so `TakeFrame` takes
exactly the next message or nothing. `Stream` and `Progress` tie messages, task
and replies together.

**NFS server: the lock and the compounds** (`NfsServerProofs`): `Inductive`,
`BusyStateidsAreOpen`, `NoneDeadlocksItself`, `NothingAfterError`. `IInv` says
that the lock is a line, of any two in it one being ahead of the other, and that
whoever does I/O is a reader with the lock. A CLOSE with the lock has nobody
ahead of it, so a busy connection would be behind it and, as a reader, could not
have the lock (`WritersAlone`). The actions fall into four kinds, each a lemma:
outside of the line, joining it, staying in it, leaving it. `handles = {}` makes
the self-deadlock unreachable. `NothingAfterError` needs that a connection which
is in the middle of an operation has only successes behind it
(`ResultsInOrder`).

**NFS server: offsets**: `OffsetsHaveRoom`, `TypeCorrect`, `StateidsStayOpen`.
`TypeOK` is not inductive, because reads and writes move an offset on.
`OffsetsInv` counts what is under way: a stateid's offset, its queued writes and
the connections between seek and read or write on it are together at most
`LastPosition`. A seek goes to an offset that a client named, where there is
room for all of them (`RoomAtStart`); every other step trades one unit of the sum for
another (`RoomMade`): a queued write that is done moves the offset on by one,
and a connection that queues one is no longer at work itself. `OffsetsInv` also has that a
stateid which is open has a file offset. OPEN takes a stateid without one, so it
replaces none, which `StateidsStayOpen` needs.

**NFS server: files**: `OffsetsAreKept`, and `FilesAreImplemented`, the refinement
`Spec => ImplementsFiles`. `FilesInv` adds three parts to `OffsetsInv`:

- `StateidsApart`: a stateid is known to one client, or is in one connection's
  results, and it was opened;
- `AtOffset`: between seek and read or write the offset is where the operation
  asked for it;
- `QueuedAsAsked`: a queued write is that of the operation which waits for it,
  has its data and its file, and the offset is still there.

A step of one connection keeps what the others rely on because they are at work on
other stateids (`WorkApart`, `OthersUndisturbed`). Each step is then mapped: OPEN,
CLOSE, and the read of READ happen where the code does them, a WRITE happens in
`Perform`, when the blocking pool does it and not when it is answered, `Reply`
and `Abort` are `End`, and all others, the seek, the queueing and the answer of a
WRITE among them, are not seen. `Answers` makes this possible, as it counts a write
as answered from `Perform` on.

**Checked with TLC only**: the liveness properties (`RequestAnswered`,
`ShutdownCompletes`, `StartServes`, `CallAnswered`, `RequestServed`), which are out
of the prover's reach.

## What disagrees with the code's own words

Three are runs that TLC finds violated:

1. `subnet_collision`: two create requests for one network can both succeed,
   on two interfaces, although "Subnet {} is already in use" is the answer when
   they come one after the other; the store forgets the first interface.
2. `subnet_restart`: with what iproute2 prints, "Detect and register existing
   subnets" registers none of them.
3. `tun_listed`: "List TUN devices" lists devices that no longer exist: the
   device is closed when `create_tun_device` returns.

Others that the models show or that came up while they were written:

- `validate_network` looks only at the written address, so 10.0.0.0/7 counts as
  "within allowed range" (`subnet_interface.rs` 42-43). `AcceptsAllowedOnly`
  says what does hold.
- "Clean up any stale pid file" (`subnet_daemon.rs` 91) removes the file of a
  daemon that runs as well. The second start makes its own, fails to bind, and
  its file goes on naming a process that has ended.
- `tun_daemon.service` and `network/README.md` name `/var/run/tun-daemon.pid`, the
  code `/var/run/tun_daemon.pid`.
- RPC's record marking has a bit for the last fragment in the length field;
  `rpc.rs` 181 takes it as a part of the size, and the connection then waits for
  2^31 more bytes.
- On Linux a read-only OPEN always fails, since `create(true)` without write
  access is refused by `OpenOptions`.
- No operation on a filehandle can succeed, since GETFH registers nothing.

## What is not modelled

- *Sandbox and logging of the daemons*: systemd's `ProtectSystem=strict` and
  capabilities, launchd's log paths, the daemons' own log files. They decide
  whether a call may succeed; in `DaemonLifecycle` calls fail for the reasons
  that other starts give them.
- *Unused code*: `write_rpc_message`, `new_garbage_args_reply`.
- *GET handlers*: they read under the mutex.
- *Commands that outlive a killed daemon*: `ip` and `ifconfig` end with it here.
- *Other interfaces on macOS* than `lo0`, and its address 127.0.0.1, which
  detection skips.
- JSON and XDR encoding, HTTP statuses, the texts of CIDRs and names: no property
  is about them.

## Plan

Every part of the system is modelled, and every safety property of a passing run
is a theorem. Left for later:

1. The window after the sweep on Linux: which interfaces stay behind, as
   `StoreTellsLo0` says for macOS. What a late DELETE can reach is stated in part, in
   the half of `DeletesOwnLinkOnly` that holds always.
2. Larger instances: three handlers, three stateids.
