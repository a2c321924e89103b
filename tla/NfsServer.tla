------------------------------ MODULE NfsServer ------------------------------
(***************************************************************************)
(* The NFS server, nfs4/src/server.rs: one task per connection that runs   *)
(* the operations of a compound in order, over two tables behind tokio     *)
(* RwLocks, `handles` and `stateids`, and over the files of the export.    *)
(*                                                                         *)
(* A stateid names an open file description. READ and WRITE clone its      *)
(* file, which shares the file offset, and seek before they read or write. *)
(* write_all of a tokio File returns when the write is queued; a thread of *)
(* the blocking pool performs it, and sync_all waits for it.               *)
(***************************************************************************)
EXTENDS Integers, FiniteSets, SequencesExt

CONSTANTS Connections, Files, StateIds, FileHandles,
          Operations,  \* the operations that compounds are made of
          Requests,    \* the compounds, sequences of operations
          Shared,      \* clients use each other's stateids, or only their own
          Offsets,     \* of READ and WRITE, in blocks of data
          Huge,        \* an offset over i64::MAX, which seek refuses
          Data,        \* the block that one WRITE carries
          Slots,       \* the writes that can be queued at a time
          Faults,      \* the calls that may fail: open, dup ("clone"), ...
          NoState, NoHandle, NoWrite, Blank, Nothing

OnHandles == {"ACCESS", "COMMIT", "GETATTR", "CREATE", "LOOKUP"}
OnStateIds == {"CLOSE", "READ", "WRITE"}

FileState == [file : Files, access : SUBSET {"read", "write"}]

QueuedWrite ==
  [conn : Connections, stateid : StateIds, file : Files, data : Data, stable : BOOLEAN]

ASSUME NfsAssumption ==
  /\ Requests \subseteq Seq(Operations)
  /\ Shared \in BOOLEAN
  /\ IsFiniteSet(Connections) /\ NoState \notin FileState
  /\ NoWrite \notin QueuedWrite
  /\ Slots \subseteq Nat /\ IsFiniteSet(Slots)
  /\ Offsets \subseteq Nat /\ Huge \notin Offsets
  /\ \E last \in Offsets : \A o \in Offsets : o <= last
  /\ NoHandle \notin FileHandles /\ Blank \notin Data
  /\ Faults \subseteq {"open", "clone", "read", "write", "sync", "reply"}

\* What the operations of a compound carry that the model looks at.
ASSUME OperationsAssumption ==
  \A op \in Operations :
    /\ op.op = "OPEN" => op.file \in Files /\ op.access \subseteq {"read", "write"}
    /\ op.op \in OnStateIds => op.stateid \in StateIds
    /\ op.op \in {"READ", "WRITE"} => op.offset \in Offsets \cup {Huge}
    /\ op.op = "WRITE" => op.data \in Data /\ op.stable \in BOOLEAN

VARIABLES
  handles,   \* the keys of `handles`
  table,     \* `stateids`: the FileState of every stateid that is open
  ahead,     \* the lock of `stateids`: who came before each connection in line
  position,  \* the kernel: the offset of each stateid's file description
  content,   \* the kernel: the blocks of every file
  queued,    \* the writes of the blocking pool
  pc, todo, results, fh,   \* per connection: the compound in progress
  known      \* per client: the stateids that replies have told it

locals == <<pc, todo, results, fh>>
opens == <<table, position>>
kernel == <<content, queued>>

vars == <<handles, ahead, known, opens, kernel, locals>>

Unopened == -1

LastPosition == Max(Offsets) + Cardinality(Slots) + Cardinality(Connections)

Positions == 0 .. LastPosition

Statuses == {"Ok", "Error", "BadHandle", "BadType", "NoEnt", "IoError",
             "StaleFileHandle", "BadStateid"}

\* An OPEN that succeeded carries a stateid, a READ its block.
OperationResult ==
  {r \in [op : Operations, status : Statuses,
          data : StateIds \cup Data \cup {Blank, Nothing}] :
     r.op.op = "OPEN" /\ r.status = "Ok" => r.data \in StateIds}

TypeOK ==
  /\ handles \subseteq FileHandles
  /\ table \in [StateIds -> FileState \cup {NoState}]
  /\ ahead \in [Connections -> SUBSET Connections]
  /\ position \in [StateIds -> Positions \cup {Unopened}]
  /\ content \in [Files -> [Positions -> Data \cup {Blank}]]
  /\ queued \in [Slots -> QueuedWrite \cup {NoWrite}]
  /\ pc \in [Connections -> {"idle", "next", "wait", "io", "sync", "stuck"}]
  /\ todo \in [Connections -> Seq(Operations)]
  /\ results \in [Connections -> Seq(OperationResult)]
  /\ fh \in [Connections -> FileHandles \cup {NoHandle}]
  /\ known \in [Connections -> SUBSET StateIds]
-----------------------------------------------------------------------------
Op(c) == Head(todo[c])

Goto(c, s) == pc' = [pc EXCEPT ![c] = s]

Result(op, status, data) == [op |-> op, status |-> status, data |-> data]

\* The operation is answered, and the compound goes on.
Finish(c, status, data) ==
  /\ Goto(c, "next")
  /\ todo' = [todo EXCEPT ![c] = Tail(@)]
  /\ results' = [results EXCEPT ![c] = Append(@, Result(Op(c), status, data))]

\* handle_compound returns: the task waits for the next request.
EndCompound(c) ==
  /\ Goto(c, "idle")
  /\ todo' = [todo EXCEPT ![c] = <<>>]
  /\ results' = [results EXCEPT ![c] = <<>>]
  /\ fh' = [fh EXCEPT ![c] = NoHandle]

(***************************************************************************)
(* A client sends a compound, with stateids it was told. Its later         *)
(* requests stay in the socket until this one is answered.                 *)
(***************************************************************************)
Receive(c) ==
  /\ pc[c] = "idle"
  /\ \E r \in Requests :
       /\ \A i \in DOMAIN r : r[i].op \in OnStateIds =>
            \/ r[i].stateid \in known[c]
            \/ Shared /\ \E d \in Connections : r[i].stateid \in known[d]
       /\ todo' = [todo EXCEPT ![c] = r]
  /\ Goto(c, "next")
  /\ UNCHANGED <<handles, ahead, known, opens, kernel, results, fh>>

\* Mutant: the loop goes on after an operation that failed.
NeverOver(c) == todo[c] = <<>>

Over(c) ==
  \/ todo[c] = <<>>
  \/ results[c] # <<>> /\ Last(results[c]).status # "Ok"

\* The next operation is one of the kinds in S.
Runs(c, S) == pc[c] = "next" /\ ~Over(c) /\ Op(c).op \in S

\* The stateids that the results of connection c tell.
Granted(c) ==
  {r.data : r \in {x \in ToSet(results[c]) : x.op.op = "OPEN" /\ x.status = "Ok"}}

\* The response is written to the socket; a client that has left misses it.
Reply(c) ==
  /\ pc[c] = "next" /\ Over(c)
  /\ \/ known' = [known EXCEPT ![c] = @ \cup Granted(c)]
     \/ "reply" \in Faults /\ UNCHANGED known
  /\ EndCompound(c)
  /\ UNCHANGED <<handles, ahead, opens, kernel>>
-----------------------------------------------------------------------------
\* Mutant: GETFH registers the handle, as a handle of the root.
GetFhRegisters(c) ==
  /\ Runs(c, {"GETFH"})
  /\ \E h \in FileHandles \ handles :
       /\ fh' = [fh EXCEPT ![c] = h]
       /\ handles' = handles \cup {h}
  /\ Finish(c, "Ok", Nothing)
  /\ UNCHANGED <<ahead, known, opens, kernel>>

\* GETFH hands out sixteen random bytes.
GetFh(c) ==
  /\ Runs(c, {"GETFH"})
  /\ \E h \in FileHandles \ handles : fh' = [fh EXCEPT ![c] = h]
  /\ Finish(c, "Ok", Nothing)
  /\ UNCHANGED <<handles, ahead, known, opens, kernel>>

(***************************************************************************)
(* How the operations on the current filehandle can end. The handlers hold *)
(* a read guard of `handles`; LOOKUP of what exists, and CREATE that       *)
(* succeeds, await its write lock before they drop that guard. A sync_all  *)
(* of COMMIT that fails ends the connection.                               *)
(***************************************************************************)
Outcomes(c) ==
  IF fh[c] = NoHandle THEN {"BadHandle"}
  ELSE IF fh[c] \notin handles THEN {"StaleFileHandle"}
  ELSE CASE Op(c).op = "LOOKUP" -> {"NoEnt", "self-deadlock"}
         [] Op(c).op = "CREATE" -> {"BadType", "IoError", "self-deadlock"}
         [] Op(c).op = "COMMIT" -> {"Ok", "IoError", "abort"}
         [] OTHER               -> {"Ok", "NoEnt"}

UseHandle(c) ==
  /\ Runs(c, OnHandles)
  /\ fh[c] # NoHandle => \A d \in Connections : pc[d] # "stuck"
  /\ \E s \in Outcomes(c) :
       IF s = "self-deadlock"
       THEN Goto(c, "stuck") /\ UNCHANGED <<todo, results, fh>>
       ELSE IF s = "abort" THEN EndCompound(c)
       ELSE Finish(c, s, Nothing) /\ UNCHANGED fh
  /\ UNCHANGED <<handles, ahead, known, opens, kernel>>

\* LOOKUPP and OPEN_CONFIRM.
Unsupported(c) ==
  /\ Runs(c, {"LOOKUPP", "OPENCONFIRM"})
  /\ Finish(c, "Error", Nothing)
  /\ UNCHANGED <<handles, ahead, known, opens, kernel, fh>>
-----------------------------------------------------------------------------
(***************************************************************************)
(* tokio's RwLock is fair: a reader shares it with the readers before it,  *)
(* a writer has it when all who came before it are gone.                   *)
(***************************************************************************)
InLine(c) == pc[c] \in {"wait", "io", "sync"}

Writers == {"OPEN", "CLOSE"}

\* Mutant: those who still wait do not count.
AwaitBehindHolders(c) ==
  /\ Runs(c, OnStateIds \cup {"OPEN"})
  /\ ahead' = [ahead EXCEPT ![c] = {d \in Connections : pc[d] \in {"io", "sync"}}]
  /\ Goto(c, "wait")
  /\ UNCHANGED <<handles, known, opens, kernel, todo, results, fh>>

Await(c) ==
  /\ Runs(c, OnStateIds \cup {"OPEN"})
  /\ ahead' = [ahead EXCEPT ![c] = {d \in Connections : InLine(d)}]
  /\ Goto(c, "wait")
  /\ UNCHANGED <<handles, known, opens, kernel, todo, results, fh>>

\* Mutant: CLOSE takes the lock for reading.
HoldsToClose(c) ==
  IF Op(c).op = "OPEN"
  THEN ahead[c] = {}
  ELSE \A d \in ahead[c] : Op(d).op # "OPEN"

\* Mutant: readers pass the writers that wait.
HoldsUnfair(c) ==
  Op(c).op \in Writers => \A d \in Connections \ {c} : ~InLine(d)

Holds(c) ==
  IF Op(c).op \in Writers
  THEN ahead[c] = {}
  ELSE \A d \in ahead[c] : Op(d).op \notin Writers

Unlock(c) ==
  ahead' = [d \in Connections |-> IF d = c THEN {} ELSE ahead[d] \ {c}]

\* The operation has the lock.
Enters(c, S) == pc[c] = "wait" /\ Op(c).op \in S /\ Holds(c)

\* An error goes up with `?`: the connection ends without a reply.
Abort(c) == EndCompound(c) /\ Unlock(c)
-----------------------------------------------------------------------------
(***************************************************************************)
(* OPEN of a path of the export, for reading only if share_access has      *)
(* READ, for writing if it has MODIFY or EXTEND. create(true) is refused   *)
(* by OpenOptions unless the file is opened for writing.                   *)
(***************************************************************************)
Openable(op) == op.claim = "null" /\ "write" \in op.access

Fresh == {s \in StateIds : position[s] = Unopened}

\* Mutant: a stateid is given again when it has been closed.
OpenReused(c) ==
  /\ Enters(c, {"OPEN"}) /\ Openable(Op(c))
  /\ \E s \in StateIds :
       /\ table[s] = NoState
       /\ table' = [table EXCEPT ![s] =
            [file |-> Op(c).file, access |-> Op(c).access]]
       /\ position' = [position EXCEPT ![s] = 0]
       /\ Finish(c, "Ok", s)
  /\ Unlock(c)
  /\ UNCHANGED <<handles, known, kernel, fh>>

Open(c) ==
  /\ Enters(c, {"OPEN"})
  /\ \/ /\ Openable(Op(c))
        /\ \E s \in Fresh :
             /\ table' = [table EXCEPT ![s] =
                  [file |-> Op(c).file, access |-> Op(c).access]]
             /\ position' = [position EXCEPT ![s] = 0]
             /\ Finish(c, "Ok", s)
     \/ /\ ~Openable(Op(c)) \/ Fresh = {} \/ "open" \in Faults
        /\ Finish(c, IF Op(c).claim = "null" THEN "IoError" ELSE "Error", Nothing)
        /\ UNCHANGED opens
  /\ Unlock(c)
  /\ UNCHANGED <<handles, known, kernel, fh>>

\* Mutant: CLOSE forgets every stateid of the file.
CloseFile(c) ==
  /\ Enters(c, {"CLOSE"})
  /\ Finish(c, "Ok", Nothing)
  /\ table' = [s \in StateIds |-> IF table[s] = table[Op(c).stateid]
                                  THEN NoState ELSE table[s]]
  /\ Unlock(c)
  /\ UNCHANGED <<handles, known, position, kernel, fh>>

Close(c) ==
  /\ Enters(c, {"CLOSE"})
  /\ IF table[Op(c).stateid] # NoState
     THEN Finish(c, "Ok", Nothing)
     ELSE Finish(c, "BadStateid", Nothing)
  /\ table' = [table EXCEPT ![Op(c).stateid] = NoState]
  /\ Unlock(c)
  /\ UNCHANGED <<handles, known, position, kernel, fh>>
-----------------------------------------------------------------------------
\* Mutant: an offset over i64::MAX is taken as it is.
SeekAnywhere(c) ==
  /\ Enters(c, {"READ", "WRITE"})
  /\ LET s == Op(c).stateid IN
     IF table[s] = NoState
     THEN Finish(c, "BadStateid", Nothing) /\ Unlock(c) /\ UNCHANGED position
     ELSE /\ position' = [position EXCEPT ![s] = Op(c).offset]
          /\ Goto(c, "io") /\ UNCHANGED <<ahead, todo, results>>
  /\ UNCHANGED <<handles, known, table, kernel, fh>>

\* READ and WRITE find the stateid, clone its file and seek, or fail to.
Seek(c) ==
  /\ Enters(c, {"READ", "WRITE"})
  /\ LET s == Op(c).stateid IN
     \/ /\ table[s] = NoState
        /\ Finish(c, "BadStateid", Nothing) /\ Unlock(c)
        /\ UNCHANGED <<position, fh>>
     \/ /\ table[s] # NoState /\ Op(c).offset \in Offsets
        /\ position' = [position EXCEPT ![s] = Op(c).offset]
        /\ Goto(c, "io")
        /\ UNCHANGED <<ahead, todo, results, fh>>
     \/ /\ table[s] # NoState
        /\ Op(c).offset = Huge \/ "clone" \in Faults
        /\ Abort(c)
        /\ UNCHANGED position
  /\ UNCHANGED <<handles, known, table, kernel>>

\* The file ends before position p.
AtEnd(f, p) == \A q \in Positions : q >= p => content[f][q] = Blank

\* One read(2) at the description's offset. A write-only one is refused.
Read(c) ==
  /\ pc[c] = "io" /\ Op(c).op = "READ"
  /\ LET s == Op(c).stateid
         f == table[s].file
         p == position[s]
     IN  \/ /\ "read" \in table[s].access
            /\ position' = [position EXCEPT ![s] = IF AtEnd(f, p) THEN p ELSE p + 1]
            /\ Finish(c, "Ok", content[f][p])
         \/ /\ "read" \notin table[s].access \/ "read" \in Faults
            /\ Finish(c, "IoError", Nothing)
            /\ UNCHANGED position
  /\ Unlock(c)
  /\ UNCHANGED <<handles, known, table, kernel, fh>>

FreeSlots == {q \in Slots : queued[q] = NoWrite}

\* write_all queues the write; only a stable one is waited for.
Write(c) ==
  /\ pc[c] = "io" /\ Op(c).op = "WRITE"
  /\ FreeSlots # {}
  /\ queued' = [queued EXCEPT ![Min(FreeSlots)] =
            [conn |-> c, stateid |-> Op(c).stateid,
             file |-> table[Op(c).stateid].file,
             data |-> Op(c).data, stable |-> Op(c).stable]]
  /\ IF Op(c).stable
     THEN Goto(c, "sync") /\ UNCHANGED <<ahead, todo, results>>
     ELSE Finish(c, "Ok", Nothing) /\ Unlock(c)
  /\ UNCHANGED <<handles, known, opens, content, fh>>

\* The connection's stable write is still queued.
InFlight(c) ==
  \E q \in Slots : queued[q] # NoWrite /\ queued[q].conn = c /\ queued[q].stable

\* Mutant: sync_all does not wait for the queued write.
SyncAtOnce(c) ==
  /\ pc[c] = "sync"
  /\ Finish(c, "Ok", Nothing) /\ Unlock(c)
  /\ UNCHANGED <<handles, known, opens, kernel, fh>>

(***************************************************************************)
(* sync_all waits for the write and calls fsync(2). A write that failed is *)
(* not its error: it is kept for a later write of the clone, which is      *)
(* dropped now.                                                            *)
(***************************************************************************)
Sync(c) ==
  /\ pc[c] = "sync" /\ ~InFlight(c)
  /\ \/ Finish(c, "Ok", Nothing) /\ Unlock(c) /\ UNCHANGED fh
     \/ "sync" \in Faults /\ Abort(c)
  /\ UNCHANGED <<handles, known, opens, kernel>>

\* A thread of the pool does write(2) at the offset the description has now.
Perform(q) ==
  /\ queued[q] # NoWrite
  /\ queued' = [queued EXCEPT ![q] = NoWrite]
  /\ LET w == queued[q] IN
     \/ /\ content' = [content EXCEPT ![w.file][position[w.stateid]] = w.data]
        /\ position' = [position EXCEPT ![w.stateid] = @ + 1]
     \/ "write" \in Faults /\ UNCHANGED <<content, position>>
  /\ UNCHANGED <<handles, ahead, known, table, locals>>
-----------------------------------------------------------------------------
Init ==
  /\ handles = {}
  /\ table = [s \in StateIds |-> NoState]
  /\ ahead = [c \in Connections |-> {}]
  /\ position = [s \in StateIds |-> Unopened]
  /\ content = [f \in Files |-> [p \in Positions |-> Blank]]
  /\ queued = [q \in Slots |-> NoWrite]
  /\ pc = [c \in Connections |-> "idle"]
  /\ todo = [c \in Connections |-> <<>>]
  /\ results = [c \in Connections |-> <<>>]
  /\ fh = [c \in Connections |-> NoHandle]
  /\ known = [c \in Connections |-> {}]

\* The task of connection c goes on with the compound it has.
Serve(c) ==
  \/ GetFh(c) \/ UseHandle(c) \/ Unsupported(c)
  \/ Await(c) \/ Open(c) \/ Close(c)
  \/ Seek(c) \/ Read(c) \/ Write(c) \/ Sync(c)
  \/ Reply(c)

Next ==
  \/ \E c \in Connections : Receive(c) \/ Serve(c)
  \/ \E q \in Slots : Perform(q)

Spec == Init /\ [][Next]_vars

\* tokio runs the tasks that can go on, and the pool what is queued.
FairSpec ==
  /\ Spec
  /\ \A c \in Connections : WF_vars(Serve(c))
  /\ \A q \in Slots : WF_vars(Perform(q))
-----------------------------------------------------------------------------
(***************************************************************************)
(* handle_compound: of the operations of a compound only the last one that *)
(* ran can have failed.                                                    *)
(***************************************************************************)
StopsAtFirstError ==
  \A c \in Connections : \A i \in DOMAIN results[c] :
    i < Len(results[c]) => results[c][i].status = "Ok"

(***************************************************************************)
(* handle_read and handle_write keep their read guard to the end: no CLOSE *)
(* of another connection takes the stateid away from under them.           *)
(***************************************************************************)
BusyStateidStaysOpen ==
  \A c \in Connections :
    pc[c] \in {"io", "sync"} => table[Op(c).stateid] # NoState

(***************************************************************************)
(* handle_lookup and handle_create await the write lock of `handles` under *)
(* their own read guard. No connection gets there, because no handle that  *)
(* a client is given is ever in `handles`.                                 *)
(***************************************************************************)
NoSelfDeadlock == \A c \in Connections : pc[c] # "stuck"

(***************************************************************************)
(* A stateid that OPEN returned stays open, for every client and whatever  *)
(* becomes of connections, until a CLOSE of that very stateid.             *)
(***************************************************************************)
GoesOnlyByClose ==
  [][\A s \in StateIds : table[s] # NoState /\ table'[s] # table[s] =>
       \E c \in Connections :
         /\ pc[c] = "wait" /\ Op(c).op = "CLOSE" /\ Op(c).stateid = s
         /\ results'[c] # results[c]]_vars

(***************************************************************************)
(* Every request is answered, or its connection ended, even if the others  *)
(* go on sending READ and WRITE for ever while an OPEN or a CLOSE waits.   *)
(***************************************************************************)
RequestServed ==
  \A c \in Connections : pc[c] # "idle" ~> pc[c] = "idle"
-----------------------------------------------------------------------------
(***************************************************************************)
(* The lock of `stateids` is a line: of any two connections in it one came *)
(* first. Who does its input or output is a reader that has the lock.      *)
(***************************************************************************)
LineInOrder ==
  \A c, d \in Connections :
    /\ d \in ahead[c] => InLine(c) /\ InLine(d) /\ c \notin ahead[d]
    /\ InLine(c) /\ InLine(d) /\ c # d => c \in ahead[d] \/ d \in ahead[c]

BusyHasLock ==
  \A c \in Connections :
    pc[c] \in {"io", "sync"} => Op(c).op \in {"READ", "WRITE"} /\ Holds(c)

\* The functions that the actions update are functions on their index sets.
Shapes ==
  /\ pc \in [Connections -> {"idle", "next", "wait", "io", "sync", "stuck"}]
  /\ ahead \in [Connections -> SUBSET Connections]
  /\ todo = [c \in Connections |-> todo[c]]
  /\ table = [s \in StateIds |-> table[s]]

(***************************************************************************)
(* The inductive invariant behind BusyStateidStaysOpen and NoSelfDeadlock: *)
(* a CLOSE that has the lock has no one ahead of it, so that a busy        *)
(* connection would be behind it and, being a reader, would not have the   *)
(* lock; and with `handles` empty no handle finds a path.                  *)
(***************************************************************************)
IInv ==
  /\ Shapes
  /\ handles = {}
  /\ NoSelfDeadlock
  /\ LineInOrder
  /\ BusyHasLock
  /\ BusyStateidStaysOpen
-----------------------------------------------------------------------------
\* What a task that is not between two operations works on.
Stages ==
  \A c \in Connections :
    /\ pc[c] \in {"wait", "io", "sync"} => todo[c] # <<>>
    /\ pc[c] = "wait" => Op(c).op \in OnStateIds \cup {"OPEN"}
    /\ pc[c] = "sync" => Op(c).op = "WRITE" /\ Op(c).stable

\* The steps in progress that move the offset of s's file description on.
QueuedOn(s) == {q \in Slots : queued[q] # NoWrite /\ queued[q].stateid = s}

AtWorkOn(s) == {c \in Connections : pc[c] = "io" /\ Op(c).stateid = s}

(***************************************************************************)
(* The inductive invariant behind TypeOK: a file description that is used  *)
(* has been opened, and its offset leaves room for all that is under way.  *)
(***************************************************************************)
OffsetsInv ==
  /\ TypeOK
  /\ IInv
  /\ Stages
  /\ \A s \in StateIds : table[s] # NoState => position[s] # Unopened
  /\ \A q \in Slots :
       queued[q] # NoWrite => position[queued[q].stateid] # Unopened
  /\ \A s \in StateIds : position[s] # Unopened =>
       position[s] + Cardinality(QueuedOn(s)) + Cardinality(AtWorkOn(s)) <= LastPosition
=============================================================================
