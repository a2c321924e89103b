-------------------------- MODULE NfsServerPrivate --------------------------
(***************************************************************************)
(* The NFS server when no two connections use one stateid and every WRITE  *)
(* is stable. The connections still share files and the table.             *)
(***************************************************************************)
EXTENDS NfsServer

\* Each client uses its own stateids, and asks for stable writes.
Private ==
  /\ ~Shared
  /\ \A op \in Operations : op.op = "WRITE" => op.stable

\* A stable write counts as answered when the blocking pool has done it.
Answers(c) ==
  IF pc[c] = "sync" /\ ~InFlight(c)
  THEN Append(results[c], Result(Op(c), "Ok", Nothing))
  ELSE results[c]

FileService == INSTANCE NfsFiles
                 WITH Blocks <- Positions,
                      answers <- [c \in Connections |-> Answers(c)]

(***************************************************************************)
(* Private stateids and stable writes make positioned, atomic I/O of what  *)
(* handle_read and handle_write do with a shared offset in several steps.  *)
(***************************************************************************)
ImplementsFiles == FileService!Spec
-----------------------------------------------------------------------------
\* The stateids of connection c: those it was told, and those it will be.
Has(c) == known[c] \cup Granted(c)

\* A stateid is one client's, also when it is closed.
StateidsApart ==
  /\ \A c, d \in Connections : c # d => Has(c) \cap Has(d) = {}
  /\ \A c \in Connections : \A s \in Has(c) : position[s] # Unopened
  /\ \A c \in Connections : \A i \in DOMAIN todo[c] :
       todo[c][i].op \in OnStateIds => todo[c][i].stateid \in known[c]

\* A queued write is that of the operation which waits for it, at its offset.
QueuedAsAsked ==
  /\ \A q \in Slots : queued[q] # NoWrite =>
       LET w == queued[q] IN
       /\ w.stable /\ pc[w.conn] = "sync"
       /\ w.stateid = Op(w.conn).stateid /\ w.data = Op(w.conn).data
       /\ w.file = table[w.stateid].file
       /\ position[w.stateid] = Op(w.conn).offset
  /\ \A p, q \in Slots :
       queued[p] # NoWrite /\ queued[q] # NoWrite /\ queued[p].conn = queued[q].conn
         => p = q

\* Between seek and read or write nobody moves the offset.
AtOffset ==
  \A c \in Connections : pc[c] = "io" => position[Op(c).stateid] = Op(c).offset

(***************************************************************************)
(* The inductive invariant behind ImplementsFiles: as stateids are apart,  *)
(* the offset that a READ or a WRITE sought is still there when the kernel *)
(* uses it, though a thread of the pool does so some time after.           *)
(***************************************************************************)
FilesInv == OffsetsInv /\ StateidsApart /\ QueuedAsAsked /\ AtOffset
=============================================================================
