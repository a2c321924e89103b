------------------------------ MODULE NfsFiles ------------------------------
(***************************************************************************)
(* What the NFS server promises a client that uses its own stateids and    *)
(* asks for stable writes: every operation happens at once, READ returns   *)
(* the block at the offset it names, WRITE puts its block there before it  *)
(* is answered, and a stateid that is not open is refused.                 *)
(***************************************************************************)
EXTENDS Sequences

CONSTANTS Connections, Files, StateIds, Blocks, Operations,
          Faults,    \* the system calls that may fail: "read", "write"
          NoState, Blank, Nothing

VARIABLES
  content,   \* the blocks of every file
  table,     \* the stateids that are open
  answers    \* per connection: the results of the compound in progress

vars == <<content, table, answers>>

Init ==
  /\ content = [f \in Files |-> [b \in Blocks |-> Blank]]
  /\ table = [s \in StateIds |-> NoState]
  /\ answers = [c \in Connections |-> <<>>]

Answer(c, op, status, data) ==
  answers' = [answers EXCEPT ![c] =
    Append(@, [op |-> op, status |-> status, data |-> data])]

Open(c, op) ==
  /\ op.op = "OPEN" /\ op.claim = "null" /\ "write" \in op.access
  /\ \E s \in StateIds :
       /\ table[s] = NoState
       /\ table' = [table EXCEPT ![s] = [file |-> op.file, access |-> op.access]]
       /\ Answer(c, op, "Ok", s)
  /\ UNCHANGED content

OpenFails(c, op) ==
  /\ op.op = "OPEN"
  /\ \E status \in {"Error", "IoError"} : Answer(c, op, status, Nothing)
  /\ UNCHANGED <<content, table>>

Close(c, op) ==
  /\ op.op = "CLOSE" /\ table[op.stateid] # NoState
  /\ table' = [table EXCEPT ![op.stateid] = NoState]
  /\ Answer(c, op, "Ok", Nothing)
  /\ UNCHANGED content

BadStateid(c, op) ==
  /\ op.op \in {"CLOSE", "READ", "WRITE"} /\ table[op.stateid] = NoState
  /\ Answer(c, op, "BadStateid", Nothing)
  /\ UNCHANGED <<content, table>>

Read(c, op) ==
  /\ op.op = "READ" /\ table[op.stateid] # NoState /\ op.offset \in Blocks
  /\ \/ /\ "read" \in table[op.stateid].access
        /\ Answer(c, op, "Ok", content[table[op.stateid].file][op.offset])
     \/ /\ "read" \notin table[op.stateid].access \/ "read" \in Faults
        /\ Answer(c, op, "IoError", Nothing)
  /\ UNCHANGED <<content, table>>

\* A write that fails is not reported: the client is told that it was done.
Write(c, op) ==
  /\ op.op = "WRITE" /\ table[op.stateid] # NoState /\ op.offset \in Blocks
  /\ \/ content' = [content EXCEPT ![table[op.stateid].file][op.offset] = op.data]
     \/ "write" \in Faults /\ UNCHANGED content
  /\ Answer(c, op, "Ok", Nothing)
  /\ UNCHANGED table

\* The operations on filehandles and the unsupported ones.
NoEffect(c, op) ==
  /\ op.op \notin {"OPEN", "CLOSE", "READ", "WRITE"}
  /\ \E status \in {"Ok", "BadHandle", "StaleFileHandle", "Error"} :
       Answer(c, op, status, Nothing)
  /\ UNCHANGED <<content, table>>

\* The response is sent, or the connection ends.
End(c) ==
  /\ answers' = [answers EXCEPT ![c] = <<>>]
  /\ UNCHANGED <<content, table>>

Next ==
  \E c \in Connections :
    \/ End(c)
    \/ \E op \in Operations :
         \/ Open(c, op) \/ OpenFails(c, op) \/ Close(c, op)
         \/ BadStateid(c, op) \/ Read(c, op) \/ Write(c, op) \/ NoEffect(c, op)

Spec == Init /\ [][Next]_vars
=============================================================================
