------------------------ MODULE MCNfsServerPrivate ------------------------
EXTENDS NfsServerPrivate, TLC

CONSTANTS A, B, F

ASSUME Private

OpenF(access, claim) == [op |-> "OPEN", file |-> F, access |-> access, claim |-> claim]
CloseS(s) == [op |-> "CLOSE", stateid |-> s]
ReadS(s, o) == [op |-> "READ", stateid |-> s, offset |-> o]
StableWrite(s, o, d) ==
  [op |-> "WRITE", stateid |-> s, offset |-> o, data |-> d, stable |-> TRUE]

\* A WRITE is followed by a READ in its compound, or by the next request.
DataRequests ==
  {<<OpenF({"read", "write"}, "null")>>, <<OpenF({"write"}, "null")>>,
   <<OpenF({"write"}, "previous"), [op |-> "GETFH"]>>}
    \cup {<<CloseS(s)>> : s \in StateIds}
    \cup {<<StableWrite(s, 0, A), ReadS(s, 0)>> : s \in StateIds}
    \cup {<<StableWrite(s, 1, B)>> : s \in StateIds}
    \cup {<<ReadS(s, 1)>> : s \in StateIds}

DataOperations == UNION {ToSet(r) : r \in DataRequests}

TwoOffsets == 0 .. 1

TwoSlots == 1 .. 2
=============================================================================
