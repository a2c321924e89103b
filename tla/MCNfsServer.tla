---------------------------- MODULE MCNfsServer ----------------------------
EXTENDS NfsServer, TLC

CONSTANTS A, F

OpenF(access, claim) == [op |-> "OPEN", file |-> F, access |-> access, claim |-> claim]
CloseS(s) == [op |-> "CLOSE", stateid |-> s]
ReadS(s, o) == [op |-> "READ", stateid |-> s, offset |-> o]
WriteS(s, o, stable) ==
  [op |-> "WRITE", stateid |-> s, offset |-> o, data |-> A, stable |-> stable]
Other(name) == [op |-> name]

\* Every operation, some after one that fails or that changes what they find.
MixedRequests ==
  {<<OpenF({"read", "write"}, "null")>>, <<OpenF({"read"}, "null"), Other("OPENCONFIRM")>>,
   <<Other("GETFH"), Other("LOOKUP")>>, <<Other("CREATE")>>, <<Other("LOOKUPP")>>}
    \cup {<<CloseS(s), ReadS(s, 0)>> : s \in StateIds}
    \cup {<<ReadS(s, 0)>> : s \in StateIds}
    \cup {<<ReadS(s, Huge)>> : s \in StateIds}
    \cup {<<WriteS(s, 0, stable)>> : s \in StateIds, stable \in BOOLEAN}

MixedOperations == UNION {ToSet(r) : r \in MixedRequests}

OneOffset == {0}

OneSlot == {1}

Symmetry == Permutations(Connections) \cup Permutations(StateIds)
=============================================================================
