-------------------------- MODULE MCRpcConnection --------------------------
EXTENDS RpcConnection

\* Every kind of message, with a body of no byte, of one or of two.
MCCalls ==
  {[kind |-> k, size |-> n, marked |-> FALSE] :
     k \in Kinds, n \in {1}}
    \cup {[kind |-> "nfs", size |-> n, marked |-> m] : n \in {0, 2}, m \in BOOLEAN}
=============================================================================
