------------------------------ MODULE RpcPipe ------------------------------
(***************************************************************************)
(* What a connection to the NFS server promises: the calls a client sends  *)
(* are worked on one at a time, in the order they were sent, and each is   *)
(* answered once, before the next one begins, until the connection ends.   *)
(* It ends only when the client has left or because of the call that it    *)
(* works on.                                                               *)
(***************************************************************************)
EXTENDS Naturals, Sequences

CONSTANTS Answers,  \* per kind of call, how it can be answered
          Fatal     \* the kinds of calls that can end the connection

VARIABLES
  calls,     \* the kinds of the calls sent so far
  begun,     \* how many of them the server has begun to work on
  replies,   \* the replies sent so far: to which call, and which answer
  left,      \* the client has closed its end
  ended      \* the server has closed its end

vars == <<calls, begun, replies, left, ended>>

Init == calls = <<>> /\ begun = 0 /\ replies = <<>> /\ left = FALSE /\ ended = FALSE

Send ==
  /\ ~left
  /\ \E k \in DOMAIN Answers : calls' = Append(calls, k)
  /\ UNCHANGED <<begun, replies, left, ended>>

Leave == ~left /\ left' = TRUE /\ UNCHANGED <<calls, begun, replies, ended>>

Begin ==
  /\ ~ended /\ begun = Len(replies) /\ begun < Len(calls)
  /\ begun' = begun + 1
  /\ UNCHANGED <<calls, replies, left, ended>>

Answer ==
  /\ ~ended /\ begun = Len(replies) + 1
  /\ \E a \in Answers[calls[begun]] :
       replies' = Append(replies, [call |-> begun, answer |-> a])
  /\ UNCHANGED <<calls, begun, left, ended>>

End ==
  /\ ~ended /\ ended' = TRUE
  /\ \/ left
     \/ begun = Len(replies) + 1 /\ calls[begun] \in Fatal
  /\ UNCHANGED <<calls, begun, replies, left>>

Next == Send \/ Leave \/ Begin \/ Answer \/ End

Spec == Init /\ [][Next]_vars
=============================================================================
