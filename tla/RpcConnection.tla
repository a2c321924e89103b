--------------------------- MODULE RpcConnection ---------------------------
(***************************************************************************)
(* A connection of the NFS server: handle_client of nfs4/src/main.rs, with *)
(* read_rpc_message of nfs4/src/rpc.rs, and its client.                    *)
(*                                                                         *)
(* What a client sends is a stream of bytes, numbered from 0. A message    *)
(* starts with Header bytes that announce its size. TCP delivers the       *)
(* stream in pieces of any length; the server's buffer holds the bytes     *)
(* from `head` up to `tail`.                                               *)
(***************************************************************************)
EXTENDS Integers, Sequences

CONSTANTS Header,   \* bytes of a length field, 4
          LastFragment,  \* 2^31: RPC's record mark has the last fragment's bit there
          Calls     \* what clients send, see Call

\* The kinds of messages, by what the server finds in them.
Kinds == {"nfs",          \* a call of NFS version 4
          "badargs",      \* one whose data is not a compound request
          "other",        \* a call of another program or version, or a reply
          "undecodable"}  \* not an RPC message

\* Whether the header is only the size, or a record mark with its high bit.
Call == [kind : Kinds, size : Nat, marked : BOOLEAN]

ASSUME RpcAssumption ==
  /\ Header \in Nat \ {0} /\ LastFragment \in Nat \ {0}
  /\ Calls \subseteq Call

VARIABLES
  sent,     \* the client: its messages, each with the number of its first byte
  end,      \* the network: the bytes of the stream that reach the server
  left,     \* the client has closed the connection
  head, tail,  \* the bytes in `buf`
  task,     \* what handle_client does next
  cur,      \* the number of the message it took last, which stands for its xid
  replies   \* the replies written whole

client == <<sent, left>>

vars == <<client, end, head, tail, task, cur, replies>>

Statuses == {"SUCCESS", "PROG_MISMATCH"}

\* Every index of a buffer or of a message is one that the stream has.
TypeOK ==
  /\ sent \in Seq([kind : Kinds, size : Nat, marked : BOOLEAN, start : Nat])
  /\ head \in Nat /\ tail \in Nat /\ end \in Nat
  /\ head <= tail /\ tail <= end
  /\ left \in BOOLEAN
  /\ task \in {"read", "frames", "decode", "call", "length", "body", "ended"}
  /\ cur \in 0 .. Len(sent)
  /\ replies \in Seq([call : Nat, answer : Statuses])
-----------------------------------------------------------------------------
After(m) == m.start + Header + m.size

\* A client writes a message. It sends less than LastFragment bytes in all.
Send(c) ==
  /\ ~left /\ end + Header + c.size < LastFragment
  /\ sent' = Append(sent, [kind |-> c.kind, size |-> c.size,
                           marked |-> c.marked, start |-> end])
  /\ end' = end + Header + c.size
  /\ UNCHANGED <<left, head, tail, task, cur, replies>>

\* It closes the connection; some of what it wrote last may never arrive.
Leave ==
  /\ ~left /\ left' = TRUE
  /\ end' \in tail .. end
  /\ UNCHANGED <<sent, head, tail, task, cur, replies>>
-----------------------------------------------------------------------------
Goto(s) == task' = s

\* read_buf: some of the bytes that have arrived, at least one.
Read ==
  /\ task = "read" /\ tail < end
  /\ tail' \in tail + 1 .. end
  /\ Goto("frames")
  /\ UNCHANGED <<client, end, head, cur, replies>>

\* read_buf returns 0, or an error since the client has gone.
EndOfStream ==
  /\ task = "read" /\ left
  /\ Goto("ended")
  /\ UNCHANGED <<client, end, head, tail, cur, replies>>

\* u32::from_be_bytes of the bytes at p: any number if no message starts there.
Announced(p) ==
  IF \E i \in DOMAIN sent : sent[i].start = p
  THEN {sent[i].size + (IF sent[i].marked THEN LastFragment ELSE 0) :
          i \in {j \in DOMAIN sent : sent[j].start = p}}
  ELSE 0 .. LastFragment

\* Mutant: the size is compared without the length field.
CompleteButHeader(n) == tail - head >= Header /\ tail - head >= n

\* The buffer holds a length field that announces n bytes, and the n bytes.
Complete(n) == tail - head >= Header /\ tail - head >= Header + n

\* read_rpc_message returns None: handle_client reads on.
NoFrame ==
  /\ task = "frames" /\ \E n \in Announced(head) : ~Complete(n)
  /\ Goto("read")
  /\ UNCHANGED <<client, end, head, tail, cur, replies>>

\* The message that the n bytes at p are, if they are one.
Decoded(p, n) == {i \in DOMAIN sent : sent[i].start + Header = p /\ sent[i].size = n}

\* Mutant: the length field is left in the buffer.
TakeFrameNoAdvance ==
  /\ task = "frames"
  /\ \E n \in Announced(head) :
       /\ Complete(n)
       /\ head' = head + n
       /\ cur' \in Decoded(head, n) \cup (IF Decoded(head, n) = {} THEN {0} ELSE {})
  /\ Goto("decode")
  /\ UNCHANGED <<client, end, tail, replies>>

\* read_rpc_message takes a message out of the buffer; 0 stands for no message.
TakeFrame ==
  /\ task = "frames"
  /\ \E n \in Announced(head) :
       /\ Complete(n)
       /\ head' = head + Header + n
       /\ LET found == Decoded(head + Header, n) IN
          cur' \in IF found = {} THEN {0} ELSE found
  /\ Goto("decode")
  /\ UNCHANGED <<client, end, tail, replies>>

(***************************************************************************)
(* A message that cannot be decoded, or whose request cannot be, ends the  *)
(* connection with `?`; new_garbage_args_reply is not used.                *)
(***************************************************************************)
Decode ==
  /\ task = "decode"
  /\ Goto(IF cur = 0 THEN "ended"
          ELSE CASE sent[cur].kind = "nfs" -> "call"
                 [] sent[cur].kind = "other" -> "length"
                 [] OTHER -> "ended")
  /\ UNCHANGED <<client, end, head, tail, cur, replies>>

\* handle_compound returns a response, or an error that ends the connection.
Compound ==
  /\ task = "call"
  /\ Goto("length") \/ Goto("ended")
  /\ UNCHANGED <<client, end, head, tail, cur, replies>>

\* A reply is written in two parts, and each fails if the client has gone.
WriteLength ==
  /\ task = "length"
  /\ Goto("body") \/ (left /\ Goto("ended"))
  /\ UNCHANGED <<client, end, head, tail, cur, replies>>

AnswerTo(kind) == IF kind = "nfs" THEN "SUCCESS" ELSE "PROG_MISMATCH"

\* Mutant: one message is taken of what one read returned.
WriteBodyAndRead ==
  /\ task = "body"
  /\ replies' = Append(replies, [call |-> cur, answer |-> AnswerTo(sent[cur].kind)])
  /\ Goto("read")
  /\ UNCHANGED <<client, end, head, tail, cur>>

WriteBody ==
  /\ task = "body"
  /\ \/ /\ replies' = Append(replies, [call |-> cur, answer |-> AnswerTo(sent[cur].kind)])
        /\ Goto("frames")
     \/ left /\ Goto("ended") /\ UNCHANGED replies
  /\ UNCHANGED <<client, end, head, tail, cur>>
-----------------------------------------------------------------------------
Init ==
  /\ sent = <<>> /\ end = 0 /\ left = FALSE
  /\ head = 0 /\ tail = 0 /\ task = "read" /\ cur = 0 /\ replies = <<>>

Serve ==
  \/ Read \/ EndOfStream \/ NoFrame \/ TakeFrame \/ Decode
  \/ Compound \/ WriteLength \/ WriteBody

\* handle_client has returned, and the client has closed its end too.
Over == task = "ended" /\ left /\ UNCHANGED vars

Next == (\E c \in Calls : Send(c)) \/ Leave \/ Serve \/ Over

Spec == Init /\ [][Next]_vars

\* tokio runs the task, TCP delivers; nothing makes a client act.
FairSpec == Spec /\ WF_vars(Serve)
-----------------------------------------------------------------------------
(***************************************************************************)
(* The connection keeps the promise of RpcPipe, however the stream is cut  *)
(* into pieces: messages are never mixed up, none is answered twice or out *)
(* of turn, and the connection ends only when the client has left or by    *)
(* the call in progress.                                                   *)
(***************************************************************************)
Pipe == INSTANCE RpcPipe WITH
  Answers <- [k \in Kinds |-> IF k \in {"nfs", "other"} THEN {AnswerTo(k)} ELSE {}],
  Fatal   <- {"nfs", "badargs", "undecodable"},
  calls   <- [i \in DOMAIN sent |-> sent[i].kind],
  begun   <- cur,
  ended   <- task = "ended"

ImplementsPipe == Pipe!Spec

(***************************************************************************)
(* A call that has arrived whole is answered, or the connection ends, also *)
(* when the call came in the same read as others or cut in pieces. Not so  *)
(* behind a header with the last fragment's bit, which the server takes    *)
(* for a size: it waits for bytes that never come.                         *)
(***************************************************************************)
Arrived(i) ==
  /\ i \in DOMAIN sent /\ After(sent[i]) <= end
  /\ \A j \in 1 .. i : ~sent[j].marked

CallAnswered ==
  \A i \in 1 .. LastFragment :
    Arrived(i) ~> Len(replies) >= i \/ task = "ended"
-----------------------------------------------------------------------------
\* The end of what the client has written.
Written == IF sent = <<>> THEN 0 ELSE After(sent[Len(sent)])

\* The messages lie in the stream one behind the other.
Stream ==
  /\ \A i \in DOMAIN sent :
       sent[i].start = IF i = 1 THEN 0 ELSE After(sent[i - 1])
  /\ \A i, j \in DOMAIN sent : i < j => After(sent[i]) <= sent[j].start
  /\ end <= Written /\ (~left => end = Written) /\ Written < LastFragment

\* The buffer begins with the message behind the one taken last.
Aligned == head = IF cur = 0 THEN 0 ELSE After(sent[cur])

\* Which replies have been sent, by what the task does.
Progress ==
  /\ task \in {"read", "frames"} => cur = Len(replies)
  /\ task \in {"decode", "call", "length", "body"} => cur = Len(replies) + 1
  /\ task = "call" => sent[cur].kind = "nfs"
  /\ task \in {"length", "body"} => sent[cur].kind \in {"nfs", "other"}

(***************************************************************************)
(* The inductive invariant behind ImplementsPipe: with the buffer aligned, *)
(* the bytes at its head announce the size of the next message, and what   *)
(* is taken is that message.                                               *)
(***************************************************************************)
IInv == TypeOK /\ Stream /\ Aligned /\ Progress
=============================================================================
