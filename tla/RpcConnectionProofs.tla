------------------------ MODULE RpcConnectionProofs ------------------------
(***************************************************************************)
(* Proofs about RpcConnection: its inductive invariant, and that it keeps  *)
(* the promise of RpcPipe, for messages of any number and any size.        *)
(***************************************************************************)
EXTENDS RpcConnection, SequenceTheorems, TLAPS

\* What the proofs need of the types: everything about bytes is a number.
LEMMA Fields ==
  ASSUME RpcAssumption, TypeOK
  PROVE  /\ Header \in Nat /\ Header > 0 /\ LastFragment \in Nat
         /\ head \in Nat /\ tail \in Nat /\ end \in Nat /\ cur \in Nat
         /\ head <= tail /\ tail <= end /\ cur <= Len(sent)
         /\ Len(sent) \in Nat /\ DOMAIN sent = 1 .. Len(sent)
         /\ \A i \in DOMAIN sent :
              /\ sent[i].kind \in Kinds /\ sent[i].size \in Nat
              /\ sent[i].start \in Nat
              /\ After(sent[i]) = sent[i].start + Header + sent[i].size
              /\ After(sent[i]) \in Nat /\ sent[i].start < After(sent[i])
         /\ Written \in Nat
         /\ sent # <<>> => Len(sent) \in DOMAIN sent
<1> DEFINE Record == [kind : Kinds, size : Nat, marked : BOOLEAN, start : Nat]
<1>1. sent \in Seq(Record)
  BY DEF TypeOK
<1>2. Len(sent) \in Nat /\ DOMAIN sent = 1 .. Len(sent)
  BY <1>1
<1>3. \A i \in DOMAIN sent : sent[i] \in Record
  BY <1>1, <1>2, ElementOfSeq
<1>4. \A i \in DOMAIN sent :
        sent[i].kind \in Kinds /\ sent[i].size \in Nat /\ sent[i].start \in Nat
  BY <1>3
<1>5. sent # <<>> => Len(sent) \in DOMAIN sent
  BY <1>1, <1>2, EmptySeq
<1>6. Written \in Nat
  BY <1>4, <1>5 DEF Written, After, RpcAssumption
<1>7. \A i \in DOMAIN sent :
        /\ After(sent[i]) = sent[i].start + Header + sent[i].size
        /\ After(sent[i]) \in Nat /\ sent[i].start < After(sent[i])
  BY <1>4 DEF After, RpcAssumption
<1>8. /\ Header \in Nat /\ Header > 0 /\ LastFragment \in Nat
      /\ head \in Nat /\ tail \in Nat /\ end \in Nat /\ cur \in Nat
      /\ head <= tail /\ tail <= end /\ cur <= Len(sent)
  BY <1>2 DEF TypeOK, RpcAssumption
<1> QED
  BY <1>2, <1>4, <1>5, <1>6, <1>7, <1>8

(***************************************************************************)
(* While the buffer is aligned, a length field in it is that of the next   *)
(* message, and a message that is complete has no last fragment's bit.     *)
(***************************************************************************)
LEMMA NextFrame ==
  ASSUME RpcAssumption, IInv, task = "frames",
         NEW n \in Announced(head), Complete(n)
  PROVE  /\ cur + 1 \in DOMAIN sent
         /\ n = sent[cur + 1].size
         /\ head = sent[cur + 1].start
         /\ Decoded(head + Header, n) = {cur + 1}
<1>0. TypeOK /\ Stream /\ Aligned
  BY DEF IInv
<1>1. cur < Len(sent)
  <2>1. CASE sent = <<>>
    <3>1. head = 0 /\ tail = 0
      BY <1>0, <2>1, EmptySeq, Fields DEF Aligned, Stream, Written, TypeOK
    <3> QED
      BY <3>1, <1>0, Fields DEF Complete, RpcAssumption
  <2>2. CASE sent # <<>>
    <3>1. SUFFICES ASSUME cur = Len(sent) PROVE FALSE
      BY <1>0, Fields
    <3>2. head = Written
      BY <1>0, <2>2, <3>1, Fields DEF Aligned, Written
    <3>3. tail - head > 0
      BY <1>0, Fields DEF Complete, Announced
    <3> QED
      BY <1>0, <3>2, <3>3, Fields DEF Stream
  <2> QED
    BY <2>1, <2>2
<1>2. cur + 1 \in DOMAIN sent /\ head = sent[cur + 1].start
  <2>1. cur + 1 \in DOMAIN sent /\ (cur + 1 = 1 <=> cur = 0) /\ (cur + 1) - 1 = cur
    BY <1>0, <1>1, Fields
  <2>2. sent[cur + 1].start = IF cur + 1 = 1 THEN 0 ELSE After(sent[(cur + 1) - 1])
    BY <1>0, <2>1 DEF Stream
  <2> QED
    BY <1>0, <2>1, <2>2 DEF Aligned
<1>3. \A i \in DOMAIN sent : sent[i].start = head => i = cur + 1
  <2> SUFFICES ASSUME NEW i \in DOMAIN sent, sent[i].start = head, i # cur + 1
               PROVE  FALSE
    OBVIOUS
  <2>1. i < cur + 1 \/ cur + 1 < i
    BY <1>2 DEF IInv, TypeOK
  <2>2. \A k \in DOMAIN sent : /\ sent[k].start \in Nat /\ After(sent[k]) \in Nat
                                /\ sent[k].start < After(sent[k])
    BY <1>0, Fields
  <2>3. After(sent[i]) <= head \/ After(sent[cur + 1]) <= head
    BY <1>0, <1>2, <2>1 DEF Stream
  <2> QED
    BY <1>2, <2>2, <2>3
<1>4. n = sent[cur + 1].size + (IF sent[cur + 1].marked THEN LastFragment ELSE 0)
  BY <1>2, <1>3 DEF Announced
<1>5. ~sent[cur + 1].marked
  <2>1. tail < LastFragment /\ head \in Nat /\ tail \in Nat /\ Header \in Nat
    BY <1>0, Fields DEF Stream
  <2>2. sent[cur + 1].size \in Nat /\ LastFragment \in Nat
    BY <1>0, <1>2, Fields
  <2>3. tail - head >= Header + n
    BY DEF Complete
  <2> QED
    BY <1>4, <2>1, <2>2, <2>3
<1>6. n = sent[cur + 1].size
  BY <1>2, <1>4, <1>5, Fields DEF IInv
<1>7. Decoded(head + Header, n) = {cur + 1}
  <2>0. Header \in Nat /\ head \in Nat /\ \A i \in DOMAIN sent : sent[i].start \in Nat
    BY <1>0, Fields
  <2>1. \A i \in DOMAIN sent : sent[i].start + Header = head + Header <=> i = cur + 1
    <3> TAKE i \in DOMAIN sent
    <3>1. sent[i].start + Header = head + Header <=> sent[i].start = head
      BY <2>0
    <3> QED
      BY <1>2, <1>3, <3>1
  <2> QED
    BY <1>2, <1>6, <2>1 DEF Decoded
<1> QED
  BY <1>2, <1>6, <1>7

\* A message is added behind all others, where the stream ends.
LEMMA SendKeeps ==
  ASSUME RpcAssumption, IInv, NEW c \in Calls, Send(c)
  PROVE  IInv'
<1> DEFINE m == [kind |-> c.kind, size |-> c.size, marked |-> c.marked, start |-> end]
           Record == [kind : Kinds, size : Nat, marked : BOOLEAN, start : Nat]
<1>1. m \in Record /\ sent' = Append(sent, m) /\ sent \in Seq(Record)
  BY DEF RpcAssumption, Call, IInv, TypeOK, Send
<1>2. /\ sent' \in Seq(Record)
      /\ Len(sent') = Len(sent) + 1 /\ DOMAIN sent' = 1 .. Len(sent) + 1
      /\ \A i \in DOMAIN sent : sent'[i] = sent[i]
      /\ sent'[Len(sent) + 1] = m
  BY <1>1
<1>3. TypeOK'
  <2>1. /\ Header \in Nat /\ end \in Nat /\ tail \in Nat /\ tail <= end
        /\ cur \in Nat /\ cur <= Len(sent) /\ Len(sent) \in Nat
    BY Fields DEF IInv
  <2>2. c.size \in Nat /\ end' = end + Header + c.size
    BY DEF Send, RpcAssumption, Call
  <2>3. end' \in Nat /\ tail <= end'
    BY <2>1, <2>2
  <2>4. cur \in 0 .. Len(sent')
    BY <1>2, <2>1
  <2> QED
    BY <1>2, <2>3, <2>4 DEF IInv, TypeOK, Send
<1>4. Stream'
  <2>1. Written = end /\ Written' = After(m) /\ Written' < LastFragment
    <3>1. sent' # <<>> /\ Written' = After(m)
      BY <1>2, Fields DEF IInv, Written, After
    <3> QED
      BY <3>1 DEF IInv, Stream, Send, After
  <2>2. \A i \in DOMAIN sent : After(sent[i]) <= end
    <3> TAKE i \in DOMAIN sent
    <3>0. Len(sent) \in DOMAIN sent
      BY Fields DEF IInv
    <3>1. After(sent[i]) \in Nat /\ sent[Len(sent)].start \in Nat
          /\ sent[Len(sent)].start <= After(sent[Len(sent)])
      BY <3>0, Fields, i \in DOMAIN sent DEF IInv
    <3>2. CASE i = Len(sent)
      BY <2>1, <3>2 DEF Written, IInv, TypeOK, After, RpcAssumption
    <3>3. CASE i # Len(sent)
      <4>1. i < Len(sent) /\ Len(sent) \in DOMAIN sent
        BY <3>3 DEF IInv, TypeOK
      <4>2. After(sent[i]) <= sent[Len(sent)].start
        BY <4>1 DEF IInv, Stream
      <4>3. After(sent[Len(sent)]) = end
        BY <2>1, <4>1 DEF Written, IInv, TypeOK
      <4>4. end \in Nat
        BY DEF IInv, TypeOK
      <4> QED
        BY <3>1, <4>2, <4>3, <4>4
    <3> QED
      BY <3>2, <3>3
  <2>3. \A i \in DOMAIN sent' :
          sent'[i].start = IF i = 1 THEN 0 ELSE After(sent'[i - 1])
    <3> TAKE i \in DOMAIN sent'
    <3>1. CASE i \in DOMAIN sent
      <4>1. i = 1 \/ i - 1 \in DOMAIN sent
        BY <3>1, Fields DEF IInv
      <4> QED
        BY <1>2, <3>1, <4>1 DEF IInv, Stream, After
    <3>2. CASE i = Len(sent) + 1
      <4>1. sent'[i].start = Written
        BY <1>2, <2>1, <3>2
      <4>2. CASE sent = <<>>
        BY <3>2, <4>1, <4>2 DEF Written
      <4>3. CASE sent # <<>>
        <5>1. Len(sent) \in DOMAIN sent
          BY <4>3, Fields DEF IInv
        <5>2. i # 1 /\ i - 1 = Len(sent)
          BY <3>2, <5>1, Fields DEF IInv
        <5>3. After(sent'[i - 1]) = Written
          BY <1>2, <4>3, <5>1, <5>2 DEF Written, After
        <5> QED
          BY <4>1, <5>2, <5>3
      <4> QED
        BY <4>2, <4>3
    <3> QED
      BY <1>2, <3>1, <3>2 DEF IInv, TypeOK
  <2>4. \A i, j \in DOMAIN sent' : i < j => After(sent'[i]) <= sent'[j].start
    <3> SUFFICES ASSUME NEW i \in DOMAIN sent', NEW j \in DOMAIN sent', i < j
                 PROVE  After(sent'[i]) <= sent'[j].start
      OBVIOUS
    <3>1. CASE j \in DOMAIN sent
      <4>1. i \in DOMAIN sent
        <5>1. Len(sent) \in Nat /\ DOMAIN sent = 1 .. Len(sent)
          BY Fields DEF IInv
        <5>2. i \in 1 .. Len(sent) + 1
          BY <1>2
        <5> QED
          BY <3>1, <5>1, <5>2
      <4>2. After(sent'[i]) = After(sent[i]) /\ sent'[j].start = sent[j].start
        BY <1>2, <3>1, <4>1 DEF After
      <4> QED
        BY <3>1, <4>1, <4>2 DEF IInv, Stream
    <3>2. CASE j = Len(sent) + 1
      <4>1. i \in DOMAIN sent
        BY <1>2, <3>2 DEF IInv, TypeOK
      <4>2. After(sent'[i]) = After(sent[i]) /\ sent'[j].start = end
        BY <1>2, <3>2, <4>1
      <4> QED
        BY <2>2, <4>1, <4>2
    <3> QED
      BY <1>2, <3>1, <3>2 DEF IInv, TypeOK
  <2> QED
    <3>1. end' = After(m) /\ end' <= Written'
      BY <2>1, Fields DEF IInv, Send, After, RpcAssumption, Call
    <3> QED
      BY <2>1, <2>3, <2>4, <3>1 DEF Stream
<1>5. Aligned' /\ Progress'
  <2>1. UNCHANGED <<head, cur, task, replies>>
    BY DEF Send
  <2>2. cur = 0 \/ (cur \in DOMAIN sent /\ sent'[cur] = sent[cur])
    <3>1. cur = 0 \/ cur \in DOMAIN sent
      BY Fields DEF IInv
    <3> QED
      BY <1>2, <3>1
  <2>3. Aligned'
    BY <2>1, <2>2 DEF IInv, Aligned, After
  <2>4. task \in {"call", "length", "body"} => cur # 0
    BY Fields DEF IInv, Progress, TypeOK
  <2> QED
    BY <2>1, <2>2, <2>3, <2>4 DEF IInv, Progress
<1> QED
  BY <1>3, <1>4, <1>5 DEF IInv

\* The network cuts the stream, or the server does a step: sent stays.
LEMMA ServeKeeps ==
  ASSUME RpcAssumption, IInv, Leave \/ Serve
  PROVE  IInv'
<1>0. TypeOK /\ Stream /\ Aligned /\ Progress
  BY DEF IInv
<1> USE DEF Goto
<1>1. CASE Leave
  <2>1. end' \in Nat /\ tail <= end' /\ end' <= end
    BY <1>0, <1>1, Fields DEF Leave
  <2>2. TypeOK'
    BY <1>0, <1>1, <2>1 DEF Leave, TypeOK
  <2>3. Stream'
    BY <1>0, <1>1, <2>1, Fields DEF Leave, Stream, Written, After
  <2> QED
    BY <1>0, <1>1, <2>2, <2>3 DEF Leave, IInv, Aligned, Progress, After
<1>2. CASE Read
  <2>1. tail' \in Nat /\ tail <= tail' /\ tail' <= end
    BY <1>0, <1>2, Fields DEF Read
  <2>2. TypeOK'
    BY <1>0, <1>2, <2>1 DEF Read, TypeOK, client
  <2> QED
    BY <1>0, <1>2, <2>2
    DEF Read, client, IInv, Stream, Written, Aligned, Progress, After
<1>3. CASE EndOfStream \/ NoFrame
  BY <1>0, <1>3
  DEF EndOfStream, NoFrame, client, IInv, TypeOK, Stream, Written, Aligned, Progress, After
<1>4. CASE TakeFrame
  <2> PICK n \in Announced(head) :
        /\ Complete(n)
        /\ head' = head + Header + n
        /\ cur' \in IF Decoded(head + Header, n) = {} THEN {0}
                    ELSE Decoded(head + Header, n)
    BY <1>4 DEF TakeFrame
  <2>1. /\ cur + 1 \in DOMAIN sent /\ n = sent[cur + 1].size
        /\ head = sent[cur + 1].start /\ cur' = cur + 1
    BY <1>4, NextFrame DEF TakeFrame
  <2>2. head' = After(sent[cur'])
    BY <1>0, <2>1, Fields
  <2>3. head' \in Nat /\ head' <= tail /\ cur' \in 1 .. Len(sent)
    <3>1. head' \in Nat /\ n \in Nat /\ cur' \in 1 .. Len(sent)
      BY <1>0, <2>1, <2>2, Fields
    <3>2. tail - head >= Header + n /\ head' = head + Header + n
      BY DEF Complete
    <3>3. head \in Nat /\ tail \in Nat /\ Header \in Nat
      BY <1>0, Fields
    <3> QED
      BY <3>1, <3>2, <3>3
  <2>4. TypeOK'
    BY <1>0, <1>4, <2>3 DEF TypeOK, TakeFrame, client
  <2>5. Aligned' /\ Progress'
    BY <1>0, <1>4, <2>1, <2>2, <2>3, Fields
    DEF TakeFrame, client, Aligned, Progress, After
  <2> QED
    BY <1>0, <1>4, <2>4, <2>5 DEF TakeFrame, client, IInv, Stream, Written, After
<1>5. CASE Decode
  <2>1. cur # 0 /\ cur \in DOMAIN sent /\ sent[cur].kind \in Kinds
    <3>1. Len(replies) \in Nat /\ cur = Len(replies) + 1
      BY <1>0, <1>5 DEF Decode, Progress, TypeOK
    <3>2. cur \in DOMAIN sent
      BY <1>0, <3>1, Fields
    <3> QED
      BY <1>0, <3>1, <3>2, Fields
  <2>2. task' \in {"call", "length", "ended"}
        /\ (task' = "call" => sent[cur].kind = "nfs")
        /\ (task' = "length" => sent[cur].kind = "other")
    BY <1>5, <2>1 DEF Decode, Kinds
  <2> QED
    BY <1>0, <1>5, <2>1, <2>2
    DEF Decode, client, IInv, TypeOK, Stream, Written, Aligned, Progress, After
<1>6. CASE Compound \/ WriteLength
  BY <1>0, <1>6
  DEF Compound, WriteLength, client, IInv, TypeOK, Stream, Written, Aligned, Progress, After
<1>7. CASE WriteBody
  <2>1. replies' \in Seq([call : Nat, answer : Statuses])
    <3>1. [call |-> cur, answer |-> AnswerTo(sent[cur].kind)]
            \in [call : Nat, answer : Statuses]
      BY <1>0, Fields DEF AnswerTo, Statuses
    <3>2. replies \in Seq([call : Nat, answer : Statuses])
      BY <1>0 DEF TypeOK
    <3>3. CASE UNCHANGED replies
      BY <3>2, <3>3
    <3>4. CASE replies' = Append(replies, [call |-> cur, answer |-> AnswerTo(sent[cur].kind)])
      BY <3>1, <3>2, <3>4, AppendProperties
    <3> QED
      BY <1>7, <3>3, <3>4 DEF WriteBody
  <2>2. Progress'
    <3>1. cur = Len(replies) + 1 /\ UNCHANGED <<cur, sent>>
      BY <1>0, <1>7 DEF WriteBody, client, Progress
    <3>2. CASE task' = "ended"
      BY <3>2 DEF Progress
    <3>3. CASE task' = "frames" /\ \E r : replies' = Append(replies, r)
      <4>1. Len(replies') = Len(replies) + 1
        BY <1>0, <2>1, <3>3 DEF TypeOK
      <4> QED
        BY <3>1, <3>3, <4>1 DEF Progress
    <3> QED
      BY <1>7, <3>2, <3>3 DEF WriteBody
  <2> QED
    BY <1>0, <1>7, <2>1, <2>2
    DEF WriteBody, client, IInv, TypeOK, Stream, Written, Aligned, After
<1> QED
  BY <1>1, <1>2, <1>3, <1>4, <1>5, <1>6, <1>7 DEF Serve

(***************************************************************************)
(* The buffer always begins with a message, the one after the last that    *)
(* was taken, and each message taken so far has at most one reply.         *)
(***************************************************************************)
THEOREM Inductive == Spec => []IInv
<1>1. Init => IInv
  <2> SUFFICES ASSUME Init PROVE IInv
    OBVIOUS
  <2>1. TypeOK
    <3>1. /\ sent \in Seq([kind : Kinds, size : Nat, marked : BOOLEAN, start : Nat])
          /\ replies \in Seq([call : Nat, answer : Statuses])
      BY EmptySeq DEF Init
    <3>2. Len(sent) = 0
      BY DEF Init
    <3>3. /\ head \in Nat /\ tail \in Nat /\ end \in Nat /\ head <= tail /\ tail <= end
      BY DEF Init
    <3>4. left \in BOOLEAN /\ task = "read"
      BY DEF Init
    <3>5. cur \in 0 .. Len(sent)
      BY <3>2 DEF Init
    <3> QED
      BY <3>1, <3>3, <3>4, <3>5 DEF TypeOK
  <2>2. Written = 0 /\ DOMAIN sent = {}
    BY DEF Init, Written
  <2>3. Stream
    BY <2>2, RpcAssumption DEF Init, Stream, RpcAssumption
  <2> QED
    BY <2>1, <2>3 DEF Init, IInv, Aligned, Progress
<1>2. IInv /\ [Next]_vars => IInv'
  <2> SUFFICES ASSUME IInv, [Next]_vars PROVE IInv'
    OBVIOUS
  <2>1. CASE \E c \in Calls : Send(c)
    BY <2>1, SendKeeps, RpcAssumption
  <2>2. CASE Leave \/ Serve
    BY <2>2, ServeKeeps, RpcAssumption
  <2>3. CASE Over \/ UNCHANGED vars
    BY <2>3 DEF Over, vars, client, IInv, TypeOK, Stream, Aligned, Progress, Written, After
  <2> QED
    BY <2>1, <2>2, <2>3 DEF Next
<1> QED
  BY <1>1, <1>2, PTL DEF Spec

\* Type correctness; the buffer never reaches behind what has arrived.
THEOREM TypeCorrect == Spec => []TypeOK
<1>1. IInv => TypeOK
  BY DEF IInv
<1> QED
  BY <1>1, Inductive, PTL

(***************************************************************************)
(* The server answers the calls of a connection one at a time, in the      *)
(* order they were sent, each once, and ends the connection only when the  *)
(* client has left or by the call it works on, however TCP cuts the        *)
(* stream into pieces.                                                     *)
(***************************************************************************)
THEOREM KeepsPromise == Spec => ImplementsPipe
<1> DEFINE calls == [i \in DOMAIN sent |-> sent[i].kind]
           Kind == [k \in Kinds |-> IF k \in {"nfs", "other"} THEN {AnswerTo(k)} ELSE {}]
<1>1. Init => Pipe!Init
  BY DEF Init, Pipe!Init
<1>2. IInv /\ [Next]_vars => [Pipe!Next]_(Pipe!vars)
  <2> SUFFICES ASSUME IInv, [Next]_vars PROVE [Pipe!Next]_(Pipe!vars)
    OBVIOUS
  <2>0. TypeOK /\ Stream /\ Aligned /\ Progress
    BY DEF IInv
  <2>1. ASSUME NEW c \in Calls, Send(c) PROVE Pipe!Send
    <3> DEFINE m == [kind |-> c.kind, size |-> c.size, marked |-> c.marked, start |-> end]
    <3>1. /\ DOMAIN sent' = 1 .. Len(sent) + 1 /\ Len(sent) \in Nat
          /\ \A i \in 1 .. Len(sent) : sent'[i] = sent[i]
          /\ sent'[Len(sent) + 1] = m /\ DOMAIN sent = 1 .. Len(sent)
      BY <2>0, <2>1 DEF Send, TypeOK
    <3>2. calls' = Append(calls, c.kind)
      <4>1. calls \in Seq(Kinds) /\ Len(calls) = Len(sent)
        BY <2>0, <3>1, Fields, RpcAssumption
      <4> QED
        BY <3>1, <4>1
    <3>3. c.kind \in Kinds
      BY RpcAssumption DEF RpcAssumption, Call
    <3> QED
      BY <2>1, <3>2, <3>3 DEF Send, Pipe!Send
  <2>2. CASE Leave
    <3>1. UNCHANGED <<sent, task, cur, replies>> /\ ~left /\ left' = TRUE
      BY <2>2 DEF Leave
    <3>2. UNCHANGED <<calls, cur, replies, task = "ended">>
      BY <3>1
    <3> QED
      BY <3>1, <3>2 DEF Pipe!Next, Pipe!Leave
  <2>3. CASE Read \/ NoFrame \/ WriteLength \/ Compound \/ Decode
    <3>1. CASE task' # "ended"
      BY <2>3, <3>1
      DEF Read, NoFrame, WriteLength, Compound, Decode, Goto, client, Pipe!vars
    <3>2. CASE task' = "ended"
      <4>1. UNCHANGED <<sent, left, cur, replies>> /\ task # "ended"
        BY <2>3, <3>2 DEF Read, NoFrame, WriteLength, Compound, Decode, Goto, client
      <4>2. \/ left
            \/ cur = Len(replies) + 1 /\ sent[cur].kind \in {"nfs", "badargs", "undecodable"}
        <5>1. CASE WriteLength
          BY <3>2, <5>1 DEF WriteLength, Goto
        <5>2. CASE Compound
          BY <2>0, <5>2 DEF Compound, Progress
        <5>3. CASE Decode
          <6>1. cur = Len(replies) + 1 /\ cur \in DOMAIN sent /\ cur # 0
            <7>1. Len(replies) \in Nat /\ cur = Len(replies) + 1
              BY <2>0, <5>3 DEF Decode, Progress, TypeOK
            <7> QED
              BY <2>0, <7>1, Fields, RpcAssumption
          <6>2. sent[cur].kind \in {"badargs", "undecodable"}
            BY <2>0, <3>2, <5>3, <6>1, Fields, RpcAssumption DEF Decode, Goto, Kinds
          <6> QED
            BY <6>1, <6>2
        <5> QED
          BY <2>3, <3>2, <5>1, <5>2, <5>3 DEF Read, NoFrame, Goto
      <4>3. ~left => cur \in DOMAIN sent
        BY <2>0, <4>2, Fields, RpcAssumption DEF TypeOK
      <4>4. \/ left
            \/ cur = Len(replies) + 1 /\ calls[cur] \in {"nfs", "badargs", "undecodable"}
        BY <4>2, <4>3
      <4>5. UNCHANGED <<calls, cur, replies, left>> /\ ~(task = "ended") /\ (task = "ended")' = TRUE
        BY <3>2, <4>1
      <4> QED
        BY <4>4, <4>5 DEF Pipe!Next, Pipe!End
    <3> QED
      BY <3>1, <3>2
  <2>4. CASE EndOfStream
    BY <2>4 DEF EndOfStream, Goto, client, Pipe!Next, Pipe!End
  <2>5. CASE TakeFrame
    <3>1. cur + 1 \in DOMAIN sent /\ cur' = cur + 1
      BY <2>5, NextFrame, RpcAssumption DEF TakeFrame
    <3> QED
      BY <2>0, <2>5, <3>1 DEF TakeFrame, Goto, client, Progress, Pipe!Next, Pipe!Begin
  <2>6. CASE WriteBody
    <3>1. /\ cur = Len(replies) + 1 /\ cur \in DOMAIN sent
          /\ sent[cur].kind \in {"nfs", "other"}
      BY <2>0, <2>6, Fields, RpcAssumption DEF WriteBody, Progress, TypeOK
    <3>2. /\ UNCHANGED <<calls, cur, left>> /\ ~(task = "ended")
      BY <2>6 DEF WriteBody, client
    <3>3. CASE task' = "ended" /\ left /\ UNCHANGED replies
      BY <3>2, <3>3 DEF Pipe!Next, Pipe!End
    <3>4. CASE task' = "frames"
      <4>1. replies' = Append(replies, [call |-> cur, answer |-> AnswerTo(calls[cur])])
        BY <2>6, <3>1, <3>4 DEF WriteBody, Goto
      <4>2. AnswerTo(calls[cur]) \in Kind[calls[cur]]
        BY <3>1 DEF Kinds
      <4>3. UNCHANGED <<calls, cur, left, task = "ended">>
        BY <3>2, <3>4
      <4> QED
        BY <3>1, <3>2, <4>1, <4>2, <4>3 DEF Pipe!Next, Pipe!Answer
    <3> QED
      BY <2>6, <3>3, <3>4 DEF WriteBody, Goto
  <2>7. CASE Over \/ UNCHANGED vars
    BY <2>7 DEF Over, vars, client, Pipe!vars
  <2> QED
    BY <2>1, <2>2, <2>3, <2>4, <2>5, <2>6, <2>7 DEF Next, Serve, Pipe!Next
<1> QED
  BY <1>1, <1>2, Inductive, PTL DEF Spec, ImplementsPipe, Pipe!Spec
=============================================================================
