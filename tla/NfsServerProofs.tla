--------------------------- MODULE NfsServerProofs ---------------------------
(***************************************************************************)
(* Proofs about NfsServer for every number of connections, files and       *)
(* stateids, every set of requests and every set of faults.                *)
(***************************************************************************)
EXTENDS NfsServerPrivate, SequenceTheorems, FiniteSetTheorems,
        WellFoundedInduction, TLAPS

(***************************************************************************)
(* handle_read and handle_write behind the fair lock: while one is at      *)
(* work, an OPEN or a CLOSE does not have the lock.                        *)
(***************************************************************************)
LEMMA WritersAlone ==
  ASSUME IInv, NEW c \in Connections, NEW d \in Connections,
         pc[c] = "wait", Op(c).op \in Writers, Holds(c),
         pc[d] \in {"io", "sync"}
  PROVE  FALSE
<1>1. Op(d).op \notin Writers /\ Holds(d)
  BY DEF IInv, BusyHasLock, Writers
<1>2. ahead[c] = {}
  BY DEF Holds
<1>3. InLine(c) /\ InLine(d) /\ c # d
  BY <1>1 DEF InLine
<1>4. c \in ahead[d]
  BY <1>2, <1>3 DEF IInv, LineInOrder
<1> QED
  BY <1>1, <1>4 DEF Holds

(***************************************************************************)
(* A step of connection e outside of the line changes neither the line nor *)
(* what those in it do.                                                    *)
(***************************************************************************)
LEMMA OutsideLine ==
  ASSUME IInv, NEW e \in Connections,
         pc[e] \in {"idle", "next"},
         NEW stage \in {"idle", "next"}, Goto(e, stage),
         NEW rest, todo' = [todo EXCEPT ![e] = rest],
         UNCHANGED <<handles, ahead, table>>
  PROVE  IInv'
<1>1. Shapes' /\ NoSelfDeadlock' /\ handles' = {}
  BY DEF IInv, Shapes, Goto, NoSelfDeadlock
<1>2. \A c \in Connections : InLine(c)' <=> InLine(c)
  BY DEF IInv, Shapes, Goto, InLine
<1>3. LineInOrder'
  BY <1>2 DEF IInv, LineInOrder
<1>4. ASSUME NEW c \in Connections, pc'[c] \in {"io", "sync"}
      PROVE  /\ Op(c)' = Op(c) /\ pc[c] \in {"io", "sync"}
             /\ \A d \in ahead[c] : Op(d)' = Op(d)
  BY <1>4 DEF IInv, Shapes, Goto, Op, LineInOrder, InLine
<1>5. BusyHasLock'
  BY <1>4 DEF IInv, Shapes, BusyHasLock, Holds, Writers
<1>6. BusyStateidStaysOpen'
  BY <1>4 DEF IInv, BusyStateidStaysOpen
<1> QED
  BY <1>1, <1>3, <1>5, <1>6 DEF IInv

(***************************************************************************)
(* Connection e leaves the line. The others keep their place, and those    *)
(* behind it can only gain.                                                *)
(***************************************************************************)
LEMMA LeavingLine ==
  ASSUME IInv, NEW e \in Connections,
         NEW stage \in {"idle", "next"}, Goto(e, stage), Unlock(e),
         NEW rest, todo' = [todo EXCEPT ![e] = rest],
         UNCHANGED handles,
         table' = [s \in StateIds |-> table'[s]],
         \A c \in Connections \ {e} : pc[c] \in {"io", "sync"} =>
           table'[Op(c).stateid] # NoState
  PROVE  IInv'
<1>1. Shapes' /\ NoSelfDeadlock' /\ handles' = {}
  BY DEF IInv, Shapes, Goto, NoSelfDeadlock, Unlock
<1>2. ~InLine(e)' /\ \A c \in Connections \ {e} : InLine(c)' <=> InLine(c)
  BY DEF IInv, Shapes, Goto, InLine
<1>3. /\ ahead'[e] = {}
      /\ \A c \in Connections \ {e} : ahead'[c] = ahead[c] \ {e}
  BY DEF IInv, Shapes, Unlock
<1>4. LineInOrder'
  BY <1>2, <1>3 DEF IInv, LineInOrder
<1>5. \A c \in Connections \ {e} : Op(c)' = Op(c) /\ pc'[c] = pc[c]
  BY DEF IInv, Shapes, Op, Goto
<1>6. pc'[e] \notin {"io", "sync"}
  BY DEF IInv, Shapes, Goto
<1>7. BusyHasLock'
  BY <1>3, <1>5, <1>6 DEF IInv, Shapes, BusyHasLock, Holds, Writers
<1>8. BusyStateidStaysOpen'
  BY <1>5, <1>6 DEF IInv, BusyStateidStaysOpen
<1> QED
  BY <1>1, <1>4, <1>7, <1>8 DEF IInv

(***************************************************************************)
(* Connection e, which is in the line, goes on in it as a reader at work,  *)
(* and no table changes.                                                   *)
(***************************************************************************)
LEMMA StayingInLine ==
  ASSUME IInv, NEW e \in Connections,
         InLine(e), Holds(e), Op(e).op \in {"READ", "WRITE"},
         table[Op(e).stateid] # NoState,
         NEW stage \in {"io", "sync"}, Goto(e, stage),
         UNCHANGED <<handles, ahead, todo, table>>
  PROVE  IInv'
<1>1. Shapes' /\ NoSelfDeadlock' /\ handles' = {}
  BY DEF IInv, Shapes, Goto, NoSelfDeadlock
<1>2. \A c \in Connections : InLine(c)' <=> InLine(c)
  BY DEF IInv, Shapes, Goto, InLine
<1>3. LineInOrder'
  BY <1>2 DEF IInv, LineInOrder
<1>4. \A c \in Connections : pc'[c] \in {"io", "sync"} => c = e \/ pc[c] \in {"io", "sync"}
  BY DEF IInv, Shapes, Goto
<1>5. \A c \in Connections : Op(c)' = Op(c)
  BY DEF Op
<1>6. BusyHasLock'
  BY <1>4, <1>5 DEF IInv, Shapes, BusyHasLock, Holds, Writers
<1>7. BusyStateidStaysOpen'
  BY <1>4, <1>5 DEF IInv, BusyStateidStaysOpen
<1> QED
  BY <1>1, <1>3, <1>6, <1>7 DEF IInv

\* A connection that comes to the end of the line.
LEMMA JoiningLine ==
  ASSUME IInv, NEW e \in Connections, Await(e)
  PROVE  IInv'
<1>1. /\ pc[e] = "next" /\ pc' = [pc EXCEPT ![e] = "wait"]
      /\ ahead' = [ahead EXCEPT ![e] = {d \in Connections : InLine(d)}]
      /\ UNCHANGED <<handles, todo, table>>
  BY DEF Await, Runs, Goto, opens
<1>2. Shapes' /\ NoSelfDeadlock' /\ handles' = {}
  BY <1>1 DEF IInv, Shapes, NoSelfDeadlock
<1>3. ~InLine(e) /\ InLine(e)' /\ \A c \in Connections \ {e} : InLine(c)' <=> InLine(c)
  BY <1>1 DEF IInv, Shapes, InLine
<1>4. /\ ahead'[e] = {d \in Connections : InLine(d)}
      /\ \A c \in Connections \ {e} : ahead'[c] = ahead[c]
  BY <1>1 DEF IInv, Shapes
<1>5. LineInOrder'
  BY <1>3, <1>4 DEF IInv, LineInOrder
<1>6. \A c \in Connections : pc'[c] \in {"io", "sync"} => c # e /\ pc[c] = pc'[c]
  BY <1>1 DEF IInv, Shapes
<1>7. \A c \in Connections : Op(c)' = Op(c)
  BY <1>1 DEF Op
<1>8. BusyHasLock'
  BY <1>4, <1>6, <1>7 DEF IInv, Shapes, BusyHasLock, Holds, Writers
<1>9. BusyStateidStaysOpen'
  BY <1>1, <1>6, <1>7 DEF IInv, BusyStateidStaysOpen
<1> QED
  BY <1>2, <1>5, <1>8, <1>9 DEF IInv

\* With `handles` empty the filehandle of a compound finds no path, and the
\* operation on it is answered so.
LEMMA HandlesFindNothing ==
  ASSUME handles = {}, NEW c \in Connections, UseHandle(c)
  PROVE  /\ \E s \in {"BadHandle", "StaleFileHandle"} : Finish(c, s, Nothing)
         /\ UNCHANGED fh
<1>1. PICK s \in Outcomes(c) :
        IF s = "self-deadlock"
        THEN Goto(c, "stuck") /\ UNCHANGED <<todo, results, fh>>
        ELSE IF s = "abort" THEN EndCompound(c)
        ELSE Finish(c, s, Nothing) /\ UNCHANGED fh
  BY DEF UseHandle
<1>2. s \in {"BadHandle", "StaleFileHandle"}
  BY DEF Outcomes
<1> QED
  BY <1>1, <1>2

LEMMA InitHolds == Init => IInv
BY DEF Init, IInv, Shapes, NoSelfDeadlock, LineInOrder, BusyHasLock,
       BusyStateidStaysOpen, InLine

(***************************************************************************)
(* Every action of NfsServer preserves the invariant: outside of the line, *)
(* joining it, staying in it or leaving it.                                *)
(***************************************************************************)
LEMMA StepHolds == IInv /\ [Next]_vars => IInv'
<1> SUFFICES ASSUME IInv, [Next]_vars PROVE IInv'
  OBVIOUS
<1>r. Shapes /\ handles = {}
  BY DEF IInv
<1>1. ASSUME NEW e \in Connections, Receive(e) PROVE IInv'
  <2>1. PICK r \in Requests : todo' = [todo EXCEPT ![e] = r]
    BY <1>1 DEF Receive
  <2>2. pc[e] = "idle" /\ Goto(e, "next") /\ UNCHANGED <<handles, ahead, table>>
    BY <1>1 DEF Receive, opens
  <2> QED
    BY <2>1, <2>2, OutsideLine
<1>2. ASSUME NEW e \in Connections, Reply(e) PROVE IInv'
  <2>1. /\ pc[e] = "next" /\ Goto(e, "idle") /\ todo' = [todo EXCEPT ![e] = <<>>]
        /\ UNCHANGED <<handles, ahead, table>>
    BY <1>2 DEF Reply, EndCompound, opens
  <2> QED
    BY <2>1, OutsideLine
<1>3. ASSUME NEW e \in Connections, GetFh(e) \/ Unsupported(e) PROVE IInv'
  <2>1. /\ pc[e] = "next" /\ Goto(e, "next")
        /\ todo' = [todo EXCEPT ![e] = Tail(todo[e])]
        /\ UNCHANGED <<handles, ahead, table>>
    BY <1>3, <1>r DEF GetFh, Unsupported, Runs, Finish, opens, Shapes
  <2> QED
    BY <2>1, OutsideLine
<1>4. ASSUME NEW e \in Connections, UseHandle(e) PROVE IInv'
  <2>1. PICK s \in {"BadHandle", "StaleFileHandle"} : Finish(e, s, Nothing)
    BY <1>4, <1>r, HandlesFindNothing
  <2>2. /\ pc[e] = "next" /\ Goto(e, "next")
        /\ todo' = [todo EXCEPT ![e] = Tail(todo[e])]
        /\ UNCHANGED <<handles, ahead, table>>
    BY <1>4, <2>1, <1>r DEF UseHandle, Runs, Finish, opens, Shapes
  <2> QED
    BY <2>2, OutsideLine
<1>5. ASSUME NEW e \in Connections, Await(e) PROVE IInv'
  BY <1>5, JoiningLine
<1>6. ASSUME NEW e \in Connections, Open(e) PROVE IInv'
  <2>1. pc[e] = "wait" /\ Op(e).op = "OPEN" /\ Holds(e)
    BY <1>6 DEF Open, Enters
  <2>2. \A c \in Connections : pc[c] \notin {"io", "sync"}
    BY <2>1, WritersAlone DEF Writers
  <2>3. /\ Goto(e, "next") /\ Unlock(e) /\ UNCHANGED handles
        /\ todo' = [todo EXCEPT ![e] = Tail(todo[e])]
    BY <1>6, <1>r DEF Open, Finish, Shapes
  <2>4. table' = [s \in StateIds |-> table'[s]]
    BY <1>6, <1>r DEF Open, opens, Shapes
  <2> QED
    BY <2>2, <2>3, <2>4, LeavingLine
<1>7. ASSUME NEW e \in Connections, Close(e) PROVE IInv'
  <2>1. pc[e] = "wait" /\ Op(e).op = "CLOSE" /\ Holds(e)
    BY <1>7 DEF Close, Enters
  <2>2. \A c \in Connections : pc[c] \notin {"io", "sync"}
    BY <2>1, WritersAlone DEF Writers
  <2>3. /\ Goto(e, "next") /\ Unlock(e) /\ UNCHANGED handles
        /\ todo' = [todo EXCEPT ![e] = Tail(todo[e])]
    BY <1>7, <1>r DEF Close, Finish, Shapes
  <2>4. table' = [s \in StateIds |-> table'[s]]
    BY <1>7, <1>r DEF Close, Shapes
  <2> QED
    BY <2>2, <2>3, <2>4, LeavingLine
<1>8. ASSUME NEW e \in Connections, Seek(e) PROVE IInv'
  <2>1. /\ pc[e] = "wait" /\ Op(e).op \in {"READ", "WRITE"} /\ Holds(e)
        /\ UNCHANGED <<handles, table>>
    BY <1>8 DEF Seek, Enters
  <2>2. \A c \in Connections \ {e} :
          pc[c] \in {"io", "sync"} => table'[Op(c).stateid] # NoState
    BY <2>1 DEF IInv, BusyStateidStaysOpen
  <2>3. table' = [s \in StateIds |-> table'[s]]
    BY <2>1, <1>r DEF Shapes
  <2>4. CASE Finish(e, "BadStateid", Nothing) /\ Unlock(e)
    <3>1. Goto(e, "next") /\ todo' = [todo EXCEPT ![e] = Tail(todo[e])]
      BY <2>4, <1>r DEF Finish, Shapes
    <3> QED
      BY <3>1, <2>1, <2>2, <2>3, <2>4, LeavingLine
  <2>5. CASE /\ table[Op(e).stateid] # NoState /\ Goto(e, "io")
             /\ UNCHANGED <<ahead, todo>>
    <3>1. InLine(e)
      BY <2>1 DEF InLine
    <3> QED
      BY <3>1, <2>1, <2>5, StayingInLine
  <2>6. CASE Abort(e)
    <3>1. Goto(e, "idle") /\ Unlock(e) /\ todo' = [todo EXCEPT ![e] = <<>>]
      BY <2>6 DEF Abort, EndCompound
    <3> QED
      BY <3>1, <2>1, <2>2, <2>3, LeavingLine
  <2> QED
    BY <1>8, <2>4, <2>5, <2>6 DEF Seek
<1>9. ASSUME NEW e \in Connections, Read(e) PROVE IInv'
  <2>1. /\ Goto(e, "next") /\ Unlock(e) /\ UNCHANGED <<handles, table>>
        /\ todo' = [todo EXCEPT ![e] = Tail(todo[e])]
    BY <1>9, <1>r DEF Read, Finish, Shapes
  <2> QED
    BY <2>1, <1>r, LeavingLine DEF IInv, BusyStateidStaysOpen, Shapes
<1>10. ASSUME NEW e \in Connections, Write(e) PROVE IInv'
  <2>1. /\ pc[e] = "io" /\ Op(e).op = "WRITE" /\ UNCHANGED <<handles, table>>
    BY <1>10 DEF Write, opens
  <2>2. CASE Op(e).stable
    <3>1. Goto(e, "sync") /\ UNCHANGED <<ahead, todo>>
      BY <1>10, <2>2 DEF Write
    <3>2. InLine(e) /\ Holds(e) /\ table[Op(e).stateid] # NoState
      BY <2>1 DEF InLine, IInv, BusyHasLock, BusyStateidStaysOpen
    <3> QED
      BY <2>1, <3>1, <3>2, StayingInLine
  <2>3. CASE ~Op(e).stable
    <3>1. /\ Goto(e, "next") /\ Unlock(e)
          /\ todo' = [todo EXCEPT ![e] = Tail(todo[e])]
      BY <1>10, <2>3, <1>r DEF Write, Finish, Shapes
    <3> QED
      BY <2>1, <3>1, <1>r, LeavingLine DEF IInv, BusyStateidStaysOpen, Shapes
  <2> QED
    BY <2>2, <2>3
<1>11. ASSUME NEW e \in Connections, Sync(e) PROVE IInv'
  <2>1. UNCHANGED <<handles, table>> /\ Unlock(e)
    BY <1>11 DEF Sync, Abort, opens
  <2>4. \A c \in Connections \ {e} :
          pc[c] \in {"io", "sync"} => table'[Op(c).stateid] # NoState
    BY <2>1 DEF IInv, BusyStateidStaysOpen
  <2>5. table' = [s \in StateIds |-> table'[s]]
    BY <2>1, <1>r DEF Shapes
  <2>2. PICK stage \in {"idle", "next"} : Goto(e, stage)
    BY <1>11 DEF Sync, Abort, EndCompound, Finish
  <2>3. \E rest : todo' = [todo EXCEPT ![e] = rest]
    BY <1>11, <1>r DEF Sync, Abort, EndCompound, Finish, Shapes
  <2> QED
    BY <2>1, <2>2, <2>3, <2>4, <2>5, LeavingLine
<1>12. ASSUME UNCHANGED <<handles, ahead, table, pc, todo>> PROVE IInv'
  <2>1. Shapes' /\ NoSelfDeadlock' /\ LineInOrder'
    BY <1>12 DEF IInv, Shapes, NoSelfDeadlock, LineInOrder, InLine
  <2>2. BusyHasLock' /\ BusyStateidStaysOpen'
    BY <1>12 DEF IInv, BusyHasLock, Holds, Op, BusyStateidStaysOpen
  <2> QED
    BY <1>12, <2>1, <2>2 DEF IInv
<1>13. ASSUME NEW q \in Slots, Perform(q) PROVE IInv'
  BY <1>12, <1>13 DEF Perform, locals
<1>14. CASE UNCHANGED vars
  BY <1>12, <1>14 DEF vars, opens, locals
<1>15. ASSUME NEW e \in Connections, Serve(e) PROVE IInv'
  BY <1>15, <1>2, <1>3, <1>4, <1>5, <1>6, <1>7, <1>8, <1>9, <1>10, <1>11 DEF Serve
<1> QED
  BY <1>1, <1>13, <1>14, <1>15 DEF Next

(***************************************************************************)
(* The invariant of the lock of `stateids` and of the empty `handles`.     *)
(***************************************************************************)
THEOREM Inductive == Spec => []IInv
BY InitHolds, StepHolds, PTL DEF Spec

(***************************************************************************)
(* No CLOSE takes a stateid away from a READ or a WRITE that uses it.      *)
(***************************************************************************)
THEOREM BusyStateidsAreOpen == Spec => []BusyStateidStaysOpen
<1>1. IInv => BusyStateidStaysOpen
  BY DEF IInv
<1> QED
  BY Inductive, <1>1, PTL

(***************************************************************************)
(* No LOOKUP or CREATE comes to await the lock that it holds.              *)
(***************************************************************************)
THEOREM NoneDeadlocksItself == Spec => []NoSelfDeadlock
<1>1. IInv => NoSelfDeadlock
  BY DEF IInv
<1> QED
  BY Inductive, <1>1, PTL
-----------------------------------------------------------------------------
\* No operation that connection c has answered has failed.
AllOk(c) == \A i \in DOMAIN results[c] : results[c][i].status = "Ok"

(***************************************************************************)
(* The inductive invariant behind StopsAtFirstError: an operation goes to  *)
(* work only after others that succeeded.                                  *)
(***************************************************************************)
ResultsInOrder ==
  /\ pc = [c \in Connections |-> pc[c]]
  /\ results = [c \in Connections |-> results[c]]
  /\ \A c \in Connections :
       /\ results[c] \in Seq(ToSet(results[c]))
       /\ pc[c] \notin {"idle", "next"} => AllOk(c)
  /\ StopsAtFirstError

\* What Append does to a sequence of any elements.
LEMMA Appended ==
  ASSUME NEW s, s \in Seq(ToSet(s)), NEW e
  PROVE  /\ Append(s, e) \in Seq(ToSet(Append(s, e)))
         /\ Len(s) \in Nat /\ DOMAIN s = 1 .. Len(s)
         /\ Len(Append(s, e)) = Len(s) + 1
         /\ DOMAIN Append(s, e) = 1 .. Len(s) + 1
         /\ \A i \in 1 .. Len(s) : Append(s, e)[i] = s[i]
<1> DEFINE S == ToSet(s) \cup {e}
           t == Append(s, e)
<1>1. s \in Seq(S) /\ e \in S
  <2>1. \E n \in Nat : s \in [1 .. n -> ToSet(s)]
    BY SeqDef
  <2>2. \E n \in Nat : s \in [1 .. n -> S]
    BY <2>1
  <2> QED
    BY <2>2, SeqDef
<1>2. /\ t \in Seq(S)
      /\ Len(t) = Len(s) + 1
      /\ \A i \in 1 .. Len(s) : t[i] = s[i]
  BY <1>1, AppendProperties
<1>3. /\ Len(s) \in Nat /\ DOMAIN s = 1 .. Len(s)
      /\ DOMAIN t = 1 .. Len(s) + 1
  BY <1>1, <1>2, LenProperties
<1>4. t \in [1 .. Len(s) + 1 -> ToSet(t)]
  <2>1. t = [i \in 1 .. Len(s) + 1 |-> t[i]]
    BY <1>2, <1>3, LenProperties
  <2> HIDE DEF t
  <2>2. \A i \in 1 .. Len(s) + 1 : t[i] \in ToSet(t)
    BY <1>3 DEF ToSet
  <2> QED
    BY <2>1, <2>2
<1>5. t \in Seq(ToSet(t))
  <2> HIDE DEF t
  <2> QED
    BY <1>3, <1>4, SeqDef
<1> QED
  BY <1>2, <1>3, <1>5

\* Connection c goes to another step and answers nothing.
LEMMA Proceeding ==
  ASSUME ResultsInOrder, NEW c \in Connections, NEW stage, Goto(c, stage),
         stage \in {"idle", "next"} \/ AllOk(c), UNCHANGED results
  PROVE  ResultsInOrder'
BY DEF ResultsInOrder, Goto, AllOk, StopsAtFirstError

\* Connection c answers an operation after others that succeeded.
LEMMA Finishing ==
  ASSUME ResultsInOrder, NEW c \in Connections, AllOk(c),
         NEW status, NEW data, Finish(c, status, data)
  PROVE  ResultsInOrder' /\ results'[c] # results[c]
<1> DEFINE r == Result(Op(c), status, data)
<1>1. /\ pc' = [pc EXCEPT ![c] = "next"]
      /\ results' = [results EXCEPT ![c] = Append(results[c], r)]
  BY DEF Finish, Goto
<1> HIDE DEF r
<1>2. /\ \A d \in Connections \ {c} : results'[d] = results[d] /\ pc'[d] = pc[d]
      /\ results'[c] = Append(results[c], r) /\ pc'[c] = "next"
  BY <1>1 DEF ResultsInOrder
<1>3. /\ results'[c] \in Seq(ToSet(results'[c]))
      /\ Len(results[c]) \in Nat /\ DOMAIN results[c] = 1 .. Len(results[c])
      /\ Len(results'[c]) = Len(results[c]) + 1
      /\ DOMAIN results'[c] = 1 .. Len(results[c]) + 1
      /\ \A i \in 1 .. Len(results[c]) : results'[c][i] = results[c][i]
  BY <1>2, Appended DEF ResultsInOrder
<1>4. \A i \in DOMAIN results'[c] : i < Len(results'[c]) => results'[c][i].status = "Ok"
  BY <1>3 DEF AllOk
<1>5. StopsAtFirstError'
  <2>1. \A d \in Connections \ {c} : \A i \in DOMAIN results'[d] :
          i < Len(results'[d]) => results'[d][i].status = "Ok"
    BY <1>2 DEF ResultsInOrder, StopsAtFirstError
  <2> QED
    BY <1>4, <2>1 DEF StopsAtFirstError
<1>6. \A d \in Connections : /\ results'[d] \in Seq(ToSet(results'[d]))
                             /\ pc'[d] \notin {"idle", "next"} => AllOk(d)'
  <2>1. \A d \in Connections \ {c} :
          /\ results'[d] \in Seq(ToSet(results'[d]))
          /\ pc'[d] \notin {"idle", "next"} => \A i \in DOMAIN results'[d] :
                                                 results'[d][i].status = "Ok"
    BY <1>2 DEF ResultsInOrder, AllOk
  <2> QED
    BY <1>2, <1>3, <2>1 DEF AllOk
<1>7. /\ pc' = [d \in Connections |-> pc'[d]]
      /\ results' = [d \in Connections |-> results'[d]]
  BY <1>1 DEF ResultsInOrder
<1>8. results'[c] # results[c]
  BY <1>3
<1> QED
  BY <1>5, <1>6, <1>7, <1>8 DEF ResultsInOrder

\* The compound of connection c ends, with or without its response.
LEMMA Ending ==
  ASSUME ResultsInOrder, NEW c \in Connections, EndCompound(c)
  PROVE  ResultsInOrder'
<1>1. /\ \A d \in Connections \ {c} : results'[d] = results[d] /\ pc'[d] = pc[d]
      /\ results'[c] = <<>> /\ pc'[c] = "idle"
      /\ pc' = [d \in Connections |-> pc'[d]]
      /\ results' = [d \in Connections |-> results'[d]]
  BY DEF ResultsInOrder, EndCompound, Goto
<1>2. <<>> \in Seq(ToSet(<<>>)) /\ DOMAIN <<>> = {}
  BY SMT
<1>3. \A d \in Connections : /\ results'[d] \in Seq(ToSet(results'[d]))
                             /\ pc'[d] \notin {"idle", "next"} => AllOk(d)'
  <2>1. \A d \in Connections \ {c} :
          /\ results'[d] \in Seq(ToSet(results'[d]))
          /\ pc'[d] \notin {"idle", "next"} => \A i \in DOMAIN results'[d] :
                                                 results'[d][i].status = "Ok"
    BY <1>1 DEF ResultsInOrder, AllOk
  <2>2. results'[c] \in Seq(ToSet(results'[c])) /\ pc'[c] = "idle"
    BY <1>1, <1>2
  <2> QED
    BY <2>1, <2>2 DEF AllOk
<1>4. StopsAtFirstError'
  BY <1>1, <1>2 DEF ResultsInOrder, StopsAtFirstError
<1> QED
  BY <1>1, <1>3, <1>4 DEF ResultsInOrder

\* The operations before one that runs have succeeded.
LEMMA RunsAfterOk ==
  ASSUME ResultsInOrder, NEW c \in Connections,
         pc[c] \notin {"idle", "next"} \/ \E S : Runs(c, S)
  PROVE  AllOk(c)
<1>1. CASE pc[c] \notin {"idle", "next"}
  BY <1>1 DEF ResultsInOrder
<1>2. CASE results[c] = <<>>
  BY <1>2, SMT DEF AllOk
<1>3. CASE results[c] # <<>> /\ results[c][Len(results[c])].status = "Ok"
  <2>1. Len(results[c]) \in Nat /\ DOMAIN results[c] = 1 .. Len(results[c])
    BY Appended DEF ResultsInOrder
  <2> QED
    BY <1>3, <2>1 DEF ResultsInOrder, StopsAtFirstError, AllOk
<1> QED
  BY <1>1, <1>2, <1>3 DEF Runs, Over, Last

LEMMA ResultsStep == ResultsInOrder /\ [Next]_vars => ResultsInOrder'
<1> SUFFICES ASSUME ResultsInOrder, [Next]_vars PROVE ResultsInOrder'
  OBVIOUS
<1>1. ASSUME NEW c \in Connections, Receive(c) PROVE ResultsInOrder'
  BY <1>1, Proceeding DEF Receive
<1>2. ASSUME NEW c \in Connections, Reply(c) PROVE ResultsInOrder'
  BY <1>2, Ending DEF Reply
<1>3. ASSUME NEW c \in Connections, GetFh(c) \/ Unsupported(c) \/ UseHandle(c)
      PROVE  ResultsInOrder'
  <2>1. AllOk(c)
    BY <1>3, RunsAfterOk DEF GetFh, Unsupported, UseHandle
  <2>2. CASE GetFh(c) \/ Unsupported(c)
    BY <2>1, <2>2, Finishing DEF GetFh, Unsupported
  <2>3. CASE UseHandle(c)
    <3>1. PICK s \in Outcomes(c) :
            \/ Goto(c, "stuck") /\ UNCHANGED results
            \/ EndCompound(c)
            \/ Finish(c, s, Nothing)
      BY <2>3 DEF UseHandle
    <3> QED
      BY <2>1, <3>1, Proceeding, Ending, Finishing
  <2> QED
    BY <1>3, <2>2, <2>3
<1>4. ASSUME NEW c \in Connections, Await(c) PROVE ResultsInOrder'
  BY <1>4, RunsAfterOk, Proceeding DEF Await
<1>5. ASSUME NEW c \in Connections, Open(c) \/ Close(c) PROVE ResultsInOrder'
  <2>1. AllOk(c)
    BY <1>5, RunsAfterOk DEF Open, Close, Enters
  <2>2. \E status, data : Finish(c, status, data)
    BY <1>5 DEF Open, Close
  <2> QED
    BY <2>1, <2>2, Finishing
<1>6. ASSUME NEW c \in Connections, Seek(c) PROVE ResultsInOrder'
  <2>1. AllOk(c)
    BY <1>6, RunsAfterOk DEF Seek, Enters
  <2>2. \/ Finish(c, "BadStateid", Nothing) \/ EndCompound(c)
        \/ Goto(c, "io") /\ UNCHANGED results
    BY <1>6 DEF Seek, Abort
  <2> QED
    BY <2>1, <2>2, Finishing, Ending, Proceeding
<1>7. ASSUME NEW c \in Connections, Read(c) PROVE ResultsInOrder'
  <2>1. AllOk(c)
    BY <1>7, RunsAfterOk DEF Read
  <2>2. \E status, data : Finish(c, status, data)
    BY <1>7 DEF Read
  <2> QED
    BY <2>1, <2>2, Finishing
<1>8. ASSUME NEW c \in Connections, Write(c) PROVE ResultsInOrder'
  <2>1. AllOk(c)
    BY <1>8, RunsAfterOk DEF Write
  <2>2. Finish(c, "Ok", Nothing) \/ (Goto(c, "sync") /\ UNCHANGED results)
    BY <1>8 DEF Write
  <2> QED
    BY <2>1, <2>2, Finishing, Proceeding
<1>9. ASSUME NEW c \in Connections, Sync(c) PROVE ResultsInOrder'
  <2>1. AllOk(c)
    BY <1>9, RunsAfterOk DEF Sync
  <2>2. Finish(c, "Ok", Nothing) \/ EndCompound(c)
    BY <1>9 DEF Sync, Abort
  <2> QED
    BY <2>1, <2>2, Finishing, Ending
<1>10. ASSUME UNCHANGED <<pc, results>> PROVE ResultsInOrder'
  BY <1>10 DEF ResultsInOrder, AllOk, StopsAtFirstError
<1>11. ASSUME NEW q \in Slots, Perform(q) PROVE ResultsInOrder'
  BY <1>10, <1>11 DEF Perform, locals
<1>12. CASE UNCHANGED vars
  BY <1>10, <1>12 DEF vars, locals
<1>13. ASSUME NEW c \in Connections, Serve(c) PROVE ResultsInOrder'
  BY <1>13, <1>2, <1>3, <1>4, <1>5, <1>6, <1>7, <1>8, <1>9 DEF Serve
<1> QED
  BY <1>1, <1>11, <1>12, <1>13 DEF Next

LEMMA ResultsHold == Spec => []ResultsInOrder
<1>1. Init => ResultsInOrder
  <2>1. <<>> \in Seq(ToSet(<<>>)) /\ DOMAIN <<>> = {}
    BY SMT
  <2> QED
    BY <2>1 DEF Init, ResultsInOrder, StopsAtFirstError, AllOk
<1> QED
  BY <1>1, ResultsStep, PTL DEF Spec

(***************************************************************************)
(* handle_compound: nothing runs after an operation that failed.           *)
(***************************************************************************)
THEOREM NothingAfterError == Spec => []StopsAtFirstError
<1>1. ResultsInOrder => StopsAtFirstError
  BY DEF ResultsInOrder
<1> QED
  BY ResultsHold, <1>1, PTL
-----------------------------------------------------------------------------
(***************************************************************************)
(* TypeOK: what the operations leave in the tables, and that no offset of  *)
(* a file description goes over LastPosition.                              *)
(***************************************************************************)
Stage == {"idle", "next", "wait", "io", "sync", "stuck"}

Told == StateIds \cup Data \cup {Blank, Nothing}

\* The slot that a write is queued in is a free one.
LEMMA MinOfNat ==
  ASSUME NEW S \in SUBSET Nat, S # {}
  PROVE  Min(S) \in S
<1>1. PICK x \in S : \A y \in S : ~ (<<y, x>> \in OpToRel(<, Nat))
  BY NatLessThanWellFounded, WFMin
<1>2. \A y \in S : x <= y
  <2> SUFFICES ASSUME NEW y \in S, y < x PROVE FALSE
    OBVIOUS
  <2> DEFINE yx == <<y, x>>
  <2>1. yx \in Nat \X Nat /\ yx[1] < yx[2]
    OBVIOUS
  <2>2. yx \in OpToRel(<, Nat)
    BY <2>1 DEF OpToRel
  <2> QED
    BY <1>1, <2>2
<1> QED
  BY <1>2 DEF Min

LEMMA Limits ==
  /\ Max(Offsets) \in Nat /\ \A o \in Offsets : o \in Nat /\ o <= Max(Offsets)
  /\ Cardinality(Slots) \in Nat /\ Cardinality(Connections) \in Nat
  /\ LastPosition \in Nat
<1>1. Max(Offsets) \in Offsets /\ \A o \in Offsets : o <= Max(Offsets)
  BY NfsAssumption DEF Max
<1>2. Offsets \subseteq Nat
  BY NfsAssumption
<1>3. Cardinality(Slots) \in Nat /\ Cardinality(Connections) \in Nat
  BY NfsAssumption, FS_CardinalityType
<1>4. Max(Offsets) \in Nat
  BY <1>1, <1>2
<1>5. LastPosition \in Nat
  BY <1>3, <1>4 DEF LastPosition
<1> QED
  BY <1>1, <1>2, <1>3, <1>4, <1>5

\* Sets of queued writes and of connections are finite, and how large.
LEMMA Counted ==
  ASSUME NEW Q \in SUBSET Slots, NEW W \in SUBSET Connections
  PROVE  /\ IsFiniteSet(Q) /\ Cardinality(Q) \in Nat
         /\ Cardinality(Q) <= Cardinality(Slots)
         /\ IsFiniteSet(W) /\ Cardinality(W) \in Nat
         /\ Cardinality(W) <= Cardinality(Connections)
<1>1. IsFiniteSet(Slots) /\ IsFiniteSet(Connections)
  BY NfsAssumption
<1>2. IsFiniteSet(Q) /\ Cardinality(Q) <= Cardinality(Slots)
  BY <1>1, FS_Subset
<1>3. IsFiniteSet(W) /\ Cardinality(W) <= Cardinality(Connections)
  BY <1>1, FS_Subset
<1> QED
  BY <1>2, <1>3, FS_CardinalityType

\* The offset p has room for the writes in Q and the connections in W.
HasRoom(p, Q, W) == p + Cardinality(Q) + Cardinality(W) <= LastPosition

\* An offset that was sought has room for everything that can be under way.
LEMMA RoomAtStart ==
  ASSUME NEW p \in Nat, p <= Max(Offsets),
         NEW Q \in SUBSET Slots, NEW W \in SUBSET Connections
  PROVE  HasRoom(p, Q, W)
<1>1. /\ Cardinality(Q) \in Nat /\ Cardinality(Q) <= Cardinality(Slots)
      /\ Cardinality(W) \in Nat /\ Cardinality(W) <= Cardinality(Connections)
  BY Counted
<1> QED
  BY <1>1, Limits DEF HasRoom, LastPosition

\* Who goes makes room, for one block if it was there.
LEMMA RoomMade ==
  ASSUME NEW p \in Nat, NEW Q \in SUBSET Slots, NEW W \in SUBSET Connections,
         HasRoom(p, Q, W), NEW q, NEW c
  PROVE  /\ HasRoom(p, Q \ {q}, W) /\ HasRoom(p, Q, W \ {c})
         /\ q \in Q => HasRoom(p + 1, Q \ {q}, W)
         /\ c \in W => HasRoom(p + 1, Q, W \ {c})
         /\ c \in W => HasRoom(p, Q \cup {q}, W \ {c})
<1>1. /\ IsFiniteSet(Q) /\ Cardinality(Q) \in Nat
      /\ IsFiniteSet(W) /\ Cardinality(W) \in Nat
  BY Counted
<1>2. /\ Cardinality(Q \ {q}) = IF q \in Q THEN Cardinality(Q) - 1 ELSE Cardinality(Q)
      /\ Cardinality(Q \cup {q}) = IF q \in Q THEN Cardinality(Q) ELSE Cardinality(Q) + 1
  BY <1>1, FS_RemoveElement, FS_AddElement
<1>3. Cardinality(W \ {c}) = IF c \in W THEN Cardinality(W) - 1 ELSE Cardinality(W)
  BY <1>1, FS_RemoveElement
<1> QED
  BY <1>1, <1>2, <1>3, Limits DEF HasRoom

\* A step of connection e: its own stage and its own compound change.
LEMMA Moves ==
  ASSUME TypeOK, NEW e \in Connections, NEW stage \in Stage, Goto(e, stage),
         NEW rest \in Seq(Operations), todo' = [todo EXCEPT ![e] = rest]
  PROVE  /\ pc' \in [Connections -> Stage]
         /\ todo' \in [Connections -> Seq(Operations)]
         /\ pc'[e] = stage /\ todo'[e] = rest
         /\ \A c \in Connections \ {e} :
              pc'[c] = pc[c] /\ todo'[c] = todo[c] /\ Op(c)' = Op(c)
         /\ stage # "io" => \A s \in StateIds : AtWorkOn(s)' = AtWorkOn(s) \ {e}
<1>1. /\ pc' \in [Connections -> Stage]
      /\ todo' \in [Connections -> Seq(Operations)]
      /\ pc'[e] = stage /\ todo'[e] = rest
      /\ \A c \in Connections \ {e} : pc'[c] = pc[c] /\ todo'[c] = todo[c]
  BY DEF TypeOK, Goto, Stage
<1>2. \A c \in Connections \ {e} : Op(c)' = Op(c)
  BY <1>1 DEF Op
<1> QED
  BY <1>1, <1>2 DEF AtWorkOn

\* The operation that is next in a compound.
LEMMA NextOperation ==
  ASSUME TypeOK, NEW c \in Connections, todo[c] # <<>>
  PROVE  Op(c) \in Operations /\ Tail(todo[c]) \in Seq(Operations)
<1>1. todo[c] \in Seq(Operations)
  BY DEF TypeOK
<1> QED
  BY <1>1, HeadTailProperties DEF Op

LEMMA FinishTypes ==
  ASSUME TypeOK, NEW e \in Connections, todo[e] # <<>>,
         NEW status \in Statuses, NEW data \in Told, Finish(e, status, data),
         Op(e).op = "OPEN" /\ status = "Ok" => data \in StateIds
  PROVE  /\ Goto(e, "next")
         /\ \E rest \in Seq(Operations) : todo' = [todo EXCEPT ![e] = rest]
         /\ results' \in [Connections -> Seq(OperationResult)]
<1> DEFINE r == Result(Op(e), status, data)
<1>1. r \in OperationResult
  BY NextOperation DEF Result, OperationResult, Told
<1>2. results[e] \in Seq(OperationResult)
  BY DEF TypeOK
<1>3. Append(results[e], r) \in Seq(OperationResult)
  BY <1>1, <1>2, AppendProperties
<1>4. results' = [results EXCEPT ![e] = Append(results[e], r)]
  BY DEF Finish, TypeOK
<1>5. todo' = [todo EXCEPT ![e] = Tail(todo[e])]
  BY DEF Finish, TypeOK
<1> HIDE DEF r
<1>6. results' \in [Connections -> Seq(OperationResult)]
  BY <1>3, <1>4 DEF TypeOK
<1>7. \E rest \in Seq(Operations) : todo' = [todo EXCEPT ![e] = rest]
  BY <1>5, NextOperation
<1> QED
  BY <1>6, <1>7 DEF Finish

LEMMA EndTypes ==
  ASSUME TypeOK, NEW e \in Connections, EndCompound(e)
  PROVE  /\ Goto(e, "idle")
         /\ \E rest \in Seq(Operations) : todo' = [todo EXCEPT ![e] = rest]
         /\ results' \in [Connections -> Seq(OperationResult)]
         /\ fh' \in [Connections -> FileHandles \cup {NoHandle}]
<1>1. <<>> \in Seq(Operations) /\ <<>> \in Seq(OperationResult)
  BY EmptySeq
<1> QED
  BY <1>1 DEF EndCompound, TypeOK

LEMMA UnlockTypes ==
  ASSUME TypeOK, NEW e \in Connections, Unlock(e)
  PROVE  ahead' \in [Connections -> SUBSET Connections]
BY DEF Unlock, TypeOK

\* A connection that is at an operation has it, and it is one that exists.
LEMMA AtOperation ==
  ASSUME TypeOK, Stages, NEW c \in Connections,
         pc[c] \in {"wait", "io", "sync"} \/ \E S : Runs(c, S)
  PROVE  todo[c] # <<>> /\ Op(c) \in Operations
<1>1. todo[c] # <<>>
  BY DEF Stages, Runs, Over
<1> QED
  BY <1>1, NextOperation

LEMMA StagesKept ==
  ASSUME TypeOK, Stages, NEW e \in Connections, NEW stage \in Stage, Goto(e, stage),
         NEW rest \in Seq(Operations), todo' = [todo EXCEPT ![e] = rest],
         stage \in {"wait", "io", "sync"} => rest # <<>>,
         stage = "wait" => Head(rest).op \in OnStateIds \cup {"OPEN"},
         stage = "sync" => Head(rest).op = "WRITE" /\ Head(rest).stable
  PROVE  Stages'
<1>1. pc'[e] = stage /\ todo'[e] = rest /\ Op(e)' = Head(rest)
  BY Moves DEF Op
<1>2. \A c \in Connections \ {e} :
        pc'[c] = pc[c] /\ todo'[c] = todo[c] /\ Op(c)' = Op(c)
  BY Moves
<1> QED
  BY <1>1, <1>2 DEF Stages

\* The offset of every description that has been opened has room.
Room ==
  \A s \in StateIds : position[s] # Unopened =>
    HasRoom(position[s], QueuedOn(s), AtWorkOn(s))

\* Every description in use has been opened.
InUseOpened ==
  /\ \A s \in StateIds : table[s] # NoState => position[s] # Unopened
  /\ \A q \in Slots :
       queued[q] # NoWrite => position[queued[q].stateid] # Unopened

LEMMA OffsetsParts == OffsetsInv <=> TypeOK /\ IInv /\ Stages /\ InUseOpened /\ Room
BY DEF OffsetsInv, InUseOpened, Room, HasRoom

\* What TypeOK says of positions follows from the room there is.
LEMMA PositionsTyped ==
  ASSUME NEW p \in Nat, NEW Q \in SUBSET Slots, NEW W \in SUBSET Connections,
         HasRoom(p, Q, W)
  PROVE  p \in Positions
<1>1. Cardinality(Q) \in Nat /\ Cardinality(W) \in Nat
  BY Counted
<1> QED
  BY <1>1, Limits DEF HasRoom, Positions

LEMMA PositionsAreNat ==
  ASSUME TypeOK, NEW s \in StateIds, position[s] # Unopened
  PROVE  position[s] \in Nat /\ position[s] \in Positions
BY DEF TypeOK, Positions

(***************************************************************************)
(* A step of connection e that starts no input or output, opens nothing    *)
(* and leaves files and queued writes as they are.                         *)
(***************************************************************************)
LEMMA QuietStep ==
  ASSUME OffsetsInv, IInv', NEW e \in Connections,
         NEW stage \in Stage \ {"io"}, Goto(e, stage),
         NEW rest \in Seq(Operations), todo' = [todo EXCEPT ![e] = rest],
         stage \in {"wait", "sync"} => rest # <<>>,
         stage = "wait" => Head(rest).op \in OnStateIds \cup {"OPEN"},
         stage = "sync" => Head(rest).op = "WRITE" /\ Head(rest).stable,
         UNCHANGED <<position, content, queued>>,
         table' \in [StateIds -> FileState \cup {NoState}],
         \A s \in StateIds : table'[s] # NoState => table[s] # NoState,
         ahead' \in [Connections -> SUBSET Connections],
         results' \in [Connections -> Seq(OperationResult)],
         fh' \in [Connections -> FileHandles \cup {NoHandle}],
         known' \in [Connections -> SUBSET StateIds]
  PROVE  OffsetsInv'
<1>0. TypeOK /\ IInv /\ Stages /\ InUseOpened /\ Room
  BY OffsetsParts
<1>1. /\ pc' \in [Connections -> Stage]
      /\ todo' \in [Connections -> Seq(Operations)]
      /\ \A s \in StateIds : AtWorkOn(s)' = AtWorkOn(s) \ {e}
  BY <1>0, Moves
<1>2. TypeOK'
  BY <1>0, <1>1 DEF TypeOK, IInv, Stage
<1>3. Stages'
  BY <1>0, StagesKept
<1>4. InUseOpened'
  BY <1>0 DEF InUseOpened
<1>5. Room'
  <2>1. \A s \in StateIds : position'[s] = position[s] /\ QueuedOn(s)' = QueuedOn(s)
    BY DEF QueuedOn
  <2> SUFFICES ASSUME NEW s \in StateIds, position[s] # Unopened
               PROVE  HasRoom(position[s], QueuedOn(s), AtWorkOn(s) \ {e})
    BY <1>1, <2>1 DEF Room
  <2> QED
    BY <1>0, PositionsAreNat, RoomMade DEF Room, QueuedOn, AtWorkOn
<1> QED
  BY <1>2, <1>3, <1>4, <1>5 DEF OffsetsInv, InUseOpened, Room, HasRoom

\* OPEN that succeeds: the new description is at 0.
LEMMA OpenOffsets ==
  ASSUME OffsetsInv, IInv', NEW e \in Connections, Enters(e, {"OPEN"}),
         NEW x \in Fresh, position' = [position EXCEPT ![x] = 0],
         table' = [table EXCEPT ![x] = [file |-> Op(e).file, access |-> Op(e).access]],
         Finish(e, "Ok", x), Unlock(e),
         UNCHANGED <<handles, known, kernel, fh>>
  PROVE  OffsetsInv'
<1>0. TypeOK /\ IInv /\ Stages /\ InUseOpened /\ Room
  BY OffsetsParts
<1>1. todo[e] # <<>> /\ Op(e) \in Operations /\ Op(e).op = "OPEN"
  BY <1>0, AtOperation DEF Enters
<1>2. x \in StateIds /\ x \in Told /\ "Ok" \in Statuses
  BY DEF Fresh, Told, Statuses
<1>3. /\ Goto(e, "next") /\ "next" \in Stage
      /\ results' \in [Connections -> Seq(OperationResult)]
  BY <1>0, <1>1, <1>2, FinishTypes DEF Stage
<1>4. PICK rest \in Seq(Operations) : todo' = [todo EXCEPT ![e] = rest]
  BY <1>0, <1>1, <1>2, FinishTypes
<1>5. /\ pc' \in [Connections -> Stage]
      /\ todo' \in [Connections -> Seq(Operations)]
      /\ \A s \in StateIds : AtWorkOn(s)' = AtWorkOn(s) \ {e}
  BY <1>0, <1>3, <1>4, Moves
<1>6. table' \in [StateIds -> FileState \cup {NoState}]
  <2>1. [file |-> Op(e).file, access |-> Op(e).access] \in FileState
    BY <1>1, OperationsAssumption DEF FileState
  <2> QED
    BY <1>0, <1>2, <2>1 DEF TypeOK
<1>7. /\ position'[x] = 0 /\ \A s \in StateIds \ {x} : position'[s] = position[s]
      /\ 0 \in Positions /\ position' \in [StateIds -> Positions \cup {Unopened}]
  BY <1>0, <1>2, Limits DEF TypeOK, Positions
<1>8. TypeOK'
  BY <1>0, <1>3, <1>5, <1>6, <1>7, UnlockTypes DEF TypeOK, Stage, kernel
<1>9. Stages'
  BY <1>0, <1>3, <1>4, StagesKept
<1>10. InUseOpened'
  <2>1. 0 # Unopened /\ UNCHANGED queued
    BY DEF Unopened, kernel
  <2>2. \A s \in StateIds \ {x} : table'[s] = table[s]
    BY <1>0 DEF TypeOK
  <2>3. \A s \in StateIds : position[s] # Unopened => position'[s] # Unopened
    BY <1>7, <2>1
  <2>4. \A q \in Slots : queued[q] # NoWrite => queued[q].stateid \in StateIds
    BY <1>0 DEF TypeOK, QueuedWrite
  <2> QED
    BY <1>0, <1>2, <1>7, <2>1, <2>2, <2>3, <2>4 DEF InUseOpened
<1>11. Room'
  <2> SUFFICES ASSUME NEW s \in StateIds, position'[s] # Unopened
               PROVE  HasRoom(position'[s], QueuedOn(s), AtWorkOn(s) \ {e})
    BY <1>5 DEF Room, QueuedOn, kernel
  <2>1. QueuedOn(s) \in SUBSET Slots /\ AtWorkOn(s) \in SUBSET Connections
        /\ AtWorkOn(s) \ {e} \in SUBSET Connections
    BY DEF QueuedOn, AtWorkOn
  <2>2. CASE s = x
    BY <1>7, <2>1, <2>2, RoomAtStart, Limits
  <2>3. CASE s # x
    <3>1. position'[s] = position[s]
      BY <1>7, <2>3
    <3> QED
      BY <1>0, <2>1, <3>1, PositionsAreNat, RoomMade DEF Room
  <2> QED
    BY <2>2, <2>3
<1> QED
  BY <1>8, <1>9, <1>10, <1>11 DEF OffsetsInv, InUseOpened, Room, HasRoom

\* READ or WRITE has sought: the offset has room for all that can be under way.
LEMMA SeekOffsets ==
  ASSUME OffsetsInv, IInv', NEW e \in Connections, Enters(e, {"READ", "WRITE"}),
         Op(e).offset \in Offsets,
         position' = [position EXCEPT ![Op(e).stateid] = Op(e).offset],
         Goto(e, "io"),
         UNCHANGED <<handles, known, table, kernel, ahead, todo, results, fh>>
  PROVE  OffsetsInv'
<1> DEFINE x == Op(e).stateid
           o == Op(e).offset
<1>0. TypeOK /\ IInv /\ Stages /\ InUseOpened /\ Room
  BY OffsetsParts
<1>1. todo[e] # <<>> /\ Op(e) \in Operations /\ Op(e).op \in {"READ", "WRITE"}
  BY <1>0, AtOperation DEF Enters
<1>2. x \in StateIds /\ o \in Nat /\ o <= Max(Offsets)
  BY <1>1, OperationsAssumption, Limits DEF OnStateIds
<1>3. /\ todo[e] \in Seq(Operations) /\ todo' = [todo EXCEPT ![e] = todo[e]]
      /\ "io" \in Stage
  BY <1>0 DEF TypeOK, Stage
<1>4. /\ pc' \in [Connections -> Stage] /\ pc'[e] = "io" /\ Op(e)' = Op(e)
      /\ \A c \in Connections \ {e} : pc'[c] = pc[c] /\ Op(c)' = Op(c)
  BY <1>0, <1>3, Moves DEF Op
<1>5. \A p \in Nat : p <= Max(Offsets) => p \in Positions
  BY Limits, RoomAtStart, PositionsTyped
<1>6. /\ position'[x] = o /\ \A s \in StateIds \ {x} : position'[s] = position[s]
      /\ position' \in [StateIds -> Positions \cup {Unopened}]
  BY <1>0, <1>2, <1>5 DEF TypeOK
<1>7. TypeOK'
  BY <1>0, <1>4, <1>6 DEF TypeOK, Stage, kernel
<1>8. Stages'
  BY <1>0, <1>1, <1>3, StagesKept
<1>9. InUseOpened'
  <2>1. \A s \in StateIds : position[s] # Unopened => position'[s] # Unopened
    BY <1>2, <1>6 DEF Unopened
  <2>2. \A q \in Slots : queued[q] # NoWrite => queued[q].stateid \in StateIds
    BY <1>0 DEF TypeOK, QueuedWrite
  <2> QED
    BY <1>0, <2>1, <2>2 DEF InUseOpened, kernel
<1>10. Room'
  <2> SUFFICES ASSUME NEW s \in StateIds, position'[s] # Unopened
               PROVE  HasRoom(position'[s], QueuedOn(s)', AtWorkOn(s)')
    BY DEF Room
  <2>1. QueuedOn(s)' \in SUBSET Slots /\ AtWorkOn(s)' \in SUBSET Connections
    BY DEF QueuedOn, AtWorkOn
  <2>2. CASE s = x
    BY <1>2, <1>6, <2>1, <2>2, RoomAtStart
  <2>3. CASE s # x
    <3>1. position'[s] = position[s] /\ QueuedOn(s)' = QueuedOn(s)
      BY <1>6, <2>3 DEF QueuedOn, kernel
    <3>2. AtWorkOn(s)' = AtWorkOn(s) \ {e}
      BY <1>4, <2>3 DEF AtWorkOn
    <3>3. QueuedOn(s) \in SUBSET Slots /\ AtWorkOn(s) \in SUBSET Connections
      BY DEF QueuedOn, AtWorkOn
    <3>4. position[s] \in Nat /\ HasRoom(position[s], QueuedOn(s), AtWorkOn(s))
      BY <1>0, <3>1, PositionsAreNat DEF Room
    <3> QED
      <4>1. HasRoom(position[s], QueuedOn(s), AtWorkOn(s) \ {e})
        BY <3>3, <3>4, RoomMade
      <4> QED
        BY <3>1, <3>2, <4>1
  <2> QED
    BY <2>2, <2>3
<1> QED
  BY <1>7, <1>8, <1>9, <1>10 DEF OffsetsInv, InUseOpened, Room, HasRoom

\* READ has read: it goes, and has moved the offset by at most one block.
LEMMA ReadOffsets ==
  ASSUME OffsetsInv, IInv', NEW e \in Connections, Read(e)
  PROVE  OffsetsInv'
<1> PICK x : x = Op(e).stateid
  OBVIOUS
<1>0. TypeOK /\ IInv /\ Stages /\ InUseOpened /\ Room
  BY OffsetsParts
<1>1. /\ todo[e] # <<>> /\ Op(e) \in Operations /\ Op(e).op = "READ" /\ pc[e] = "io"
      /\ table[x] # NoState
  BY <1>0, AtOperation DEF Read, IInv, BusyStateidStaysOpen
<1>2. x \in StateIds /\ position[x] # Unopened /\ position[x] \in Nat
  BY <1>0, <1>1, OperationsAssumption, PositionsAreNat DEF OnStateIds, InUseOpened
<1>3. PICK status \in Statuses, data \in Told : Finish(e, status, data)
  <2>1. table[x].file \in Files /\ position[x] \in Positions
    BY <1>0, <1>1, <1>2, PositionsAreNat DEF TypeOK, FileState
  <2>2. content[table[x].file][position[x]] \in Told
    BY <1>0, <2>1 DEF TypeOK, Told
  <2> QED
    BY <2>2 DEF Read, Statuses, Told
<1>4. /\ Goto(e, "next") /\ "next" \in Stage
      /\ results' \in [Connections -> Seq(OperationResult)]
  BY <1>0, <1>1, <1>3, FinishTypes DEF Stage
<1>5. PICK rest \in Seq(Operations) : todo' = [todo EXCEPT ![e] = rest]
  BY <1>0, <1>1, <1>3, FinishTypes
<1>6. /\ pc' \in [Connections -> Stage]
      /\ todo' \in [Connections -> Seq(Operations)]
      /\ \A s \in StateIds : AtWorkOn(s)' = AtWorkOn(s) \ {e}
  BY <1>0, <1>4, <1>5, Moves
<1>7. /\ position'[x] \in {position[x], position[x] + 1}
      /\ position' = [position EXCEPT ![x] = position'[x]]
      /\ \A s \in StateIds \ {x} : position'[s] = position[s]
  BY <1>0, <1>2 DEF Read, TypeOK
<1>8. \A s \in StateIds : QueuedOn(s)' = QueuedOn(s)
  BY DEF Read, kernel, QueuedOn
<1>9. Room'
  <2> SUFFICES ASSUME NEW s \in StateIds, position'[s] # Unopened
               PROVE  HasRoom(position'[s], QueuedOn(s), AtWorkOn(s) \ {e})
    BY <1>6, <1>8 DEF Room
  <2>1. QueuedOn(s) \in SUBSET Slots /\ AtWorkOn(s) \in SUBSET Connections
    BY DEF QueuedOn, AtWorkOn
  <2>2. CASE s = x
    <3>1. e \in AtWorkOn(x)
      BY <1>1 DEF AtWorkOn
    <3>2. HasRoom(position[x], QueuedOn(x), AtWorkOn(x))
      BY <1>0, <1>2 DEF Room
    <3>3. /\ HasRoom(position[x], QueuedOn(x), AtWorkOn(x) \ {e})
          /\ HasRoom(position[x] + 1, QueuedOn(x), AtWorkOn(x) \ {e})
      BY <1>2, <2>1, <2>2, <3>1, <3>2, RoomMade
    <3> QED
      BY <1>7, <2>2, <3>3
  <2>3. CASE s # x
    BY <1>0, <1>7, <2>1, <2>3, PositionsAreNat, RoomMade DEF Room
  <2> QED
    BY <2>2, <2>3
<1>10. position' \in [StateIds -> Positions \cup {Unopened}]
  <2>1. position'[x] \in Nat /\ position'[x] # Unopened
    BY <1>2, <1>7 DEF Unopened
  <2>2. QueuedOn(x)' \in SUBSET Slots /\ AtWorkOn(x)' \in SUBSET Connections
    BY DEF QueuedOn, AtWorkOn
  <2>3. HasRoom(position'[x], QueuedOn(x)', AtWorkOn(x)')
    BY <1>2, <1>9, <2>1 DEF Room
  <2>4. position'[x] \in Positions
    BY <2>1, <2>2, <2>3, PositionsTyped
  <2> QED
    BY <1>0, <1>7, <2>4 DEF TypeOK
<1>11. TypeOK'
  BY <1>0, <1>4, <1>6, <1>10, UnlockTypes DEF TypeOK, Stage, kernel, Read
<1>12. Stages'
  BY <1>0, <1>4, <1>5, StagesKept
<1>13. InUseOpened'
  <2>1. \A s \in StateIds : position[s] # Unopened => position'[s] # Unopened
    BY <1>2, <1>7 DEF Unopened
  <2>2. \A q \in Slots : queued[q] # NoWrite => queued[q].stateid \in StateIds
    BY <1>0 DEF TypeOK, QueuedWrite
  <2> QED
    BY <1>0, <2>1, <2>2 DEF InUseOpened, Read, kernel
<1> QED
  BY <1>9, <1>11, <1>12, <1>13 DEF OffsetsInv, InUseOpened, Room, HasRoom

\* WRITE has queued its block, which takes the place of the connection.
LEMMA WriteOffsets ==
  ASSUME OffsetsInv, IInv', NEW e \in Connections, Write(e)
  PROVE  OffsetsInv'
<1> PICK x : x = Op(e).stateid
  OBVIOUS
<1> DEFINE w == [conn |-> e, stateid |-> x, file |-> table[x].file,
                 data |-> Op(e).data, stable |-> Op(e).stable]
           n == Min(FreeSlots)
<1>0. TypeOK /\ IInv /\ Stages /\ InUseOpened /\ Room
  BY OffsetsParts
<1>1. /\ todo[e] # <<>> /\ Op(e) \in Operations /\ Op(e).op = "WRITE" /\ pc[e] = "io"
      /\ table[x] # NoState
  BY <1>0, AtOperation DEF Write, IInv, BusyStateidStaysOpen
<1>2. x \in StateIds /\ position[x] # Unopened
  BY <1>0, <1>1, OperationsAssumption DEF OnStateIds, InUseOpened
<1>3. n \in Slots /\ queued[n] = NoWrite
  <2>1. FreeSlots \in SUBSET Nat /\ FreeSlots # {}
    BY NfsAssumption DEF FreeSlots, Write
  <2> QED
    BY <2>1, MinOfNat DEF FreeSlots
<1>4. w \in QueuedWrite
  <2>1. table[x].file \in Files
    BY <1>0, <1>1, <1>2 DEF TypeOK, FileState
  <2> QED
    BY <1>1, <1>2, <2>1, OperationsAssumption DEF QueuedWrite
<1>5. queued' = [queued EXCEPT ![n] = w]
  BY DEF Write
<1>6. /\ queued' \in [Slots -> QueuedWrite \cup {NoWrite}]
      /\ queued'[n] = w /\ \A q \in Slots \ {n} : queued'[q] = queued[q]
  BY <1>0, <1>3, <1>4, <1>5 DEF TypeOK
<1>8. PICK stage \in {"next", "sync"} : Goto(e, stage)
  BY DEF Write, Finish
<1>9. /\ results' \in [Connections -> Seq(OperationResult)]
      /\ ahead' \in [Connections -> SUBSET Connections]
  <2>1. Nothing \in Told /\ "Ok" \in Statuses
    BY DEF Told, Statuses
  <2>2. CASE Op(e).stable
    BY <1>0, <2>2 DEF Write, TypeOK
  <2>3. CASE ~Op(e).stable
    BY <1>0, <1>1, <2>1, <2>3, FinishTypes, UnlockTypes DEF Write
  <2> QED
    BY <2>2, <2>3
<1>10. PICK rest \in Seq(Operations) :
          /\ todo' = [todo EXCEPT ![e] = rest]
          /\ stage = "sync" => rest = todo[e] /\ Op(e).stable
  <2>1. Nothing \in Told /\ "Ok" \in Statuses
    BY DEF Told, Statuses
  <2>2. CASE Op(e).stable
    BY <1>0, <2>2 DEF Write, TypeOK
  <2>3. CASE ~Op(e).stable
    <3>1. stage = "next"
      BY <1>0, <1>8, <2>3 DEF Write, Finish, Goto, TypeOK
    <3> QED
      BY <1>0, <1>1, <2>1, <2>3, <3>1, FinishTypes DEF Write
  <2> QED
    BY <2>2, <2>3
<1>11. /\ pc' \in [Connections -> Stage] /\ stage \in Stage
       /\ todo' \in [Connections -> Seq(Operations)]
       /\ \A s \in StateIds : AtWorkOn(s)' = AtWorkOn(s) \ {e}
  <2>1. stage \in Stage /\ stage # "io"
    BY DEF Stage
  <2> QED
    BY <1>0, <1>8, <1>10, <2>1, Moves
<1>12. Room'
  <2> SUFFICES ASSUME NEW s \in StateIds, position[s] # Unopened
               PROVE  HasRoom(position[s], QueuedOn(s)', AtWorkOn(s) \ {e})
    BY <1>11 DEF Room, Write, opens
  <2>1. /\ QueuedOn(s) \in SUBSET Slots /\ AtWorkOn(s) \in SUBSET Connections
        /\ position[s] \in Nat
    BY <1>0, PositionsAreNat DEF QueuedOn, AtWorkOn
  <2>2. CASE s = x
    <3>1. e \in AtWorkOn(x)
      BY <1>1 DEF AtWorkOn
    <3>2. QueuedOn(x)' = QueuedOn(x) \cup {n}
      <4>1. w # NoWrite /\ w.stateid = x
        BY <1>4, NfsAssumption
      <4> HIDE DEF w, n
      <4> QED
        BY <1>3, <1>6, <4>1 DEF QueuedOn
    <3>3. HasRoom(position[x], QueuedOn(x), AtWorkOn(x))
      BY <1>0, <1>2 DEF Room
    <3>4. HasRoom(position[x], QueuedOn(x) \cup {n}, AtWorkOn(x) \ {e})
      BY <2>1, <2>2, <3>1, <3>3, RoomMade
    <3> QED
      BY <2>2, <3>2, <3>4
  <2>3. CASE s # x
    <3>1. QueuedOn(s)' = QueuedOn(s)
      BY <1>3, <1>6, <2>3 DEF QueuedOn
    <3> QED
      BY <1>0, <2>1, <3>1, RoomMade DEF Room
  <2> QED
    BY <2>2, <2>3
<1>13. TypeOK'
  BY <1>0, <1>6, <1>9, <1>11 DEF TypeOK, Stage, opens, Write
<1>14. Stages'
  <2>1. stage = "sync" => rest # <<>> /\ Head(rest).op = "WRITE" /\ Head(rest).stable
    BY <1>1, <1>10 DEF Op
  <2> QED
    BY <1>0, <1>8, <1>10, <1>11, <2>1, StagesKept
<1>15. InUseOpened'
  BY <1>0, <1>2, <1>6 DEF InUseOpened, Write, opens
<1> QED
  BY <1>12, <1>13, <1>14, <1>15 DEF OffsetsInv, InUseOpened, Room, HasRoom

\* A queued write is done: its block moves the offset on.
LEMMA PerformOffsets ==
  ASSUME OffsetsInv, IInv', NEW n \in Slots, Perform(n)
  PROVE  OffsetsInv'
<1> PICK w : w = queued[n]
  OBVIOUS
<1> PICK x : x = w.stateid
  OBVIOUS
<1>0. TypeOK /\ IInv /\ Stages /\ InUseOpened /\ Room
  BY OffsetsParts
<1>1. w \in QueuedWrite /\ x \in StateIds /\ position[x] # Unopened /\ position[x] \in Nat
  <2>1. w \in QueuedWrite /\ x \in StateIds
    BY <1>0 DEF Perform, TypeOK, QueuedWrite
  <2> QED
    BY <1>0, <2>1, PositionsAreNat DEF Perform, InUseOpened
<1>2. UNCHANGED <<handles, ahead, known, table, pc, todo, results, fh>>
  BY DEF Perform, locals
<1>3. queued' = [queued EXCEPT ![n] = NoWrite]
  BY DEF Perform
<1>4. \A s \in StateIds : /\ QueuedOn(s)' = QueuedOn(s) \ {n}
                          /\ AtWorkOn(s)' = AtWorkOn(s)
                          /\ QueuedOn(s) \in SUBSET Slots
                          /\ AtWorkOn(s) \in SUBSET Connections
  BY <1>0, <1>2, <1>3 DEF TypeOK, QueuedOn, AtWorkOn, Op
<1>5. /\ position'[x] \in {position[x], position[x] + 1}
      /\ position' = [position EXCEPT ![x] = position'[x]]
      /\ \A s \in StateIds \ {x} : position'[s] = position[s]
  BY <1>0, <1>1 DEF Perform, TypeOK
<1>6. content' \in [Files -> [Positions -> Data \cup {Blank}]]
  <2>1. CASE UNCHANGED content
    BY <1>0, <2>1 DEF TypeOK
  <2>2. CASE content' = [content EXCEPT ![w.file][position[x]] = w.data]
    <3>1. w.file \in Files /\ w.data \in Data
      BY <1>1 DEF QueuedWrite
    <3> QED
      BY <1>0, <2>2, <3>1 DEF TypeOK
  <2> QED
    BY <2>1, <2>2 DEF Perform
<1>7. Room'
  <2> SUFFICES ASSUME NEW s \in StateIds, position'[s] # Unopened
               PROVE  HasRoom(position'[s], QueuedOn(s) \ {n}, AtWorkOn(s))
    BY <1>4 DEF Room
  <2>1. CASE s = x
    <3>1. n \in QueuedOn(x)
      BY DEF QueuedOn, Perform
    <3>2. HasRoom(position[x], QueuedOn(x), AtWorkOn(x))
      BY <1>0, <1>1 DEF Room
    <3>3. /\ HasRoom(position[x], QueuedOn(x) \ {n}, AtWorkOn(x))
          /\ HasRoom(position[x] + 1, QueuedOn(x) \ {n}, AtWorkOn(x))
      BY <1>1, <1>4, <3>1, <3>2, RoomMade
    <3> QED
      BY <1>5, <2>1, <3>3
  <2>2. CASE s # x
    <3>1. position'[s] = position[s]
      BY <1>5, <2>2
    <3>2. position[s] \in Nat /\ HasRoom(position[s], QueuedOn(s), AtWorkOn(s))
      BY <1>0, <3>1, PositionsAreNat DEF Room
    <3>3. HasRoom(position[s], QueuedOn(s) \ {n}, AtWorkOn(s))
      BY <1>4, <3>2, RoomMade
    <3> QED
      BY <3>1, <3>3
  <2> QED
    BY <2>1, <2>2
<1>8. position' \in [StateIds -> Positions \cup {Unopened}]
  <2>1. position'[x] \in Nat /\ position'[x] # Unopened
    BY <1>1, <1>5 DEF Unopened
  <2>2. QueuedOn(x)' \in SUBSET Slots /\ AtWorkOn(x)' \in SUBSET Connections
    BY <1>1, <1>4
  <2>3. HasRoom(position'[x], QueuedOn(x)', AtWorkOn(x)')
    BY <1>1, <1>7, <2>1 DEF Room
  <2>4. position'[x] \in Positions
    BY <2>1, <2>2, <2>3, PositionsTyped
  <2> QED
    BY <1>0, <1>5, <2>4 DEF TypeOK
<1>9. TypeOK'
  BY <1>0, <1>2, <1>3, <1>6, <1>8 DEF TypeOK
<1>10. Stages'
  BY <1>0, <1>2 DEF Stages, Op
<1>11. InUseOpened'
  <2>1. \A s \in StateIds : position[s] # Unopened => position'[s] # Unopened
    BY <1>1, <1>5 DEF Unopened
  <2>2. \A q \in Slots : queued[q] # NoWrite => queued[q].stateid \in StateIds
    BY <1>0 DEF TypeOK, QueuedWrite
  <2>3. \A q \in Slots : queued'[q] # NoWrite => queued'[q] = queued[q]
    BY <1>0, <1>3 DEF TypeOK
  <2> QED
    BY <1>0, <1>2, <2>1, <2>2, <2>3 DEF InUseOpened
<1> QED
  BY <1>7, <1>9, <1>10, <1>11 DEF OffsetsInv, InUseOpened, Room, HasRoom

LEMMA InitOffsets == Init => OffsetsInv
<1> SUFFICES ASSUME Init PROVE OffsetsInv
  OBVIOUS
<1>1. <<>> \in Seq(Operations) /\ <<>> \in Seq(OperationResult)
  BY EmptySeq
<1>2. TypeOK
  BY <1>1 DEF Init, TypeOK
<1> QED
  BY <1>2, InitHolds DEF Init, OffsetsInv, Stages

\* An answer of a status alone, after which the compound goes on.
LEMMA AnswerOffsets ==
  ASSUME OffsetsInv, IInv', NEW e \in Connections, todo[e] # <<>>,
         NEW status \in Statuses, Finish(e, status, Nothing),
         Op(e).op # "OPEN" \/ status # "Ok",
         UNCHANGED <<position, content, queued, known>>,
         fh' \in [Connections -> FileHandles \cup {NoHandle}],
         UNCHANGED ahead \/ Unlock(e),
         table' \in [StateIds -> FileState \cup {NoState}],
         \A s \in StateIds : table'[s] # NoState => table[s] # NoState
  PROVE  OffsetsInv'
<1>1. TypeOK /\ Nothing \in Told /\ "next" \in Stage \ {"io"}
  BY DEF OffsetsInv, Told, Stage
<1>2. Goto(e, "next") /\ results' \in [Connections -> Seq(OperationResult)]
  BY <1>1, FinishTypes
<1>3. PICK rest \in Seq(Operations) : todo' = [todo EXCEPT ![e] = rest]
  BY <1>1, FinishTypes
<1>4. /\ ahead' \in [Connections -> SUBSET Connections]
      /\ known' \in [Connections -> SUBSET StateIds]
  BY <1>1, UnlockTypes DEF TypeOK
<1> QED
  BY <1>1, <1>2, <1>3, <1>4, QuietStep

\* The compound ends: its response is sent, or an error ended it.
LEMMA EndOffsets ==
  ASSUME OffsetsInv, IInv', NEW e \in Connections, EndCompound(e),
         UNCHANGED <<position, content, queued, table>>,
         UNCHANGED ahead \/ Unlock(e),
         known' \in [Connections -> SUBSET StateIds]
  PROVE  OffsetsInv'
<1>1. TypeOK /\ "idle" \in Stage \ {"io"}
  BY DEF OffsetsInv, Stage
<1>2. /\ Goto(e, "idle")
      /\ results' \in [Connections -> Seq(OperationResult)]
      /\ fh' \in [Connections -> FileHandles \cup {NoHandle}]
  BY <1>1, EndTypes
<1>3. PICK rest \in Seq(Operations) : todo' = [todo EXCEPT ![e] = rest]
  BY <1>1, EndTypes
<1>4. /\ ahead' \in [Connections -> SUBSET Connections]
      /\ table' \in [StateIds -> FileState \cup {NoState}]
  BY <1>1, UnlockTypes DEF TypeOK
<1> QED
  BY <1>1, <1>2, <1>3, <1>4, QuietStep

LEMMA GrantedTyped ==
  ASSUME TypeOK, NEW c \in Connections
  PROVE  Granted(c) \subseteq StateIds
<1>1. results[c] \in Seq(OperationResult)
  BY DEF TypeOK
<1>2. ToSet(results[c]) \subseteq OperationResult
  BY <1>1, ElementOfSeq DEF ToSet
<1> QED
  BY <1>2 DEF Granted, OperationResult

LEMMA OffsetsStep == OffsetsInv /\ [Next]_vars => OffsetsInv'
<1> SUFFICES ASSUME OffsetsInv, [Next]_vars PROVE OffsetsInv'
  OBVIOUS
<1>0. TypeOK /\ Stages /\ IInv /\ IInv'
  BY StepHolds DEF OffsetsInv
<1>1. ASSUME NEW e \in Connections, Receive(e) PROVE OffsetsInv'
  <2>1. PICK r \in Requests : todo' = [todo EXCEPT ![e] = r]
    BY <1>1 DEF Receive
  <2>2. r \in Seq(Operations) /\ "next" \in Stage \ {"io"} /\ Goto(e, "next")
    BY <1>1, NfsAssumption DEF Receive, Stage
  <2>3. UNCHANGED <<ahead, known, table, position, content, queued, results, fh>>
    BY <1>1 DEF Receive, opens, kernel
  <2> QED
    BY <1>0, <2>1, <2>2, <2>3, QuietStep DEF TypeOK
<1>2. ASSUME NEW e \in Connections, Reply(e) PROVE OffsetsInv'
  <2>1. known' \in [Connections -> SUBSET StateIds]
    <3>1. Granted(e) \subseteq StateIds
      BY <1>0, GrantedTyped
    <3>2. UNCHANGED known \/ known' = [known EXCEPT ![e] = known[e] \cup Granted(e)]
      BY <1>2 DEF Reply
    <3>3. known \in [Connections -> SUBSET StateIds]
      BY <1>0 DEF TypeOK
    <3> QED
      BY <3>1, <3>2, <3>3
  <2> QED
    BY <1>0, <1>2, <2>1, EndOffsets DEF Reply, opens, kernel
<1>3. ASSUME NEW e \in Connections, GetFh(e) PROVE OffsetsInv'
  <2>1. todo[e] # <<>> /\ Op(e).op # "OPEN" /\ "Ok" \in Statuses
    BY <1>3 DEF GetFh, Runs, Over, Statuses
  <2>2. fh' \in [Connections -> FileHandles \cup {NoHandle}]
    BY <1>0, <1>3 DEF GetFh, TypeOK
  <2> QED
    BY <1>0, <1>3, <2>1, <2>2, AnswerOffsets DEF GetFh, opens, kernel, TypeOK
<1>4. ASSUME NEW e \in Connections, UseHandle(e) PROVE OffsetsInv'
  <2>1. PICK s \in {"BadHandle", "StaleFileHandle"} :
          Finish(e, s, Nothing) /\ UNCHANGED fh
    BY <1>0, <1>4, HandlesFindNothing DEF IInv
  <2>2. s \in Statuses
    BY DEF Statuses
  <2>3. todo[e] # <<>> /\ Finish(e, s, Nothing)
    BY <1>4, <2>1, <2>2 DEF UseHandle, Runs, Over
  <2> QED
    BY <1>0, <1>4, <2>1, <2>2, <2>3, AnswerOffsets DEF UseHandle, opens, kernel, TypeOK
<1>5. ASSUME NEW e \in Connections, Unsupported(e) PROVE OffsetsInv'
  <2>1. todo[e] # <<>> /\ "Error" \in Statuses
    BY <1>5 DEF Unsupported, Runs, Over, Statuses
  <2> QED
    BY <1>0, <1>5, <2>1, AnswerOffsets DEF Unsupported, opens, kernel, TypeOK
<1>6. ASSUME NEW e \in Connections, Await(e) PROVE OffsetsInv'
  <2>1. /\ todo[e] # <<>> /\ todo[e] \in Seq(Operations)
        /\ Head(todo[e]).op \in OnStateIds \cup {"OPEN"}
        /\ Goto(e, "wait") /\ "wait" \in Stage \ {"io"}
    BY <1>0, <1>6 DEF Await, Runs, Over, Op, Stage, TypeOK
  <2>2. /\ todo' = [todo EXCEPT ![e] = todo[e]]
        /\ ahead' \in [Connections -> SUBSET Connections]
    BY <1>0, <1>6 DEF Await, TypeOK
  <2>3. UNCHANGED <<known, table, position, content, queued, results, fh>>
    BY <1>6 DEF Await, opens, kernel
  <2> QED
    BY <1>0, <2>1, <2>2, <2>3, QuietStep DEF TypeOK
<1>7. ASSUME NEW e \in Connections, Open(e) PROVE OffsetsInv'
  <2>1. todo[e] # <<>> /\ {"IoError", "Error"} \subseteq Statuses
    BY <1>0, <1>7, AtOperation DEF Open, Enters, Statuses
  <2>2. CASE \E status \in {"IoError", "Error"} :
               Finish(e, status, Nothing) /\ UNCHANGED opens
    BY <1>0, <1>7, <2>1, <2>2, AnswerOffsets DEF Open, opens, kernel, TypeOK
  <2>3. CASE \E s \in Fresh :
               /\ table' = [table EXCEPT ![s] = [file |-> Op(e).file, access |-> Op(e).access]]
               /\ position' = [position EXCEPT ![s] = 0]
               /\ Finish(e, "Ok", s)
    BY <1>0, <1>7, <2>3, OpenOffsets DEF Open
  <2> QED
    BY <1>7, <2>2, <2>3 DEF Open
<1>8. ASSUME NEW e \in Connections, Close(e) PROVE OffsetsInv'
  <2>1. todo[e] # <<>> /\ Op(e).op # "OPEN" /\ {"Ok", "BadStateid"} \subseteq Statuses
    BY <1>0, <1>8, AtOperation DEF Close, Enters, Statuses
  <2>2. PICK status \in {"Ok", "BadStateid"} : Finish(e, status, Nothing)
    BY <1>8 DEF Close
  <2>3. /\ table' \in [StateIds -> FileState \cup {NoState}]
        /\ \A s \in StateIds : table'[s] # NoState => table[s] # NoState
    BY <1>0, <1>8 DEF Close, TypeOK
  <2> QED
    BY <1>0, <1>8, <2>1, <2>2, <2>3, AnswerOffsets DEF Close, kernel, TypeOK
<1>9. ASSUME NEW e \in Connections, Seek(e) PROVE OffsetsInv'
  <2>1. todo[e] # <<>> /\ Op(e).op # "OPEN" /\ "BadStateid" \in Statuses
    BY <1>0, <1>9, AtOperation DEF Seek, Enters, Statuses
  <2>2. UNCHANGED <<handles, known, table, kernel, content, queued>>
    BY <1>9 DEF Seek, kernel
  <2>3. CASE Finish(e, "BadStateid", Nothing) /\ Unlock(e) /\ UNCHANGED <<position, fh>>
    BY <1>0, <2>1, <2>2, <2>3, AnswerOffsets DEF TypeOK
  <2>4. CASE /\ Op(e).offset \in Offsets /\ Goto(e, "io")
             /\ position' = [position EXCEPT ![Op(e).stateid] = Op(e).offset]
             /\ UNCHANGED <<ahead, todo, results, fh>>
    BY <1>0, <1>9, <2>2, <2>4, SeekOffsets DEF Seek
  <2>5. CASE Abort(e) /\ UNCHANGED position
    BY <1>0, <2>2, <2>5, EndOffsets DEF Abort, TypeOK
  <2> QED
    BY <1>9, <2>3, <2>4, <2>5 DEF Seek
<1>10. ASSUME NEW e \in Connections, Read(e) PROVE OffsetsInv'
  BY <1>0, <1>10, ReadOffsets
<1>11. ASSUME NEW e \in Connections, Write(e) PROVE OffsetsInv'
  BY <1>0, <1>11, WriteOffsets
<1>12. ASSUME NEW e \in Connections, Sync(e) PROVE OffsetsInv'
  <2>1. todo[e] # <<>> /\ Op(e).op # "OPEN" /\ "Ok" \in Statuses
    BY <1>0, <1>12, AtOperation DEF Sync, Statuses, Stages
  <2>2. UNCHANGED <<handles, known, table, position, content, queued>>
    BY <1>12 DEF Sync, opens, kernel
  <2>3. CASE Finish(e, "Ok", Nothing) /\ Unlock(e) /\ UNCHANGED fh
    BY <1>0, <2>1, <2>2, <2>3, AnswerOffsets DEF TypeOK
  <2>4. CASE Abort(e)
    BY <1>0, <2>2, <2>4, EndOffsets DEF Abort, TypeOK
  <2> QED
    BY <1>12, <2>3, <2>4 DEF Sync
<1>13. ASSUME NEW n \in Slots, Perform(n) PROVE OffsetsInv'
  BY <1>0, <1>13, PerformOffsets
<1>14. CASE UNCHANGED vars
  <2>1. UNCHANGED <<handles, table, ahead, position, content, queued, pc, todo,
                    results, fh, known>>
    BY <1>14 DEF vars, opens, kernel, locals
  <2>2. TypeOK'
    BY <1>0, <2>1 DEF TypeOK
  <2>3. Stages'
    BY <1>0, <2>1 DEF Stages, Op
  <2>4. InUseOpened'
    BY <2>1, OffsetsParts DEF InUseOpened
  <2>5. Room'
    BY <2>1, OffsetsParts DEF Room, QueuedOn, AtWorkOn, Op
  <2> QED
    BY <1>0, <2>2, <2>3, <2>4, <2>5 DEF OffsetsInv, InUseOpened, Room, HasRoom
<1>15. ASSUME NEW e \in Connections, Serve(e) PROVE OffsetsInv'
  BY <1>15, <1>2, <1>3, <1>4, <1>5, <1>6, <1>7, <1>8, <1>9, <1>10, <1>11, <1>12 DEF Serve
<1> QED
  BY <1>1, <1>13, <1>14, <1>15 DEF Next

(***************************************************************************)
(* Offsets of file descriptions have room for all that is under way.       *)
(***************************************************************************)
THEOREM OffsetsHaveRoom == Spec => []OffsetsInv
BY InitOffsets, OffsetsStep, PTL DEF Spec

(***************************************************************************)
(* The types of the variables, whatever compounds the clients send and     *)
(* however many writes are queued behind one file description.             *)
(***************************************************************************)
THEOREM TypeCorrect == Spec => []TypeOK
<1>1. OffsetsInv => TypeOK
  BY DEF OffsetsInv
<1> QED
  BY OffsetsHaveRoom, <1>1, PTL
-----------------------------------------------------------------------------
(***************************************************************************)
(* Of all steps only a CLOSE that succeeds ends an open stateid, and only  *)
(* the one that it names.                                                  *)
(***************************************************************************)
THEOREM StateidsStayOpen == Spec => GoesOnlyByClose
<1> DEFINE Ends(s) == table[s] # NoState /\ table'[s] # table[s]
           Closes(s) == \E c \in Connections :
                          /\ pc[c] = "wait" /\ Op(c).op = "CLOSE" /\ Op(c).stateid = s
                          /\ results'[c] # results[c]
<1>1. OffsetsInv /\ ResultsInOrder /\ [Next]_vars
        => [\A s \in StateIds : Ends(s) => Closes(s)]_vars
  <2> SUFFICES ASSUME OffsetsInv, ResultsInOrder, Next,
                      NEW s \in StateIds, Ends(s)
               PROVE  Closes(s)
    OBVIOUS
  <2>1. ~UNCHANGED table /\ TypeOK /\ position[s] # Unopened
    BY DEF OffsetsInv
  <2>2. PICK c \in Connections : Open(c) \/ Close(c)
    BY <2>1 DEF Next, Receive, Serve, GetFh, UseHandle, Unsupported, Await, Seek,
               Read, Write, Sync, Reply, Perform, opens
  <2>3. CASE Open(c)
    <3>1. PICK x \in Fresh : \E state : table' = [table EXCEPT ![x] = state]
      BY <2>1, <2>3 DEF Open, opens
    <3>2. x # s
      BY <2>1, <3>1 DEF Fresh
    <3> QED
      BY <2>1, <3>1, <3>2 DEF TypeOK
  <2>4. CASE Close(c)
    <3>1. pc[c] = "wait" /\ Op(c).op = "CLOSE" /\ Op(c).stateid = s
      BY <2>1, <2>4 DEF Close, Enters, TypeOK
    <3>2. AllOk(c)
      BY <3>1, RunsAfterOk
    <3>3. \E status, data : Finish(c, status, data)
      BY <2>4 DEF Close
    <3>4. results'[c] # results[c]
      BY <3>2, <3>3, Finishing
    <3> QED
      BY <3>1, <3>4
  <2> QED
    BY <2>2, <2>3, <2>4
<1> QED
  BY <1>1, OffsetsHaveRoom, ResultsHold, PTL DEF Spec, GoesOnlyByClose
-----------------------------------------------------------------------------
(***************************************************************************)
(* The file data path when stateids are private and writes stable.         *)
(***************************************************************************)

\* The stateids that a compound works on are those its client was told.
AsksOwn(c) ==
  \A i \in DOMAIN todo[c] :
    todo[c][i].op \in OnStateIds => todo[c][i].stateid \in known[c]

LEMMA FilesParts ==
  FilesInv <=> OffsetsInv /\ StateidsApart /\ QueuedAsAsked /\ AtOffset
BY DEF FilesInv

\* The operation at the head of a compound is on a stateid of its client.
LEMMA UsesOwn ==
  ASSUME OffsetsInv, StateidsApart, NEW c \in Connections, todo[c] # <<>>,
         Op(c).op \in OnStateIds
  PROVE  /\ Op(c).stateid \in Has(c) /\ Op(c).stateid \in StateIds
         /\ position[Op(c).stateid] # Unopened
<1>1. todo[c] \in Seq(Operations) /\ Op(c) \in Operations
  BY NextOperation DEF OffsetsInv, TypeOK
<1>2. 1 \in DOMAIN todo[c] /\ Op(c) = todo[c][1]
  BY <1>1, EmptySeq DEF Op
<1>3. Op(c).stateid \in Has(c)
  BY <1>2 DEF StateidsApart, Has
<1> QED
  BY <1>1, <1>3, OperationsAssumption DEF StateidsApart

\* Two connections at work are at work on two stateids.
LEMMA WorkApart ==
  ASSUME OffsetsInv, StateidsApart, NEW c \in Connections, NEW e \in Connections, c # e,
         pc[c] \in {"io", "sync"}, todo[e] # <<>>, Op(e).op \in OnStateIds
  PROVE  Op(c).stateid # Op(e).stateid
<1>1. todo[c] # <<>> /\ Op(c).op \in OnStateIds
  BY DEF OffsetsInv, Stages, IInv, BusyHasLock, OnStateIds
<1>2. Op(c).stateid \in Has(c) /\ Op(e).stateid \in Has(e)
  BY <1>1, UsesOwn
<1> QED
  BY <1>2 DEF StateidsApart

\* A queued write is that of a connection which waits for it.
LEMMA QueuedBy ==
  ASSUME TypeOK, QueuedAsAsked, NEW q \in Slots, queued[q] # NoWrite
  PROVE  /\ queued[q] \in QueuedWrite /\ queued[q].conn \in Connections
         /\ pc[queued[q].conn] = "sync" /\ InFlight(queued[q].conn)
<1>1. queued[q] \in QueuedWrite
  BY DEF TypeOK
<1>2. queued[q].stable /\ pc[queued[q].conn] = "sync"
  BY DEF QueuedAsAsked
<1> QED
  BY <1>1, <1>2 DEF QueuedWrite, InFlight

LEMMA AppendedSet ==
  ASSUME NEW S, NEW s \in Seq(S), NEW x \in S
  PROVE  ToSet(Append(s, x)) = ToSet(s) \cup {x}
<1> DEFINE t == Append(s, x)
<1>1. /\ Len(s) \in Nat /\ DOMAIN s = 1 .. Len(s) /\ DOMAIN t = 1 .. Len(s) + 1
      /\ \A i \in 1 .. Len(s) : t[i] = s[i]
      /\ t[Len(s) + 1] = x
  BY AppendProperties
<1> HIDE DEF t
<1>2. ToSet(t) \subseteq ToSet(s) \cup {x}
  <2> SUFFICES ASSUME NEW i \in DOMAIN t PROVE t[i] \in ToSet(s) \cup {x}
    BY DEF ToSet
  <2>1. i \in 1 .. Len(s) \/ i = Len(s) + 1
    BY <1>1
  <2> QED
    BY <1>1, <2>1 DEF ToSet
<1>3. ToSet(s) \cup {x} \subseteq ToSet(t)
  <2>1. \A i \in 1 .. Len(s) + 1 : t[i] \in ToSet(t)
    BY <1>1 DEF ToSet
  <2>2. \A i \in 1 .. Len(s) : s[i] \in ToSet(t)
    BY <1>1, <2>1
  <2>3. x \in ToSet(t)
    BY <1>1, <2>1
  <2> QED
    BY <1>1, <2>2, <2>3 DEF ToSet
<1> QED
  BY <1>2, <1>3 DEF t

\* What an answer tells the client, if it gets there.
LEMMA Granting ==
  ASSUME TypeOK, NEW e \in Connections, todo[e] # <<>>,
         NEW status \in Statuses, NEW data \in Told, Finish(e, status, data),
         Op(e).op = "OPEN" /\ status = "Ok" => data \in StateIds
  PROVE  /\ pc'[e] = "next"
         /\ \A c \in Connections \ {e} :
              /\ pc'[c] = pc[c] /\ todo'[c] = todo[c] /\ results'[c] = results[c]
              /\ Op(c)' = Op(c) /\ Granted(c)' = Granted(c)
         /\ Granted(e)' = Granted(e) \cup
              (IF Op(e).op = "OPEN" /\ status = "Ok" THEN {data} ELSE {})
         /\ AsksOwn(e) /\ UNCHANGED known => AsksOwn(e)'
<1> DEFINE r == Result(Op(e), status, data)
<1>1. /\ pc'[e] = "next" /\ todo'[e] = Tail(todo[e])
      /\ results'[e] = Append(results[e], r)
      /\ \A c \in Connections \ {e} :
           pc'[c] = pc[c] /\ todo'[c] = todo[c] /\ results'[c] = results[c]
  BY DEF Finish, Goto, TypeOK
<1>2. r \in OperationResult /\ results[e] \in Seq(OperationResult)
  BY NextOperation DEF r, Result, OperationResult, Told, TypeOK
<1>3. ToSet(results'[e]) = ToSet(results[e]) \cup {r}
  <2> HIDE DEF r
  <2> QED
    BY <1>1, <1>2, AppendedSet
<1>4. Granted(e)' = Granted(e) \cup
        (IF Op(e).op = "OPEN" /\ status = "Ok" THEN {data} ELSE {})
  <2>1. Granted(e)' =
          {x.data : x \in {y \in ToSet(results[e]) \cup {r} :
                             y.op.op = "OPEN" /\ y.status = "Ok"}}
    BY <1>3 DEF Granted
  <2>2. r.op = Op(e) /\ r.status = status /\ r.data = data
    BY DEF Result
  <2> HIDE DEF r
  <2> QED
    BY <2>1, <2>2 DEF Granted
<1>5. AsksOwn(e) /\ UNCHANGED known => AsksOwn(e)'
  <2>1. todo[e] \in Seq(Operations)
    BY DEF TypeOK
  <2>2. \A i \in DOMAIN Tail(todo[e]) :
          i + 1 \in DOMAIN todo[e] /\ Tail(todo[e])[i] = todo[e][i + 1]
    BY <2>1
  <2> QED
    BY <1>1, <2>2 DEF AsksOwn
<1> QED
  BY <1>1, <1>4, <1>5 DEF Op, Granted

LEMMA EndGranting ==
  ASSUME TypeOK, NEW e \in Connections, EndCompound(e)
  PROVE  /\ pc'[e] = "idle" /\ results'[e] = <<>>
         /\ \A c \in Connections \ {e} :
              /\ pc'[c] = pc[c] /\ todo'[c] = todo[c] /\ results'[c] = results[c]
              /\ Op(c)' = Op(c) /\ Granted(c)' = Granted(c)
         /\ Granted(e)' = {}
         /\ AsksOwn(e)'
<1>1. /\ pc'[e] = "idle" /\ todo'[e] = <<>> /\ results'[e] = <<>>
      /\ \A c \in Connections \ {e} :
           pc'[c] = pc[c] /\ todo'[c] = todo[c] /\ results'[c] = results[c]
  BY DEF EndCompound, Goto, TypeOK
<1>2. DOMAIN <<>> = {}
  BY SMT
<1>3. Granted(e)' = {} /\ AsksOwn(e)'
  BY <1>1, <1>2 DEF Granted, ToSet, AsksOwn
<1> QED
  BY <1>1, <1>3 DEF Op, Granted

\* Stateids stay apart if what a step tells a client of is its own or new.
LEMMA ApartKept ==
  ASSUME StateidsApart, NEW e \in Connections,
         \A c \in Connections \ {e} : Has(c)' \subseteq Has(c) /\ AsksOwn(c)',
         \A s \in Has(e)' : s \in Has(e) \/ (position[s] = Unopened /\ position'[s] # Unopened),
         AsksOwn(e)',
         \A c \in Connections : \A s \in Has(c) : position'[s] # Unopened
  PROVE  StateidsApart'
<1>1. \A c, d \in Connections : c # d => Has(c)' \cap Has(d)' = {}
  BY DEF StateidsApart
<1>2. \A c \in Connections : \A s \in Has(c)' : position'[s] # Unopened
  BY DEF StateidsApart
<1>3. \A c \in Connections : AsksOwn(c)'
  OBVIOUS
<1> QED
  BY <1>1, <1>2, <1>3 DEF StateidsApart, AsksOwn

(***************************************************************************)
(* A step of connection e that queues nothing, and changes no stateid that *)
(* is open but the one that e works on.                                    *)
(***************************************************************************)
LEMMA OthersUndisturbed ==
  ASSUME FilesInv, NEW e \in Connections,
         \A c \in Connections \ {e} : pc'[c] = pc[c] /\ Op(c)' = Op(c),
         pc'[e] = "io" => position'[Op(e)'.stateid] = Op(e)'.offset,
         pc[e] # "sync" \/ ~InFlight(e),
         UNCHANGED queued,
         \A s \in StateIds : position[s] # Unopened =>
           \/ position'[s] = position[s] /\ table'[s] = table[s]
           \/ todo[e] # <<>> /\ Op(e).op \in OnStateIds /\ s = Op(e).stateid
  PROVE  QueuedAsAsked' /\ AtOffset'
<1>0. OffsetsInv /\ StateidsApart /\ QueuedAsAsked /\ AtOffset /\ TypeOK
  BY FilesParts DEF OffsetsInv
<1>1. ASSUME NEW c \in Connections \ {e}, pc[c] \in {"io", "sync"}
      PROVE  LET x == Op(c).stateid IN
             position'[x] = position[x] /\ table'[x] = table[x]
  <2>1. todo[c] # <<>> /\ Op(c).op \in OnStateIds
    BY <1>0, <1>1 DEF OffsetsInv, Stages, IInv, BusyHasLock, OnStateIds
  <2>2. Op(c).stateid \in StateIds /\ position[Op(c).stateid] # Unopened
    BY <1>0, <2>1, UsesOwn
  <2> QED
    BY <1>0, <1>1, <2>2, WorkApart
<1>2. ASSUME NEW q \in Slots, NEW w, w = queued[q], w # NoWrite
      PROVE  /\ w.stable /\ pc'[w.conn] = "sync"
             /\ w.stateid = Op(w.conn)'.stateid /\ w.data = Op(w.conn)'.data
             /\ w.file = table'[w.stateid].file
             /\ position'[w.stateid] = Op(w.conn)'.offset
  <2>1. w.conn \in Connections \ {e} /\ pc[w.conn] = "sync"
    BY <1>0, <1>2, QueuedBy
  <2>2. /\ pc'[w.conn] = "sync" /\ Op(w.conn)' = Op(w.conn)
        /\ position'[Op(w.conn).stateid] = position[Op(w.conn).stateid]
        /\ table'[Op(w.conn).stateid] = table[Op(w.conn).stateid]
    BY <1>1, <2>1
  <2>3. /\ w.stable /\ w.stateid = Op(w.conn).stateid /\ w.data = Op(w.conn).data
        /\ w.file = table[w.stateid].file /\ position[w.stateid] = Op(w.conn).offset
    BY <1>0, <1>2 DEF QueuedAsAsked
  <2> QED
    BY <2>1, <2>2, <2>3
<1>3. QueuedAsAsked'
  <2>1. \A q \in Slots : queued'[q] = queued[q]
    OBVIOUS
  <2>2. \A p, q \in Slots :
          queued[p] # NoWrite /\ queued[q] # NoWrite
            /\ queued[p].conn = queued[q].conn => p = q
    BY <1>0 DEF QueuedAsAsked
  <2> QED
    BY <1>2, <2>1, <2>2 DEF QueuedAsAsked
<1>4. AtOffset'
  <2> SUFFICES ASSUME NEW c \in Connections, pc'[c] = "io"
               PROVE  position'[Op(c)'.stateid] = Op(c)'.offset
    BY DEF AtOffset
  <2> QED
    BY <1>0, <1>1 DEF AtOffset
<1> QED
  BY <1>3, <1>4

\* An answer that tells of no stateid, and changes no one else's.
LEMMA AnswerFiles ==
  ASSUME FilesInv, NEW e \in Connections, todo[e] # <<>>,
         NEW status \in Statuses, NEW data \in Told, Finish(e, status, data),
         Op(e).op # "OPEN" \/ status # "Ok",
         pc[e] # "sync" \/ ~InFlight(e),
         UNCHANGED <<known, queued>>,
         \A s \in StateIds : position[s] # Unopened => position'[s] # Unopened,
         \A s \in StateIds : position[s] # Unopened =>
           \/ position'[s] = position[s] /\ table'[s] = table[s]
           \/ Op(e).op \in OnStateIds /\ s = Op(e).stateid
  PROVE  StateidsApart' /\ QueuedAsAsked' /\ AtOffset'
<1>0. OffsetsInv /\ StateidsApart /\ TypeOK
  BY FilesParts DEF OffsetsInv
<1>1. /\ pc'[e] = "next"
      /\ \A c \in Connections \ {e} :
           /\ pc'[c] = pc[c] /\ todo'[c] = todo[c]
           /\ Op(c)' = Op(c) /\ Granted(c)' = Granted(c)
      /\ Granted(e)' = Granted(e)
      /\ AsksOwn(e) => AsksOwn(e)'
  BY <1>0, Granting
<1>2. \A c \in Connections : AsksOwn(c)
  BY <1>0 DEF StateidsApart, AsksOwn
<1>3. \A c \in Connections : AsksOwn(c)' /\ Has(c)' = Has(c)
  BY <1>1, <1>2 DEF AsksOwn, Has
<1>4. \A c \in Connections : Has(c) \subseteq StateIds
  BY <1>0, GrantedTyped DEF Has, TypeOK
<1>5. StateidsApart'
  BY <1>0, <1>3, <1>4, ApartKept DEF StateidsApart
<1> QED
  BY <1>1, <1>5, OthersUndisturbed

\* The compound ends, and its client has what it was told at most.
LEMMA EndFiles ==
  ASSUME FilesInv, NEW e \in Connections, EndCompound(e),
         pc[e] # "sync" \/ ~InFlight(e),
         UNCHANGED <<queued, position, table>>,
         UNCHANGED known \/ known' = [known EXCEPT ![e] = @ \cup Granted(e)]
  PROVE  StateidsApart' /\ QueuedAsAsked' /\ AtOffset'
<1>0. OffsetsInv /\ StateidsApart /\ TypeOK
  BY FilesParts DEF OffsetsInv
<1>1. /\ pc'[e] = "idle" /\ Granted(e)' = {} /\ AsksOwn(e)'
      /\ \A c \in Connections \ {e} :
           /\ pc'[c] = pc[c] /\ todo'[c] = todo[c]
           /\ Op(c)' = Op(c) /\ Granted(c)' = Granted(c)
  BY <1>0, EndGranting
<1>2. /\ known'[e] \subseteq known[e] \cup Granted(e)
      /\ \A c \in Connections \ {e} : known'[c] = known[c]
  BY <1>0 DEF TypeOK
<1>3. \A c \in Connections : Has(c)' \subseteq Has(c)
  BY <1>1, <1>2 DEF Has
<1>4. \A c \in Connections \ {e} : AsksOwn(c)'
  BY <1>0, <1>1, <1>2 DEF StateidsApart, AsksOwn
<1>5. StateidsApart'
  BY <1>0, <1>1, <1>3, <1>4, ApartKept DEF StateidsApart
<1> QED
  BY <1>1, <1>5, OthersUndisturbed

\* A new compound, on stateids that its client was told.
LEMMA ReceiveFiles ==
  ASSUME Private, FilesInv, NEW e \in Connections, Receive(e)
  PROVE  StateidsApart' /\ QueuedAsAsked' /\ AtOffset'
<1>0. OffsetsInv /\ StateidsApart /\ TypeOK
  BY FilesParts DEF OffsetsInv
<1>1. /\ pc[e] = "idle" /\ pc'[e] = "next" /\ AsksOwn(e)'
      /\ \A c \in Connections \ {e} : pc'[c] = pc[c] /\ todo'[c] = todo[c]
      /\ UNCHANGED <<known, results, queued, position, table>>
  BY <1>0 DEF Private, Receive, Goto, TypeOK, AsksOwn, opens, kernel
<1>2. \A c \in Connections \ {e} : Op(c)' = Op(c)
  BY <1>1 DEF Op
<1>3. \A c \in Connections : Has(c)' = Has(c)
  BY <1>1 DEF Has, Granted
<1>4. \A c \in Connections \ {e} : AsksOwn(c)'
  BY <1>0, <1>1 DEF StateidsApart, AsksOwn
<1>5. StateidsApart'
  BY <1>0, <1>1, <1>3, <1>4, ApartKept DEF StateidsApart
<1> QED
  BY <1>1, <1>2, <1>5, OthersUndisturbed

\* A step to another stage of the same operation.
LEMMA StageFiles ==
  ASSUME FilesInv, NEW e \in Connections, NEW stage \in Stage, Goto(e, stage),
         UNCHANGED <<todo, results, known, table>>
  PROVE  /\ pc'[e] = stage /\ \A c \in Connections : Op(c)' = Op(c)
         /\ \A c \in Connections \ {e} : pc'[c] = pc[c]
         /\ (\A s \in StateIds : position[s] # Unopened => position'[s] # Unopened)
              => StateidsApart'
<1>0. OffsetsInv /\ StateidsApart /\ TypeOK
  BY FilesParts DEF OffsetsInv
<1>1. pc'[e] = stage /\ \A c \in Connections \ {e} : pc'[c] = pc[c]
  BY <1>0 DEF Goto, TypeOK
<1>2. \A c \in Connections : Op(c)' = Op(c) /\ Has(c)' = Has(c) /\ AsksOwn(c)'
  BY <1>0 DEF Op, Has, Granted, AsksOwn, StateidsApart
<1>3. \A c \in Connections : Has(c) \subseteq StateIds
  BY <1>0, GrantedTyped DEF Has, TypeOK
<1>4. (\A s \in StateIds : position[s] # Unopened => position'[s] # Unopened)
        => StateidsApart'
  BY <1>0, <1>2, <1>3, ApartKept DEF StateidsApart
<1> QED
  BY <1>1, <1>2, <1>4

\* OPEN that succeeds gives a stateid that no client has had.
LEMMA OpenFiles ==
  ASSUME FilesInv, NEW e \in Connections, Enters(e, {"OPEN"}),
         NEW x \in Fresh, position' = [position EXCEPT ![x] = 0],
         NEW state, table' = [table EXCEPT ![x] = state],
         Finish(e, "Ok", x), UNCHANGED <<known, queued>>
  PROVE  StateidsApart' /\ QueuedAsAsked' /\ AtOffset'
<1>0. OffsetsInv /\ StateidsApart /\ TypeOK /\ Stages
  BY FilesParts DEF OffsetsInv
<1>1. /\ x \in StateIds /\ x \in Told /\ "Ok" \in Statuses /\ position[x] = Unopened
      /\ todo[e] # <<>> /\ Op(e).op = "OPEN" /\ pc[e] = "wait"
  BY <1>0, AtOperation DEF Fresh, Told, Statuses, Enters
<1>2. /\ position'[x] = 0 /\ 0 # Unopened
      /\ \A s \in StateIds \ {x} : position'[s] = position[s] /\ table'[s] = table[s]
  BY <1>0, <1>1 DEF TypeOK, Unopened
<1>3. /\ pc'[e] = "next"
      /\ \A c \in Connections \ {e} :
           /\ pc'[c] = pc[c] /\ todo'[c] = todo[c]
           /\ Op(c)' = Op(c) /\ Granted(c)' = Granted(c)
      /\ Granted(e)' = Granted(e) \cup {x}
      /\ AsksOwn(e) => AsksOwn(e)'
  BY <1>0, <1>1, Granting
<1>4. \A c \in Connections : AsksOwn(c)
  BY <1>0 DEF StateidsApart, AsksOwn
<1>5. \A c \in Connections : AsksOwn(c)'
  BY <1>3, <1>4 DEF AsksOwn
<1>6. /\ Has(e)' = Has(e) \cup {x}
      /\ \A c \in Connections \ {e} : Has(c)' = Has(c)
  BY <1>3 DEF Has
<1>7. \A c \in Connections : Has(c) \subseteq StateIds
  BY <1>0, GrantedTyped DEF Has, TypeOK
<1>8. \A c \in Connections : \A s \in Has(c) : position'[s] # Unopened
  BY <1>0, <1>2, <1>7 DEF StateidsApart
<1>9. StateidsApart'
  BY <1>0, <1>1, <1>2, <1>5, <1>6, <1>8, ApartKept
<1>10. QueuedAsAsked' /\ AtOffset'
  BY <1>1, <1>2, <1>3, OthersUndisturbed
<1> QED
  BY <1>9, <1>10

\* READ or WRITE has sought, and its offset is what it asked for.
LEMMA SeekFiles ==
  ASSUME FilesInv, NEW e \in Connections, Enters(e, {"READ", "WRITE"}),
         Op(e).offset \in Offsets,
         position' = [position EXCEPT ![Op(e).stateid] = Op(e).offset],
         Goto(e, "io"), UNCHANGED <<todo, results, known, table, queued>>
  PROVE  StateidsApart' /\ QueuedAsAsked' /\ AtOffset'
<1>0. OffsetsInv /\ StateidsApart /\ TypeOK /\ Stages
  BY FilesParts DEF OffsetsInv
<1>1. /\ todo[e] # <<>> /\ Op(e).op \in OnStateIds /\ Op(e).stateid \in StateIds
      /\ pc[e] = "wait" /\ Op(e).offset \in Nat
  BY <1>0, AtOperation, UsesOwn, Limits DEF Enters, OnStateIds
<1>2. /\ position'[Op(e).stateid] = Op(e).offset
      /\ \A s \in StateIds : s # Op(e).stateid => position'[s] = position[s]
      /\ \A s \in StateIds : position[s] # Unopened => position'[s] # Unopened
  BY <1>0, <1>1 DEF TypeOK, Unopened
<1>3. /\ pc'[e] = "io" /\ \A c \in Connections : Op(c)' = Op(c)
      /\ \A c \in Connections \ {e} : pc'[c] = pc[c]
      /\ StateidsApart'
  BY <1>2, StageFiles DEF Stage
<1> QED
  BY <1>1, <1>2, <1>3, OthersUndisturbed

\* READ has read, and moved the offset of its own stateid.
LEMMA ReadFiles ==
  ASSUME FilesInv, NEW e \in Connections, Read(e)
  PROVE  StateidsApart' /\ QueuedAsAsked' /\ AtOffset'
<1> PICK x : x = Op(e).stateid
  OBVIOUS
<1>0. OffsetsInv /\ StateidsApart /\ TypeOK /\ Stages /\ IInv
  BY FilesParts DEF OffsetsInv
<1>1. /\ todo[e] # <<>> /\ Op(e).op = "READ" /\ Op(e).op \in OnStateIds /\ pc[e] = "io"
      /\ x \in StateIds /\ position[x] \in Nat /\ table[x] # NoState
  BY <1>0, AtOperation, UsesOwn, PositionsAreNat
  DEF Read, OnStateIds, IInv, BusyStateidStaysOpen
<1>2. PICK status \in Statuses, data \in Told : Finish(e, status, data)
  <2>1. table[x].file \in Files /\ position[x] \in Positions
    BY <1>0, <1>1, PositionsAreNat DEF TypeOK, FileState, Unopened
  <2>2. content[table[x].file][position[x]] \in Told
    BY <1>0, <2>1 DEF TypeOK, Told
  <2> QED
    BY <2>2 DEF Read, Statuses, Told
<1>3. /\ position'[x] \in {position[x], position[x] + 1}
      /\ \A s \in StateIds \ {x} : position'[s] = position[s]
  BY <1>0, <1>1 DEF Read, TypeOK
<1>4. \A s \in StateIds : position[s] # Unopened => position'[s] # Unopened
  BY <1>1, <1>3 DEF Unopened
<1>5. UNCHANGED <<known, table, queued>>
  BY DEF Read, kernel
<1> QED
  BY <1>1, <1>2, <1>3, <1>4, <1>5, AnswerFiles

\* WRITE has queued its block, and waits for it.
LEMMA WriteFiles ==
  ASSUME Private, FilesInv, NEW e \in Connections, Write(e)
  PROVE  StateidsApart' /\ QueuedAsAsked' /\ AtOffset'
<1> PICK x : x = Op(e).stateid
  OBVIOUS
<1> PICK w : w = [conn |-> e, stateid |-> x, file |-> table[x].file,
                  data |-> Op(e).data, stable |-> Op(e).stable]
  OBVIOUS
<1>0. OffsetsInv /\ StateidsApart /\ TypeOK /\ Stages /\ QueuedAsAsked /\ AtOffset
  BY FilesParts DEF OffsetsInv
<1>1. todo[e] # <<>> /\ Op(e) \in Operations /\ Op(e).stable /\ pc[e] = "io"
  BY <1>0, AtOperation DEF Write, Private
<1>2. PICK n \in Slots : queued' = [queued EXCEPT ![n] = w]
  <2>1. FreeSlots \in SUBSET Nat /\ FreeSlots # {}
    BY NfsAssumption DEF FreeSlots, Write
  <2> QED
    BY <2>1, MinOfNat DEF FreeSlots, Write
<1>3. Goto(e, "sync") /\ "sync" \in Stage
      /\ UNCHANGED <<todo, results, known, table, position>>
  BY <1>1 DEF Write, opens, Stage
<1>4. /\ pc'[e] = "sync" /\ \A c \in Connections : Op(c)' = Op(c)
      /\ \A c \in Connections \ {e} : pc'[c] = pc[c]
      /\ StateidsApart'
  BY <1>3, StageFiles
<1>5. queued'[n] = w /\ \A q \in Slots \ {n} : queued'[q] = queued[q]
  BY <1>0, <1>2 DEF TypeOK
<1>6. /\ w.stable /\ w.conn = e /\ w.stateid = Op(e).stateid /\ w.data = Op(e).data
      /\ w.file = table[w.stateid].file /\ position[w.stateid] = Op(e).offset
  BY <1>0, <1>1 DEF AtOffset
<1>7. ASSUME NEW q \in Slots, NEW v, v = queued[q], v # NoWrite
      PROVE  /\ v.conn \in Connections \ {e}
             /\ pc'[v.conn] = "sync" /\ Op(v.conn)' = Op(v.conn)
  <2>1. v.conn \in Connections /\ pc[v.conn] = "sync"
    BY <1>0, <1>7, QueuedBy
  <2> QED
    BY <1>1, <1>4, <2>1
<1>8. QueuedAsAsked'
  <2>1. ASSUME NEW q \in Slots, NEW v, v = queued'[q], v # NoWrite
        PROVE  /\ v.stable /\ pc'[v.conn] = "sync"
               /\ v.stateid = Op(v.conn)'.stateid /\ v.data = Op(v.conn)'.data
               /\ v.file = table'[v.stateid].file
               /\ position'[v.stateid] = Op(v.conn)'.offset
    <3>1. CASE q = n
      BY <1>3, <1>4, <1>5, <1>6, <2>1, <3>1
    <3>2. CASE q # n
      <4>1. v = queued[q]
        BY <1>5, <2>1, <3>2
      <4>2. /\ v.stable /\ v.stateid = Op(v.conn).stateid /\ v.data = Op(v.conn).data
            /\ v.file = table[v.stateid].file /\ position[v.stateid] = Op(v.conn).offset
        BY <1>0, <2>1, <4>1 DEF QueuedAsAsked
      <4> QED
        BY <1>3, <1>7, <2>1, <4>1, <4>2
    <3> QED
      BY <3>1, <3>2
  <2>2. ASSUME NEW p \in Slots, NEW q \in Slots, queued'[p] # NoWrite,
               queued'[q] # NoWrite, queued'[p].conn = queued'[q].conn
        PROVE  p = q
    <3>1. p # n /\ q # n => p = q
      BY <1>0, <1>5, <2>2 DEF QueuedAsAsked
    <3>2. p = n <=> q = n
      BY <1>5, <1>6, <1>7, <2>2
    <3> QED
      BY <3>1, <3>2
  <2> QED
    BY <2>1, <2>2 DEF QueuedAsAsked
<1>9. AtOffset'
  BY <1>0, <1>3, <1>4 DEF AtOffset
<1> QED
  BY <1>4, <1>8, <1>9

\* A queued write is done, at the offset that only its connection uses.
LEMMA PerformFiles ==
  ASSUME FilesInv, NEW n \in Slots, Perform(n)
  PROVE  StateidsApart' /\ QueuedAsAsked' /\ AtOffset'
<1> PICK w : w = queued[n]
  OBVIOUS
<1> PICK e : e = w.conn
  OBVIOUS
<1> PICK x : x = w.stateid
  OBVIOUS
<1>0. /\ OffsetsInv /\ StateidsApart /\ TypeOK /\ Stages /\ IInv
      /\ QueuedAsAsked /\ AtOffset
  BY FilesParts DEF OffsetsInv
<1>1. /\ w # NoWrite /\ w \in QueuedWrite /\ e \in Connections
      /\ pc[e] = "sync" /\ x = Op(e).stateid
  BY <1>0, QueuedBy DEF Perform, QueuedAsAsked
<1>2. /\ todo[e] # <<>> /\ Op(e).op \in OnStateIds
      /\ x \in StateIds /\ position[x] \in Nat
  <2>1. todo[e] # <<>> /\ Op(e).op \in OnStateIds
    BY <1>0, <1>1 DEF Stages, OnStateIds
  <2> QED
    BY <1>0, <1>1, <2>1, UsesOwn, PositionsAreNat
<1>3. UNCHANGED <<known, table, pc, todo, results>>
  BY DEF Perform, locals
<1>4. queued'[n] = NoWrite /\ \A q \in Slots \ {n} : queued'[q] = queued[q]
  BY <1>0 DEF Perform, TypeOK
<1>5. /\ position'[x] \in {position[x], position[x] + 1}
      /\ \A s \in StateIds \ {x} : position'[s] = position[s]
  BY <1>0, <1>2 DEF Perform, TypeOK
<1>6. \A c \in Connections : Op(c)' = Op(c) /\ Has(c)' = Has(c)
  BY <1>3 DEF Op, Has, Granted
<1>7. StateidsApart'
  <2>1. \A c \in Connections : Has(c) \subseteq StateIds
    BY <1>0, GrantedTyped DEF Has, TypeOK
  <2>2. \A c \in Connections : \A s \in Has(c) : position'[s] # Unopened
    BY <1>0, <1>2, <1>5, <2>1 DEF StateidsApart, Unopened
  <2> QED
    BY <1>0, <1>3, <1>6, <2>2 DEF StateidsApart
<1>8. ASSUME NEW c \in Connections \ {e}, pc[c] \in {"io", "sync"}
      PROVE  position'[Op(c).stateid] = position[Op(c).stateid]
  <2>1. Op(c).stateid # x
    BY <1>0, <1>1, <1>2, <1>8, WorkApart
  <2>2. todo[c] # <<>> /\ Op(c).op \in OnStateIds
    BY <1>0, <1>8 DEF Stages, IInv, BusyHasLock, OnStateIds
  <2> QED
    BY <1>0, <1>5, <2>1, <2>2, UsesOwn
<1>9. QueuedAsAsked'
  <2>1. ASSUME NEW q \in Slots, NEW v, v = queued'[q], v # NoWrite
        PROVE  /\ v.stable /\ pc'[v.conn] = "sync"
               /\ v.stateid = Op(v.conn)'.stateid /\ v.data = Op(v.conn)'.data
               /\ v.file = table'[v.stateid].file
               /\ position'[v.stateid] = Op(v.conn)'.offset
    <3>1. q # n /\ v = queued[q]
      BY <1>4, <2>1
    <3>2. /\ v.stable /\ pc[v.conn] = "sync" /\ v.conn \in Connections
          /\ v.stateid = Op(v.conn).stateid /\ v.data = Op(v.conn).data
          /\ v.file = table[v.stateid].file /\ position[v.stateid] = Op(v.conn).offset
      BY <1>0, <2>1, <3>1, QueuedBy DEF QueuedAsAsked
    <3>3. v.conn # e
      BY <1>0, <1>1, <2>1, <3>1 DEF QueuedAsAsked
    <3> QED
      BY <1>3, <1>6, <1>8, <3>2, <3>3
  <2>2. \A p, q \in Slots :
          queued'[p] # NoWrite /\ queued'[q] # NoWrite
            /\ queued'[p].conn = queued'[q].conn => p = q
    BY <1>0, <1>4 DEF QueuedAsAsked
  <2> QED
    BY <2>1, <2>2 DEF QueuedAsAsked
<1>10. AtOffset'
  BY <1>0, <1>1, <1>3, <1>6, <1>8 DEF AtOffset
<1> QED
  BY <1>7, <1>9, <1>10

LEMMA InitFiles == Init => FilesInv
<1> SUFFICES ASSUME Init PROVE FilesInv
  OBVIOUS
<1>1. DOMAIN <<>> = {}
  BY SMT
<1>2. \A c \in Connections : Has(c) = {}
  BY <1>1 DEF Init, Has, Granted, ToSet
<1> QED
  BY <1>1, <1>2, InitOffsets
  DEF Init, FilesInv, StateidsApart, QueuedAsAsked, AtOffset

LEMMA FilesStep ==
  ASSUME Private, FilesInv, [Next]_vars
  PROVE  FilesInv'
<1>0. OffsetsInv /\ OffsetsInv' /\ TypeOK /\ Stages /\ IInv /\ QueuedAsAsked
  BY FilesParts, OffsetsStep DEF OffsetsInv
<1> DEFINE Rest == StateidsApart' /\ QueuedAsAsked' /\ AtOffset'
<1>s. {"Ok", "Error", "BadHandle", "StaleFileHandle", "BadStateid", "IoError"}
        \subseteq Statuses /\ Nothing \in Told
  BY DEF Statuses, Told
<1>1. ASSUME NEW e \in Connections, Receive(e) PROVE Rest
  BY <1>1, ReceiveFiles
<1>2. ASSUME NEW e \in Connections, Reply(e) PROVE Rest
  <2>1. /\ EndCompound(e) /\ pc[e] # "sync" /\ UNCHANGED <<queued, position, table>>
        /\ UNCHANGED known \/ known' = [known EXCEPT ![e] = @ \cup Granted(e)]
    BY <1>2 DEF Reply, opens, kernel
  <2> QED
    BY <2>1, EndFiles
<1>3. ASSUME NEW e \in Connections, GetFh(e) \/ Unsupported(e) PROVE Rest
  <2>1. todo[e] # <<>> /\ Op(e).op # "OPEN" /\ pc[e] # "sync"
    BY <1>3 DEF GetFh, Unsupported, Runs, Over
  <2>2. PICK status \in Statuses : Finish(e, status, Nothing)
    BY <1>3, <1>s DEF GetFh, Unsupported
  <2>3. UNCHANGED <<known, queued, position, table>>
    BY <1>3 DEF GetFh, Unsupported, opens, kernel
  <2> QED
    BY <1>s, <2>1, <2>2, <2>3, AnswerFiles
<1>4. ASSUME NEW e \in Connections, UseHandle(e) PROVE Rest
  <2>1. PICK s \in {"BadHandle", "StaleFileHandle"} :
          Finish(e, s, Nothing) /\ UNCHANGED fh
    BY <1>0, <1>4, HandlesFindNothing DEF IInv
  <2>2. s \in Statuses /\ s # "Ok"
    BY DEF Statuses
  <2>3. todo[e] # <<>> /\ Finish(e, s, Nothing) /\ pc[e] # "sync"
    BY <1>4, <2>1, <2>2 DEF UseHandle, Runs, Over
  <2>4. UNCHANGED <<known, queued, position, table>>
    BY <1>4 DEF UseHandle, opens, kernel
  <2> QED
    BY <1>s, <2>2, <2>3, <2>4, AnswerFiles
<1>5. ASSUME NEW e \in Connections, Await(e) PROVE Rest
  <2>1. /\ Goto(e, "wait") /\ "wait" \in Stage /\ pc[e] # "sync"
        /\ UNCHANGED <<todo, results, known, table, queued, position>>
    BY <1>5 DEF Await, Runs, Stage, opens, kernel
  <2>2. /\ pc'[e] = "wait" /\ \A c \in Connections : Op(c)' = Op(c)
        /\ \A c \in Connections \ {e} : pc'[c] = pc[c]
        /\ StateidsApart'
    BY <2>1, StageFiles
  <2> QED
    BY <2>1, <2>2, OthersUndisturbed
<1>6. ASSUME NEW e \in Connections, Open(e) PROVE Rest
  <2>1. todo[e] # <<>> /\ pc[e] # "sync" /\ UNCHANGED <<known, queued>>
    BY <1>0, <1>6, AtOperation DEF Open, Enters, kernel
  <2>2. CASE \E status \in {"IoError", "Error"} :
               Finish(e, status, Nothing) /\ UNCHANGED opens
    BY <1>s, <2>1, <2>2, AnswerFiles DEF opens
  <2>3. CASE \E s \in Fresh :
               /\ table' = [table EXCEPT ![s] = [file |-> Op(e).file, access |-> Op(e).access]]
               /\ position' = [position EXCEPT ![s] = 0]
               /\ Finish(e, "Ok", s)
    BY <1>6, <2>1, <2>3, OpenFiles DEF Open
  <2> QED
    BY <1>6, <2>2, <2>3 DEF Open
<1>7. ASSUME NEW e \in Connections, Close(e) PROVE Rest
  <2>1. /\ todo[e] # <<>> /\ pc[e] # "sync" /\ UNCHANGED <<known, queued, position>>
        /\ Op(e).op = "CLOSE" /\ Op(e).op \in OnStateIds
    BY <1>0, <1>7, AtOperation DEF Close, Enters, kernel, OnStateIds
  <2>2. PICK status \in {"Ok", "BadStateid"} : Finish(e, status, Nothing)
    BY <1>7 DEF Close
  <2>3. \A s \in StateIds : s = Op(e).stateid \/ table'[s] = table[s]
    BY <1>0, <1>7 DEF Close, TypeOK
  <2> QED
    BY <1>s, <2>1, <2>2, <2>3, AnswerFiles
<1>8. ASSUME NEW e \in Connections, Seek(e) PROVE Rest
  <2>1. /\ todo[e] # <<>> /\ pc[e] # "sync" /\ UNCHANGED <<known, table, queued>>
        /\ Op(e).op # "OPEN"
    BY <1>0, <1>8, AtOperation DEF Seek, Enters, kernel
  <2>2. CASE Finish(e, "BadStateid", Nothing) /\ UNCHANGED position
    BY <1>s, <2>1, <2>2, AnswerFiles
  <2>3. CASE /\ Op(e).offset \in Offsets /\ Goto(e, "io")
             /\ position' = [position EXCEPT ![Op(e).stateid] = Op(e).offset]
             /\ UNCHANGED <<todo, results>>
    BY <1>8, <2>1, <2>3, SeekFiles DEF Seek
  <2>4. CASE Abort(e) /\ UNCHANGED position
    BY <2>1, <2>4, EndFiles DEF Abort
  <2> QED
    BY <1>8, <2>2, <2>3, <2>4 DEF Seek
<1>9. ASSUME NEW e \in Connections, Read(e) PROVE Rest
  BY <1>9, ReadFiles
<1>10. ASSUME NEW e \in Connections, Write(e) PROVE Rest
  BY <1>10, WriteFiles
<1>11. ASSUME NEW e \in Connections, Sync(e) PROVE Rest
  <2>1. /\ todo[e] # <<>> /\ ~InFlight(e) /\ Op(e).op # "OPEN"
        /\ UNCHANGED <<known, table, queued, position>>
    BY <1>0, <1>11, AtOperation DEF Sync, Stages, opens, kernel
  <2>2. CASE Finish(e, "Ok", Nothing)
    BY <1>s, <2>1, <2>2, AnswerFiles
  <2>3. CASE Abort(e)
    BY <2>1, <2>3, EndFiles DEF Abort
  <2> QED
    BY <1>11, <2>2, <2>3 DEF Sync
<1>12. ASSUME NEW n \in Slots, Perform(n) PROVE Rest
  BY <1>12, PerformFiles
<1>13. ASSUME UNCHANGED vars PROVE Rest
  <2>1. UNCHANGED <<table, position, queued, pc, todo, results, known>>
    BY <1>13 DEF vars, opens, kernel, locals
  <2>2. StateidsApart'
    BY <2>1, FilesParts DEF StateidsApart, Has, Granted
  <2>3. QueuedAsAsked'
    BY <2>1, FilesParts DEF QueuedAsAsked, Op
  <2>4. AtOffset'
    BY <2>1, FilesParts DEF AtOffset, Op
  <2> QED
    BY <2>2, <2>3, <2>4
<1>14. ASSUME NEW e \in Connections, Serve(e) PROVE Rest
  BY <1>14, <1>2, <1>3, <1>4, <1>5, <1>6, <1>7, <1>8, <1>9, <1>10, <1>11 DEF Serve
<1>15. Rest
  <2> HIDE DEF Rest
  <2> QED
    BY <1>1, <1>12, <1>13, <1>14 DEF Next
<1> QED
  BY <1>0, <1>15 DEF FilesInv

(***************************************************************************)
(* handle_read and handle_write use a shared offset in two steps, and the  *)
(* pool a third time: with private stateids it is where they sought it.    *)
(***************************************************************************)
THEOREM OffsetsAreKept == ASSUME Private PROVE Spec => []FilesInv
<1>1. FilesInv /\ [Next]_vars => FilesInv'
  BY FilesStep
<1> QED
  BY InitFiles, <1>1, PTL DEF Spec

-----------------------------------------------------------------------------
(***************************************************************************)
(* ImplementsFiles: the answers of NfsFiles are those of Answers, and a    *)
(* WRITE happens when the pool does it.                                    *)
(***************************************************************************)
AllAnswers == [c \in Connections |-> Answers(c)]

\* What one connection's step does to the answers of all.
LEMMA AnswersStep ==
  ASSUME NEW e \in Connections, NEW after, Answers(e)' = after,
         \A c \in Connections \ {e} : Answers(c)' = Answers(c)
  PROVE  AllAnswers' = [AllAnswers EXCEPT ![e] = after]
BY DEF AllAnswers

\* The others' answers stay if they and what they have queued stay.
LEMMA OthersAnswers ==
  ASSUME NEW e \in Connections,
         \A c \in Connections \ {e} :
           /\ pc'[c] = pc[c] /\ results'[c] = results[c] /\ Op(c)' = Op(c)
           /\ InFlight(c)' = InFlight(c)
  PROVE  \A c \in Connections \ {e} : Answers(c)' = Answers(c)
BY DEF Answers

LEMMA FlightKept ==
  ASSUME UNCHANGED queued, NEW c
  PROVE  InFlight(c)' = InFlight(c)
BY DEF InFlight

\* An operation that ends with its answer.
LEMMA AnswerGiven ==
  ASSUME TypeOK, NEW e \in Connections, todo[e] # <<>>, pc[e] # "sync",
         NEW status \in Statuses, NEW data \in Told, Finish(e, status, data),
         Op(e).op = "OPEN" /\ status = "Ok" => data \in StateIds,
         UNCHANGED queued
  PROVE  FileService!Answer(e, Op(e), status, data)
<1> DEFINE r == Result(Op(e), status, data)
<1>1. /\ pc'[e] = "next"
      /\ \A c \in Connections \ {e} :
           pc'[c] = pc[c] /\ results'[c] = results[c] /\ Op(c)' = Op(c)
  BY Granting
<1>2. results'[e] = Append(results[e], r)
  BY DEF Finish, TypeOK
<1>3. Answers(e) = results[e] /\ Answers(e)' = Append(results[e], r)
  BY <1>1, <1>2 DEF Answers
<1>4. \A c \in Connections \ {e} : Answers(c)' = Answers(c)
  BY <1>1, FlightKept, OthersAnswers
<1>5. AllAnswers' = [AllAnswers EXCEPT ![e] = Append(results[e], r)]
  <2> HIDE DEF r
  <2> QED
    BY <1>3, <1>4, AnswersStep
<1>6. AllAnswers' = [AllAnswers EXCEPT ![e] = Append(AllAnswers[e], r)]
  BY <1>3, <1>5 DEF AllAnswers
<1> QED
  BY <1>6 DEF FileService!Answer, AllAnswers, Result

\* The response, or the end of the connection.
LEMMA AnswersEnd ==
  ASSUME TypeOK, NEW e \in Connections, EndCompound(e), UNCHANGED <<queued, content, table>>
  PROVE  FileService!End(e)
<1>1. /\ pc'[e] = "idle" /\ results'[e] = <<>>
      /\ \A c \in Connections \ {e} :
           pc'[c] = pc[c] /\ results'[c] = results[c] /\ Op(c)' = Op(c)
  BY EndGranting
<1>2. Answers(e)' = <<>>
  BY <1>1 DEF Answers
<1>3. \A c \in Connections \ {e} : Answers(c)' = Answers(c)
  BY <1>1, FlightKept, OthersAnswers
<1>4. AllAnswers' = [AllAnswers EXCEPT ![e] = <<>>]
  BY <1>2, <1>3, AnswersStep
<1> QED
  BY <1>4 DEF FileService!End, AllAnswers

\* A step that a client cannot see.
LEMMA Unseen ==
  ASSUME UNCHANGED <<content, table>>, \A c \in Connections : Answers(c)' = Answers(c)
  PROVE  UNCHANGED FileService!vars
BY DEF FileService!vars

\* A step to a stage in which nothing is answered yet.
LEMMA NotYet ==
  ASSUME TypeOK, NEW e \in Connections, NEW stage \in Stage, Goto(e, stage),
         pc[e] # "sync" \/ InFlight(e), stage # "sync" \/ InFlight(e)',
         UNCHANGED <<results, content, table>>,
         \A c \in Connections \ {e} : Op(c)' = Op(c) /\ InFlight(c)' = InFlight(c)
  PROVE  UNCHANGED FileService!vars
<1>1. pc'[e] = stage /\ \A c \in Connections \ {e} : pc'[c] = pc[c]
  BY DEF Goto, TypeOK
<1>2. Answers(e) = results[e] /\ Answers(e)' = results[e]
  BY <1>1 DEF Answers
<1>3. \A c \in Connections \ {e} : Answers(c)' = Answers(c)
  BY <1>1, OthersAnswers
<1> QED
  BY <1>2, <1>3, Unseen

\* The operations on filehandles, and the unsupported ones.
LEMMA NoEffectOnFiles ==
  ASSUME FilesInv, NEW e \in Connections, GetFh(e) \/ Unsupported(e) \/ UseHandle(e)
  PROVE  FileService!NoEffect(e, Op(e))
<1>0. TypeOK /\ IInv
  BY DEF FilesInv, OffsetsInv
<1>1. /\ todo[e] # <<>> /\ pc[e] # "sync"
      /\ Op(e).op \notin {"OPEN", "CLOSE", "READ", "WRITE"}
  BY DEF GetFh, Unsupported, UseHandle, Runs, Over, OnHandles
<1>2. UNCHANGED <<content, table, queued>>
  BY DEF GetFh, Unsupported, UseHandle, opens, kernel
<1>3. PICK status \in {"Ok", "BadHandle", "StaleFileHandle", "Error"} :
        Finish(e, status, Nothing)
  <2>1. CASE GetFh(e) \/ Unsupported(e)
    BY <2>1 DEF GetFh, Unsupported
  <2>2. CASE UseHandle(e)
    BY <1>0, <2>2, HandlesFindNothing DEF IInv
  <2> QED
    BY <2>1, <2>2
<1>4. status \in Statuses /\ Nothing \in Told
  BY DEF Statuses, Told
<1>5. FileService!Answer(e, Op(e), status, Nothing)
  BY <1>0, <1>1, <1>2, <1>3, <1>4, AnswerGiven
<1> QED
  BY <1>1, <1>2, <1>5 DEF FileService!NoEffect

LEMMA OpenOnFiles ==
  ASSUME FilesInv, NEW e \in Connections, Open(e)
  PROVE  FileService!Open(e, Op(e)) \/ FileService!OpenFails(e, Op(e))
<1>0. TypeOK /\ Stages /\ InUseOpened
  BY FilesParts, OffsetsParts
<1>1. /\ todo[e] # <<>> /\ pc[e] # "sync" /\ Op(e).op = "OPEN"
      /\ UNCHANGED <<content, queued>>
      /\ {"Ok", "Error", "IoError"} \subseteq Statuses /\ Nothing \in Told
  BY <1>0, AtOperation DEF Open, Enters, kernel, Statuses, Told
<1>2. CASE \E status \in {"IoError", "Error"} :
             Finish(e, status, Nothing) /\ UNCHANGED opens
  <2>1. PICK status \in {"IoError", "Error"} :
          Finish(e, status, Nothing) /\ UNCHANGED table
    BY <1>2 DEF opens
  <2>2. FileService!Answer(e, Op(e), status, Nothing)
    BY <1>0, <1>1, <2>1, AnswerGiven
  <2> QED
    BY <1>1, <2>1, <2>2 DEF FileService!OpenFails
<1>3. CASE /\ Openable(Op(e))
           /\ \E s \in Fresh :
                /\ table' = [table EXCEPT ![s] =
                     [file |-> Op(e).file, access |-> Op(e).access]]
                /\ Finish(e, "Ok", s)
  <2>1. PICK s \in Fresh :
          /\ table' = [table EXCEPT ![s] =
               [file |-> Op(e).file, access |-> Op(e).access]]
          /\ Finish(e, "Ok", s)
    BY <1>3
  <2>2. s \in StateIds /\ s \in Told /\ table[s] = NoState
    BY <1>0 DEF Fresh, Told, InUseOpened
  <2>3. FileService!Answer(e, Op(e), "Ok", s)
    BY <1>0, <1>1, <2>1, <2>2, AnswerGiven
  <2> QED
    BY <1>1, <1>3, <2>1, <2>2, <2>3 DEF FileService!Open, Openable
<1> QED
  BY <1>2, <1>3 DEF Open

LEMMA CloseOnFiles ==
  ASSUME FilesInv, NEW e \in Connections, Close(e)
  PROVE  FileService!Close(e, Op(e)) \/ FileService!BadStateid(e, Op(e))
<1>0. TypeOK /\ Stages
  BY DEF FilesInv, OffsetsInv
<1>1. /\ todo[e] # <<>> /\ pc[e] # "sync" /\ Op(e).op = "CLOSE"
      /\ UNCHANGED <<content, queued>>
      /\ {"Ok", "BadStateid"} \subseteq Statuses /\ Nothing \in Told
  BY <1>0, AtOperation DEF Close, Enters, kernel, Statuses, Told
<1>2. CASE table[Op(e).stateid] # NoState
  <2>1. FileService!Answer(e, Op(e), "Ok", Nothing)
    BY <1>0, <1>1, <1>2, AnswerGiven DEF Close
  <2> QED
    BY <1>1, <1>2, <2>1 DEF Close, FileService!Close
<1>3. CASE table[Op(e).stateid] = NoState
  <2>1. FileService!Answer(e, Op(e), "BadStateid", Nothing)
    BY <1>0, <1>1, <1>3, AnswerGiven DEF Close
  <2>2. UNCHANGED table
    BY <1>0, <1>3 DEF Close, TypeOK
  <2> QED
    BY <1>1, <1>3, <2>1, <2>2 DEF FileService!BadStateid
<1> QED
  BY <1>2, <1>3

\* Nothing happens to files before READ reads and the pool writes.
LEMMA SeekOnFiles ==
  ASSUME FilesInv, NEW e \in Connections, Seek(e)
  PROVE  \/ FileService!BadStateid(e, Op(e)) \/ FileService!End(e)
         \/ UNCHANGED FileService!vars
<1>0. TypeOK /\ Stages
  BY DEF FilesInv, OffsetsInv
<1>1. /\ todo[e] # <<>> /\ pc[e] # "sync" /\ Op(e).op \in {"READ", "WRITE"}
      /\ UNCHANGED <<content, table, queued>>
      /\ "BadStateid" \in Statuses /\ Nothing \in Told
  BY <1>0, AtOperation DEF Seek, Enters, kernel, Statuses, Told
<1>2. CASE table[Op(e).stateid] = NoState /\ Finish(e, "BadStateid", Nothing)
  <2>1. FileService!Answer(e, Op(e), "BadStateid", Nothing)
    BY <1>0, <1>1, <1>2, AnswerGiven
  <2> QED
    BY <1>1, <1>2, <2>1 DEF FileService!BadStateid
<1>3. CASE Goto(e, "io") /\ UNCHANGED <<todo, results>>
  <2>1. \A c \in Connections : Op(c)' = Op(c) /\ InFlight(c)' = InFlight(c)
    BY <1>1, <1>3, FlightKept DEF Op
  <2> QED
    BY <1>0, <1>1, <1>3, <2>1, NotYet DEF Stage
<1>4. CASE Abort(e)
  BY <1>0, <1>1, <1>4, AnswersEnd DEF Abort
<1> QED
  BY <1>2, <1>3, <1>4 DEF Seek

\* READ reads at the offset it named, though that of the description counts.
LEMMA ReadOnFiles ==
  ASSUME FilesInv, NEW e \in Connections, Read(e)
  PROVE  FileService!Read(e, Op(e))
<1> PICK x : x = Op(e).stateid
  OBVIOUS
<1>0. OffsetsInv /\ StateidsApart /\ TypeOK /\ Stages /\ IInv /\ AtOffset
  BY FilesParts DEF OffsetsInv
<1>1. /\ todo[e] # <<>> /\ Op(e).op = "READ" /\ pc[e] = "io" /\ pc[e] # "sync"
      /\ UNCHANGED <<content, table, queued>>
      /\ table[x] # NoState /\ position[x] = Op(e).offset
      /\ {"Ok", "IoError"} \subseteq Statuses /\ Nothing \in Told
  BY <1>0, AtOperation
  DEF Read, kernel, Statuses, Told, IInv, BusyStateidStaysOpen, AtOffset
<1>2. x \in StateIds /\ position[x] \in Positions
  BY <1>0, <1>1, UsesOwn, PositionsAreNat DEF OnStateIds
<1>3. content[table[x].file][position[x]] \in Told
  BY <1>0, <1>1, <1>2 DEF TypeOK, FileState, Told
<1>4. CASE "read" \in table[x].access /\ Finish(e, "Ok", content[table[x].file][position[x]])
  <2>1. FileService!Answer(e, Op(e), "Ok", content[table[x].file][position[x]])
    BY <1>0, <1>1, <1>3, <1>4, AnswerGiven
  <2> QED
    BY <1>1, <1>2, <1>4, <2>1 DEF FileService!Read
<1>5. CASE /\ "read" \notin table[x].access \/ "read" \in Faults
           /\ Finish(e, "IoError", Nothing)
  <2>1. FileService!Answer(e, Op(e), "IoError", Nothing)
    BY <1>0, <1>1, <1>5, AnswerGiven
  <2> QED
    BY <1>1, <1>2, <1>5, <2>1 DEF FileService!Read
<1> QED
  BY <1>4, <1>5 DEF Read

\* WRITE only queues its block: that is not yet an answer.
LEMMA WriteOnFiles ==
  ASSUME Private, FilesInv, NEW e \in Connections, Write(e)
  PROVE  UNCHANGED FileService!vars
<1> PICK w : w = [conn |-> e, stateid |-> Op(e).stateid,
                  file |-> table[Op(e).stateid].file,
                  data |-> Op(e).data, stable |-> Op(e).stable]
  OBVIOUS
<1>0. TypeOK /\ Stages
  BY DEF FilesInv, OffsetsInv
<1>1. /\ todo[e] # <<>> /\ Op(e) \in Operations /\ Op(e).stable /\ pc[e] = "io"
      /\ Goto(e, "sync")
      /\ UNCHANGED <<todo, results, table, content>>
  <2>1. todo[e] # <<>> /\ Op(e) \in Operations /\ Op(e).stable
    BY <1>0, AtOperation DEF Write, Private
  <2> QED
    BY <2>1 DEF Write, opens
<1>2. PICK n \in Slots : queued[n] = NoWrite /\ queued' = [queued EXCEPT ![n] = w]
  <2>1. FreeSlots \in SUBSET Nat /\ FreeSlots # {}
    BY NfsAssumption DEF FreeSlots, Write
  <2> QED
    BY <2>1, MinOfNat DEF FreeSlots, Write
<1>3. queued'[n] = w /\ \A q \in Slots \ {n} : queued'[q] = queued[q]
  BY <1>0, <1>2 DEF TypeOK
<1>4. w # NoWrite
  <2>1. \A s \in StateIds : table[s] # NoState => table[s].file \in Files
    BY <1>0 DEF TypeOK, FileState
  <2>2. Op(e).stateid \in StateIds /\ table[Op(e).stateid] # NoState /\ Op(e).op = "WRITE"
    BY <1>1, OperationsAssumption
    DEF Write, FilesInv, OffsetsInv, IInv, BusyStateidStaysOpen, OnStateIds
  <2>3. w \in QueuedWrite
    BY <1>1, <2>1, <2>2, OperationsAssumption DEF QueuedWrite
  <2> QED
    BY <2>3, NfsAssumption
<1>5. InFlight(e)'
  BY <1>1, <1>3, <1>4 DEF InFlight
<1>6. \A c \in Connections \ {e} : Op(c)' = Op(c) /\ InFlight(c)' = InFlight(c)
  <2>1. \A c \in Connections : Op(c)' = Op(c)
    BY <1>1 DEF Op
  <2> SUFFICES ASSUME NEW c \in Connections \ {e} PROVE InFlight(c)' = InFlight(c)
    BY <2>1
  <2>2. w.conn # c
    OBVIOUS
  <2> QED
    BY <1>2, <1>3, <2>2 DEF InFlight
<1> QED
  BY <1>0, <1>1, <1>5, <1>6, NotYet DEF Stage

\* sync_all has waited: the write that is answered has been done before.
LEMMA SyncOnFiles ==
  ASSUME FilesInv, NEW e \in Connections, Sync(e)
  PROVE  FileService!End(e) \/ UNCHANGED FileService!vars
<1>0. TypeOK /\ Stages
  BY DEF FilesInv, OffsetsInv
<1>1. /\ todo[e] # <<>> /\ pc[e] = "sync" /\ ~InFlight(e)
      /\ Op(e).op # "OPEN" /\ "Ok" \in Statuses /\ Nothing \in Told
      /\ UNCHANGED <<content, table, queued>>
  BY <1>0, AtOperation DEF Sync, Stages, opens, kernel, Statuses, Told
<1>2. CASE Finish(e, "Ok", Nothing)
  <2>1. /\ pc'[e] = "next"
        /\ \A c \in Connections \ {e} :
             pc'[c] = pc[c] /\ results'[c] = results[c] /\ Op(c)' = Op(c)
    BY <1>0, <1>1, <1>2, Granting
  <2>2. results'[e] = Append(results[e], Result(Op(e), "Ok", Nothing))
    BY <1>0, <1>2 DEF Finish, TypeOK
  <2>3. Answers(e)' = Answers(e)
    BY <1>1, <2>1, <2>2 DEF Answers
  <2>4. \A c \in Connections \ {e} : Answers(c)' = Answers(c)
    BY <1>1, <2>1, FlightKept, OthersAnswers
  <2> QED
    BY <1>1, <2>3, <2>4, Unseen
<1>3. CASE Abort(e)
  BY <1>0, <1>1, <1>3, AnswersEnd DEF Abort
<1> QED
  BY <1>2, <1>3 DEF Sync

\* The pool does a write: where the WRITE asked, and that is its answer.
LEMMA PerformOnFiles ==
  ASSUME FilesInv, NEW n \in Slots, Perform(n)
  PROVE  \E e \in Connections : Op(e) \in Operations /\ FileService!Write(e, Op(e))
<1> PICK w : w = queued[n]
  OBVIOUS
<1> PICK e : e = w.conn
  OBVIOUS
<1> PICK x : x = w.stateid
  OBVIOUS
<1>0. OffsetsInv /\ StateidsApart /\ TypeOK /\ Stages /\ IInv /\ QueuedAsAsked
  BY FilesParts DEF OffsetsInv
<1>1. /\ w # NoWrite /\ w \in QueuedWrite /\ w.stable
      /\ e \in Connections /\ pc[e] = "sync" /\ InFlight(e)
      /\ x = Op(e).stateid /\ w.data = Op(e).data /\ w.file = table[x].file
      /\ position[x] = Op(e).offset
  BY <1>0, QueuedBy DEF Perform, QueuedAsAsked
<1>2. /\ todo[e] # <<>> /\ Op(e) \in Operations /\ Op(e).op = "WRITE"
      /\ table[x] # NoState /\ x \in StateIds /\ position[x] \in Positions
  <2>1. todo[e] # <<>> /\ Op(e) \in Operations /\ Op(e).op = "WRITE" /\ table[x] # NoState
    BY <1>0, <1>1, AtOperation DEF Stages, IInv, BusyStateidStaysOpen
  <2> QED
    BY <1>0, <1>1, <2>1, UsesOwn, PositionsAreNat DEF OnStateIds
<1>3. UNCHANGED <<table, pc, todo, results>>
  BY DEF Perform, locals
<1>4. queued'[n] = NoWrite /\ \A q \in Slots \ {n} : queued'[q] = queued[q]
  BY <1>0 DEF Perform, TypeOK
<1>5. \A c \in Connections : Op(c)' = Op(c)
  BY <1>3 DEF Op
<1>6. ~InFlight(e)'
  <2> SUFFICES ASSUME NEW q \in Slots, queued'[q] # NoWrite, queued'[q].conn = e
               PROVE  FALSE
    BY DEF InFlight
  <2>1. q # n /\ queued[q] # NoWrite /\ queued[q].conn = e
    BY <1>4
  <2> QED
    BY <1>0, <1>1, <2>1 DEF QueuedAsAsked
<1>7. \A c \in Connections \ {e} : InFlight(c)' = InFlight(c)
  <2> SUFFICES ASSUME NEW c \in Connections \ {e} PROVE InFlight(c)' = InFlight(c)
    OBVIOUS
  <2>1. queued[n].conn # c
    OBVIOUS
  <2> QED
    BY <1>4, <2>1 DEF InFlight
<1>8. /\ Answers(e) = results[e]
      /\ Answers(e)' = Append(results[e], Result(Op(e), "Ok", Nothing))
  BY <1>1, <1>3, <1>5, <1>6 DEF Answers
<1>9. \A c \in Connections \ {e} : Answers(c)' = Answers(c)
  <2>1. \A c \in Connections : pc'[c] = pc[c] /\ results'[c] = results[c]
    BY <1>3
  <2>2. \A c \in Connections \ {e} :
          /\ pc'[c] = pc[c] /\ results'[c] = results[c] /\ Op(c)' = Op(c)
          /\ InFlight(c)' = InFlight(c)
    BY <1>5, <1>7, <2>1
  <2> QED
    BY <1>1, <2>2, OthersAnswers
<1>10. AllAnswers' =
         [AllAnswers EXCEPT ![e] = Append(AllAnswers[e], Result(Op(e), "Ok", Nothing))]
  <2> PICK r : r = Result(Op(e), "Ok", Nothing)
    OBVIOUS
  <2>1. AllAnswers' = [AllAnswers EXCEPT ![e] = Append(results[e], r)]
    BY <1>1, <1>8, <1>9, AnswersStep
  <2> QED
    BY <1>1, <1>8, <2>1 DEF AllAnswers
<1>11. FileService!Answer(e, Op(e), "Ok", Nothing)
  BY <1>10 DEF FileService!Answer, AllAnswers, Result
<1>12. \/ content' = [content EXCEPT ![table[x].file][Op(e).offset] = Op(e).data]
       \/ "write" \in Faults /\ UNCHANGED content
  <2>1. \/ content' = [content EXCEPT ![w.file][position[x]] = w.data]
        \/ "write" \in Faults /\ UNCHANGED content
    BY DEF Perform
  <2> QED
    BY <1>1, <2>1
<1>13. FileService!Write(e, Op(e))
  BY <1>1, <1>2, <1>3, <1>11, <1>12 DEF FileService!Write
<1> QED
  BY <1>1, <1>2, <1>13

LEMMA FilesMapped ==
  ASSUME Private, FilesInv, [Next]_vars
  PROVE  [FileService!Next]_FileService!vars
<1>0. TypeOK /\ Stages
  BY DEF FilesInv, OffsetsInv
<1> DEFINE Mapped == FileService!Next \/ UNCHANGED FileService!vars
<1>1. ASSUME NEW e \in Connections, Receive(e) PROVE Mapped
  <2>1. /\ Goto(e, "next") /\ pc[e] # "sync"
        /\ UNCHANGED <<results, content, table, queued>>
    BY <1>1 DEF Receive, opens, kernel
  <2>2. \A c \in Connections \ {e} : Op(c)' = Op(c)
    BY <1>0, <1>1 DEF Receive, Op, TypeOK
  <2> QED
    BY <1>0, <2>1, <2>2, FlightKept, NotYet DEF Stage
<1>2. ASSUME NEW e \in Connections, Reply(e) PROVE Mapped
  BY <1>0, <1>2, AnswersEnd DEF Reply, opens, kernel, FileService!Next
<1>3. ASSUME NEW e \in Connections, GetFh(e) \/ Unsupported(e) \/ UseHandle(e)
      PROVE  Mapped
  <2>1. Op(e) \in Operations
    BY <1>0, <1>3, AtOperation DEF GetFh, Unsupported, UseHandle
  <2> QED
    BY <1>3, <2>1, NoEffectOnFiles DEF FileService!Next
<1>4. ASSUME NEW e \in Connections, Await(e) PROVE Mapped
  <2>1. /\ Goto(e, "wait") /\ pc[e] # "sync"
        /\ UNCHANGED <<todo, results, content, table, queued>>
    BY <1>4 DEF Await, Runs, opens, kernel
  <2>2. \A c \in Connections : Op(c)' = Op(c)
    BY <2>1 DEF Op
  <2> QED
    BY <1>0, <2>1, <2>2, FlightKept, NotYet DEF Stage
<1>5. ASSUME NEW e \in Connections, Open(e) PROVE Mapped
  <2>1. Op(e) \in Operations
    BY <1>0, <1>5, AtOperation DEF Open, Enters
  <2> QED
    BY <1>5, <2>1, OpenOnFiles DEF FileService!Next
<1>6. ASSUME NEW e \in Connections, Close(e) PROVE Mapped
  <2>1. Op(e) \in Operations
    BY <1>0, <1>6, AtOperation DEF Close, Enters
  <2> QED
    BY <1>6, <2>1, CloseOnFiles DEF FileService!Next
<1>7. ASSUME NEW e \in Connections, Seek(e) PROVE Mapped
  <2>1. Op(e) \in Operations
    BY <1>0, <1>7, AtOperation DEF Seek, Enters
  <2> QED
    BY <1>7, <2>1, SeekOnFiles DEF FileService!Next
<1>8. ASSUME NEW e \in Connections, Read(e) PROVE Mapped
  <2>1. Op(e) \in Operations
    BY <1>0, <1>8, AtOperation DEF Read
  <2> QED
    BY <1>8, <2>1, ReadOnFiles DEF FileService!Next
<1>9. ASSUME NEW e \in Connections, Write(e) PROVE Mapped
  BY <1>9, WriteOnFiles
<1>10. ASSUME NEW e \in Connections, Sync(e) PROVE Mapped
  BY <1>10, SyncOnFiles DEF FileService!Next
<1>11. ASSUME NEW n \in Slots, Perform(n) PROVE Mapped
  BY <1>11, PerformOnFiles DEF FileService!Next
<1>12. ASSUME UNCHANGED vars PROVE Mapped
  <2>1. UNCHANGED <<content, table, pc, todo, results, queued>>
    BY <1>12 DEF vars, opens, kernel, locals
  <2>2. \A c \in Connections : Answers(c)' = Answers(c)
    BY <2>1 DEF Answers, InFlight, Op
  <2> QED
    BY <2>1, <2>2, Unseen
<1>13. ASSUME NEW e \in Connections, Serve(e) PROVE Mapped
  <2> HIDE DEF Mapped
  <2> QED
    BY <1>13, <1>2, <1>3, <1>4, <1>5, <1>6, <1>7, <1>8, <1>9, <1>10 DEF Serve
<1>14. Mapped
  <2> HIDE DEF Mapped
  <2> QED
    BY <1>1, <1>11, <1>12, <1>13 DEF Next
<1> QED
  BY <1>14

(***************************************************************************)
(* Clients that keep to their own stateids and ask for stable writes see   *)
(* the files of NfsFiles, for every number of connections, stateids and    *)
(* slots and every set of requests and of faults.                          *)
(***************************************************************************)
THEOREM FilesAreImplemented == ASSUME Private PROVE Spec => ImplementsFiles
<1>1. Init => FileService!Init
  BY DEF Init, FileService!Init, Answers
<1>2. FilesInv /\ [Next]_vars => [FileService!Next]_FileService!vars
  BY FilesMapped
<1> QED
  BY OffsetsAreKept, <1>1, <1>2, PTL DEF Spec, ImplementsFiles, FileService!Spec
=============================================================================
