----------------------- MODULE DaemonLifecycleProofs -----------------------
(***************************************************************************)
(* Proofs about DaemonLifecycle, for any number of starts.                 *)
(***************************************************************************)
EXTENDS DaemonLifecycle, TLAPS

\* A step of a process changes the pc of that process only.
LEMMA OnePc ==
  ASSUME TypeOK, NEW p \in Processes, NEW s, Goto(p, s)
  PROVE  /\ pc'[p] = s
         /\ \A q \in Processes \ {p} : pc'[q] = pc[q]
  BY DEF TypeOK, Goto

\* When no process is started a lone daemon stays alone.
LEMMA LoneStays ==
  ASSUME IInv, Alive' \subseteq Alive, met' = met,
         NEW q \in (Alive \cap Daemons)' \ met'
  PROVE  /\ q \in (Alive \cap Daemons) \ met
         /\ (Alive \cap Daemons)' = {q}
         /\ q \in Locked \/ pc[q] = "lock" => path = fd[q]
<1>1. q \in (Alive \cap Daemons) \ met
  BY DEF Daemons
<1>2. Alive \cap Daemons = {q} /\ (q \in Locked \/ pc[q] = "lock" => path = fd[q])
  BY <1>1 DEF IInv, LoneHasPath
<1> QED
  BY <1>1, <1>2 DEF Daemons

\* A start that has no file open yet and touches no file keeps the invariant.
LEMMA StartKeeps ==
  ASSUME IInv, LifecycleAssumption, NEW p \in Processes,
         Launch(p) \/ Check(p) \/ Remove(p)
  PROVE  IInv'
<1>0. TypeOK
  BY DEF IInv
<1>1. PICK s : Goto(p, s) /\ s \in {"check", "bind", "open", "remove", "exited"}
  BY DEF Launch, Check, Remove, GotoOrExit
<1>2. pc'[p] = s /\ \A q \in Processes \ {p} : pc'[q] = pc[q]
  BY <1>0, <1>1, OnePc
<1>3. /\ UNCHANGED <<fd, content>> /\ met \subseteq met' /\ met' \subseteq Daemons
      /\ path' \in {path, NoFile} /\ (path' # path => Remove(p))
  BY <1>0 DEF Launch, Check, Remove, TypeOK, Daemons, Alive
<1>4. /\ p \in Daemons => s # "bind"
      /\ p \in Foreground => pc[p] = "new" /\ s = "bind"
  BY <1>0, <1>1, <1>2, LifecycleAssumption
  DEF Launch, Check, Remove, GotoOrExit, Goto, TypeOK, Daemons, Ended, LifecycleAssumption
<1>5. TypeOK'
  BY <1>0, <1>1, <1>2, <1>3, <1>4, LifecycleAssumption
  DEF TypeOK, Goto, Ended, Daemons, LifecycleAssumption
<1>6. Locked' = Locked
  BY <1>1, <1>2, <1>4 DEF Locked, Daemons, Launch, Check, Remove
<1>7. LoneHasPath'
  <2> SUFFICES ASSUME NEW q \in (Alive \cap Daemons)' \ met'
               PROVE  /\ (Alive \cap Daemons)' = {q}
                      /\ q \in Locked' \/ pc'[q] = "lock" => path' = fd'[q]
    BY DEF LoneHasPath
  <2>1. CASE Launch(p)
    BY <1>0, <1>1, <1>2, <1>3, <1>4, <1>6, <2>1
    DEF Launch, IInv, LoneHasPath, Alive, Daemons, Ended, Locked
  <2>2. CASE Check(p) \/ Remove(p)
    <3>1. /\ Alive' \subseteq Alive /\ p \in Alive \cap Daemons /\ met' = met
      BY <1>2, <1>3, <1>4, <2>2, LifecycleAssumption
      DEF Check, Remove, Alive, Daemons, Ended, LifecycleAssumption
    <3>2. /\ q \in (Alive \cap Daemons) \ met /\ (Alive \cap Daemons)' = {q}
          /\ Alive \cap Daemons = {q}
      BY <3>1, LoneStays DEF IInv, LoneHasPath
    <3>3. q = p
      BY <3>1, <3>2
    <3> QED
      BY <1>1, <1>2, <1>6, <2>2, <3>2, <3>3 DEF Check, Remove, Locked
  <2> QED
    BY <2>1, <2>2
<1> QED
  BY <1>1, <1>2, <1>3, <1>5, <1>6, <1>7 DEF IInv, Daemons, Locked, Launch, Check, Remove

\* Opening, locking and writing the pid file keep it.
LEMMA FileKeeps ==
  ASSUME IInv, LifecycleAssumption, NEW p \in Processes,
         Open(p) \/ Lock(p) \/ Chown(p) \/ Write(p)
  PROVE  IInv'
<1>0. TypeOK
  BY DEF IInv
<1>1. PICK s : Goto(p, s) /\ s \in {"lock", "chown", "write", "bind", "exited"}
  BY DEF Open, Lock, Chown, Write, GotoOrExit
<1>2. pc'[p] = s /\ \A q \in Processes \ {p} : pc'[q] = pc[q]
  BY <1>0, <1>1, OnePc
<1>3. p \in Daemons /\ p \in Alive /\ Alive' \subseteq Alive /\ met' = met
  BY <1>0, <1>2 DEF Open, Lock, Chown, Write, TypeOK, Daemons, Alive, Ended
<1>4. TypeOK'
  BY <1>0, <1>1, <1>2, <1>3 DEF Open, Lock, Chown, Write, TypeOK, Goto, Ended, Daemons
<1>5. CASE Open(p)
  <2>1. /\ path' \in Processes /\ fd' = [fd EXCEPT ![p] = path'] /\ content' = content
        /\ pc'[p] = "lock" /\ p \notin Locked /\ Locked' = Locked
    BY <1>0, <1>2, <1>5, OnePc, LifecycleAssumption
    DEF Open, TypeOK, Locked, Daemons, LifecycleAssumption
  <2>2. fd'[p] = path' /\ \A q \in Processes \ {p} : fd'[q] = fd[q]
    BY <1>0, <2>1 DEF TypeOK
  <2>3. LoneHasPath'
    <3> SUFFICES ASSUME NEW q \in (Alive \cap Daemons)' \ met'
                 PROVE  (Alive \cap Daemons)' = {q} /\ path' = fd'[q]
      BY DEF LoneHasPath
    <3>1. (Alive \cap Daemons)' = {q} /\ (Alive \cap Daemons) = {q}
      BY <1>3, LoneStays DEF IInv, LoneHasPath
    <3> QED
      BY <1>3, <2>2, <3>1
  <2> QED
    BY <1>2, <1>4, <2>1, <2>2, <2>3, LifecycleAssumption
    DEF IInv, Daemons, Locked, LifecycleAssumption
<1>6. CASE Lock(p) \/ Chown(p)
  <2>1. UNCHANGED <<path, fd, content>>
    BY <1>6 DEF Lock, Chown
  <2>2. \A q \in Locked' : q \in Locked \/ (q = p /\ Lock(p) /\ Holders(fd[p]) = {})
    <3>1. Lock(p) /\ s = "chown" => Holders(fd[p]) = {}
      BY <1>0, <1>2, <1>6, OnePc DEF Lock, GotoOrExit, Goto, TypeOK
    <3>2. \A q \in Locked' : q # p => q \in Locked
      BY <1>2 DEF Locked, Daemons
    <3>3. Chown(p) => p \in Locked
      BY <1>3 DEF Locked, Chown
    <3>4. Lock(p) /\ p \in Locked' => s = "chown"
      BY <1>0, <1>1, <1>2, OnePc DEF Locked, Lock, GotoOrExit, Goto, TypeOK
    <3> QED
      BY <1>6, <3>1, <3>2, <3>3, <3>4
  <2>3. \A q \in Locked' : (pc'[q] \in {"bind", "serve"}) => q \in Locked /\ pc'[q] = pc[q]
    BY <1>0, <1>2, <1>6 DEF Locked, Lock, Chown, GotoOrExit, Goto, TypeOK, Daemons
  <2>4. LoneHasPath'
    <3> SUFFICES ASSUME NEW q \in (Alive \cap Daemons)' \ met'
                 PROVE  /\ (Alive \cap Daemons)' = {q}
                        /\ q \in Locked' \/ pc'[q] = "lock" => path = fd[q]
      BY <2>1 DEF LoneHasPath
    <3>1. /\ (Alive \cap Daemons)' = {q} /\ (Alive \cap Daemons) = {q}
          /\ q \in Locked \/ pc[q] = "lock" => path = fd[q]
      BY <1>3, LoneStays DEF IInv, LoneHasPath
    <3> QED
      BY <1>3, <1>6, <3>1 DEF Lock, Chown, Locked, Daemons
  <2>5. \A q, r \in Locked' : fd[q] = fd[r] => q = r
    BY <2>2 DEF IInv, Holders
  <2>6. \A q \in Daemons : q \in Locked' \/ pc'[q] = "lock" => fd[q] # NoFile
    <3>1. \A q \in Daemons : pc'[q] = "lock" => q # p /\ pc[q] = "lock"
      <4>1. s # "lock"
        BY <1>0, <1>2, <1>6, OnePc DEF Lock, Chown, GotoOrExit, Goto, TypeOK
      <4> QED
        BY <1>2, <4>1 DEF Daemons
    <3>2. pc[p] = "lock" \/ p \in Locked
      BY <1>3, <1>6 DEF Lock, Chown, Locked
    <3> QED
      BY <1>3, <2>2, <3>1, <3>2 DEF IInv
  <2> QED
    BY <1>4, <2>1, <2>3, <2>4, <2>5, <2>6 DEF IInv
<1>7. CASE Write(p)
  <2>1. /\ p \in Locked /\ Locked' = Locked /\ UNCHANGED <<path, fd>>
        /\ content' = [content EXCEPT ![fd[p]] = p] /\ pc'[p] = "bind"
    BY <1>0, <1>2, <1>3, <1>7, OnePc DEF Write, Locked, Daemons
  <2>2. fd[p] \in Processes
    BY <1>0, <1>3, <2>1 DEF IInv, TypeOK
  <2>3. content'[fd[p]] = p /\ \A f \in Processes \ {fd[p]} : content'[f] = content[f]
    BY <1>0, <2>1, <2>2 DEF TypeOK
  <2>4. \A q \in Locked : fd[q] \in Processes /\ (q # p => fd[q] # fd[p])
    BY <1>0, <2>1 DEF IInv, TypeOK, Locked, Daemons
  <2>5. LoneHasPath'
    BY <1>2, <1>3, <2>1 DEF IInv, LoneHasPath, Locked
  <2> QED
    BY <1>2, <1>4, <2>1, <2>3, <2>4, <2>5 DEF IInv, Locked, Daemons
<1> QED
  BY <1>5, <1>6, <1>7

\* Binding and ending keep it.
LEMMA ServeKeeps ==
  ASSUME IInv, LifecycleAssumption, NEW p \in Processes,
         Bind(p) \/ Stop(p) \/ Kill(p)
  PROVE  IInv'
<1>0. TypeOK
  BY DEF IInv
<1>1. PICK s : Goto(p, s) /\ s \in {"serve", "exited", "stopped", "killed"}
  BY DEF Bind, Stop, Kill, GotoOrExit
<1>2. pc'[p] = s /\ \A q \in Processes \ {p} : pc'[q] = pc[q]
  BY <1>0, <1>1, OnePc
<1>3. /\ p \in Alive /\ Alive' \subseteq Alive /\ UNCHANGED <<path, fd, content, met>>
      /\ s = "serve" => pc[p] = "bind"
  BY <1>0, <1>1, <1>2 DEF Bind, Stop, Kill, Alive, Ended, TypeOK, Goto
<1>4. TypeOK'
  BY <1>0, <1>1, <1>2, <1>3 DEF TypeOK, Goto, Ended
<1>5. \A q \in Locked' : q \in Locked /\ (pc'[q] \in {"bind", "serve"} => pc[q] \in {"bind", "serve"})
  BY <1>1, <1>2, <1>3 DEF Locked, Daemons
<1>6. LoneHasPath'
  <2> SUFFICES ASSUME NEW q \in (Alive \cap Daemons)' \ met'
               PROVE  /\ (Alive \cap Daemons)' = {q}
                      /\ q \in Locked' \/ pc'[q] = "lock" => path' = fd'[q]
    BY DEF LoneHasPath
  <2>1. /\ q \in Processes /\ (Alive \cap Daemons)' = {q}
        /\ q \in Locked \/ pc[q] = "lock" => path = fd[q]
    BY <1>3, LoneStays DEF Daemons
  <2> QED
    BY <1>1, <1>2, <1>3, <1>5, <2>1
<1> QED
  BY <1>1, <1>2, <1>3, <1>4, <1>5, <1>6 DEF IInv, Daemons

(***************************************************************************)
(* Locks are exclusive, what a locked file contains is its holder, and a   *)
(* lone daemon has the file at `path` open.                                *)
(***************************************************************************)
THEOREM Inductive == Spec => []IInv
<1>1. Init => IInv
  BY LifecycleAssumption
  DEF Init, IInv, TypeOK, LoneHasPath, Locked, Alive, Ended, Daemons, LifecycleAssumption
<1>2. IInv /\ [Next]_vars => IInv'
  <2> SUFFICES ASSUME IInv, [Next]_vars PROVE IInv'
    OBVIOUS
  <2>1. ASSUME NEW p \in Processes, Launch(p) \/ Go(p) \/ Stop(p) \/ Kill(p)
        PROVE  IInv'
    BY <2>1, StartKeeps, FileKeeps, ServeKeeps, LifecycleAssumption DEF Go
  <2>2. CASE UNCHANGED vars
    BY <2>2 DEF vars, IInv, TypeOK, LoneHasPath, Locked, Alive
  <2> QED
    BY <2>1, <2>2 DEF Next
<1> QED
  BY <1>1, <1>2, PTL DEF Spec

\* No two daemons lock one file, and the file names the one that has.
THEOREM HolderNamed == Spec => []LockedFileNamesHolder
<1>1. IInv => LockedFileNamesHolder
  BY DEF IInv, LockedFileNamesHolder, Holders, Locked
<1> QED
  BY <1>1, Inductive, PTL

\* The pid file names a serving daemon that no other start overlapped.
THEOREM LoneServerNamed == Spec => []PidFileNamesLoneServer
<1>1. IInv => PidFileNamesLoneServer
  <2> SUFFICES ASSUME IInv, NEW p \in (Serving \cap Daemons) \ met
               PROVE  path # NoFile /\ content[path] = p
    BY DEF PidFileNamesLoneServer
  <2>1. p \in Locked /\ p \in (Alive \cap Daemons) \ met /\ pc[p] = "serve"
    BY DEF Serving, Locked, Alive, Ended
  <2>2. path = fd[p]
    BY <2>1 DEF IInv, LoneHasPath
  <2> QED
    BY <2>1, <2>2 DEF IInv
<1> QED
  BY <1>1, Inductive, PTL

\* The types of the variables, for any number of starts and stops of `subnet`.
THEOREM TypeCorrect == Spec => []TypeOK
<1>1. IInv => TypeOK
  BY DEF IInv
<1> QED
  BY <1>1, Inductive, PTL
=============================================================================
