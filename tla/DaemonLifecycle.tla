-------------------------- MODULE DaemonLifecycle --------------------------
(***************************************************************************)
(* The life of the processes of one service: subnet_daemon and tun_daemon  *)
(* with their pid file, and subnet and tun, which serve the same port in   *)
(* the foreground. Nothing keeps two starts from overlapping: an operator, *)
(* systemd (Restart=on-failure) or launchd (KeepAlive) starts another      *)
(* process whenever it likes.                                              *)
(*                                                                         *)
(* A pid file that has been removed lives on in the processes that have it *)
(* open. A file is named by the process that created it.                   *)
(***************************************************************************)
CONSTANTS Processes,   \* every process that is ever started
          Foreground,  \* those that run without Daemonize
          NoFile       \* no pid file, or an empty one

ASSUME LifecycleAssumption == Foreground \subseteq Processes /\ NoFile \notin Processes

VARIABLES
  pc,        \* how far each process is
  path,      \* the file at /var/run/subnet_daemon.pid
  fd,        \* the pid file each process has open
  content,   \* the process whose pid each file contains
  met        \* history: the daemons that have been alive together with another

vars == <<pc, path, fd, content, met>>

Daemons == Processes \ Foreground

Ended == {"exited", "stopped", "killed"}
Alive == {p \in Processes : pc[p] \notin Ended \cup {"new"}}

\* flock: the daemons that have locked a file, until they end.
Locked == {p \in Daemons : pc[p] \in {"chown", "write", "bind", "serve"}}
Holders(f) == {p \in Locked : fd[p] = f}
Serving == {p \in Processes : pc[p] = "serve"}

\* What has no pid file never takes a step of Daemonize.
TypeOK ==
  /\ pc \in [Processes -> Ended \cup {"new", "check", "remove", "open", "lock",
                                      "chown", "write", "bind", "serve"}]
  /\ path \in Processes \cup {NoFile}
  /\ fd \in [Processes -> Processes \cup {NoFile}]
  /\ content \in [Processes -> Processes \cup {NoFile}]
  /\ met \subseteq Daemons
  /\ \A p \in Foreground : pc[p] \in Ended \cup {"new", "bind", "serve"}
-----------------------------------------------------------------------------
Goto(p, s) == pc' = [pc EXCEPT ![p] = s]

\* What follows if a call succeeds; if it does not the process exits with 1.
GotoOrExit(p, ok, s) == Goto(p, IF ok THEN s ELSE "exited")

\* Mutant: every process looks for a pid file.
LaunchAll(p) ==
  /\ pc[p] = "new" /\ Goto(p, "check") /\ UNCHANGED <<path, fd, content, met>>

\* The process is started.
Launch(p) ==
  /\ pc[p] = "new"
  /\ Goto(p, IF p \in Foreground THEN "bind" ELSE "check")
  /\ met' = IF p \in Daemons /\ Alive \cap Daemons # {}
            THEN met \cup {p} \cup (Alive \cap Daemons) ELSE met
  /\ UNCHANGED <<path, fd, content>>

\* Mutant: a pid file is taken for a daemon that runs.
CheckAndExit(p) ==
  /\ pc[p] = "check"
  /\ GotoOrExit(p, path = NoFile, "open")
  /\ UNCHANGED <<path, fd, content, met>>

\* Path::exists.
Check(p) ==
  /\ pc[p] = "check"
  /\ Goto(p, IF path = NoFile THEN "open" ELSE "remove")
  /\ UNCHANGED <<path, fd, content, met>>

\* remove_file, which fails if another start has removed the file since.
Remove(p) ==
  /\ pc[p] = "remove"
  /\ GotoOrExit(p, path # NoFile, "open")
  /\ path' = NoFile
  /\ UNCHANGED <<fd, content, met>>

\* Daemonize has forked twice, and opens or creates the pid file.
Open(p) ==
  /\ pc[p] = "open"
  /\ LET f == IF path = NoFile THEN p ELSE path IN
     path' = f /\ fd' = [fd EXCEPT ![p] = f]
  /\ Goto(p, "lock")
  /\ UNCHANGED <<content, met>>

\* Mutant: the file is written whether or not the lock was got.
LockUnchecked(p) ==
  /\ pc[p] = "lock" /\ Goto(p, "chown") /\ UNCHANGED <<path, fd, content, met>>

\* flock(LOCK_EX | LOCK_NB).
Lock(p) ==
  /\ pc[p] = "lock"
  /\ GotoOrExit(p, Holders(fd[p]) = {}, "chown")
  /\ UNCHANGED <<path, fd, content, met>>

\* chown_pid_file, by path, which fails if another start has removed the file.
Chown(p) ==
  /\ pc[p] = "chown"
  /\ GotoOrExit(p, path # NoFile, "write")
  /\ UNCHANGED <<path, fd, content, met>>

\* The file is truncated and the pid written. Then run_server begins.
Write(p) ==
  /\ pc[p] = "write"
  /\ content' = [content EXCEPT ![fd[p]] = p]
  /\ Goto(p, "bind")
  /\ UNCHANGED <<path, fd, met>>

\* Mutant: the old pid file is cleaned up once the port is ours.
BindAndClean(p) ==
  /\ pc[p] = "bind"
  /\ GotoOrExit(p, Serving = {}, "serve")
  /\ path' = IF Serving = {} THEN NoFile ELSE path
  /\ UNCHANGED <<fd, content, met>>

\* TcpListener::bind, which fails if the port is in use.
Bind(p) ==
  /\ pc[p] = "bind"
  /\ GotoOrExit(p, Serving = {}, "serve")
  /\ UNCHANGED <<path, fd, content, met>>

\* A server ends, by a signal or an error. The pid file stays.
Stop(p) ==
  /\ pc[p] = "serve" /\ Goto(p, "stopped")
  /\ UNCHANGED <<path, fd, content, met>>

\* A start is killed.
Kill(p) ==
  /\ p \in Alive \ Serving /\ Goto(p, "killed")
  /\ UNCHANGED <<path, fd, content, met>>
-----------------------------------------------------------------------------
Init ==
  /\ pc = [p \in Processes |-> "new"]
  /\ path = NoFile /\ met = {}
  /\ fd = [p \in Processes |-> NoFile] /\ content = [p \in Processes |-> NoFile]

Go(p) ==
  Check(p) \/ Remove(p) \/ Open(p) \/ Lock(p) \/ Chown(p) \/ Write(p) \/ Bind(p)

Next == \E p \in Processes : Launch(p) \/ Go(p) \/ Stop(p) \/ Kill(p)

Spec == Init /\ [][Next]_vars

\* The kernel runs a started process; it serves as long as it likes.
FairSpec == Spec /\ \A p \in Processes : WF_vars(Go(p))
-----------------------------------------------------------------------------
(***************************************************************************)
(* Whatever starts overlap, fail or are killed, the file that a daemon has *)
(* locked names it and no other daemon has locked it.                      *)
(***************************************************************************)
LockedFileNamesHolder ==
  \A p \in Daemons :
    pc[p] \in {"bind", "serve"} => content[fd[p]] = p /\ Holders(fd[p]) = {p}

(***************************************************************************)
(* A daemon that never met another is named by the pid file while it       *)
(* serves, also after daemons that were killed and left theirs, and also   *)
(* if the service was started in the foreground meanwhile.                 *)
(***************************************************************************)
PidFileNamesLoneServer ==
  \A p \in (Serving \cap Daemons) \ met : path # NoFile /\ content[path] = p

(***************************************************************************)
(* Starts never all fail on account of each other: once a daemon is        *)
(* started some process serves, unless a start is killed.                  *)
(***************************************************************************)
StartServes ==
  \A p \in Processes :
    pc[p] \in {"check", "bind"} ~> Serving # {} \/ \E q \in Processes : pc[q] = "killed"
-----------------------------------------------------------------------------
\* A daemon with its pid file open that has met no other has the one at `path`.
LoneHasPath ==
  \A p \in (Alive \cap Daemons) \ met :
    /\ Alive \cap Daemons = {p}
    /\ p \in Locked \/ pc[p] = "lock" => path = fd[p]

(***************************************************************************)
(* The inductive invariant behind the two invariants: locks are exclusive, *)
(* only the holder of a lock writes, and only an overlapping start can put *)
(* another file at `path`.                                                 *)
(***************************************************************************)
IInv ==
  /\ TypeOK
  /\ \A p \in Daemons : p \in Locked \/ pc[p] = "lock" => fd[p] # NoFile
  /\ \A p, q \in Locked : fd[p] = fd[q] => p = q
  /\ \A p \in Locked : pc[p] \in {"bind", "serve"} => content[fd[p]] = p
  /\ LoneHasPath
=============================================================================
