---------------------------- MODULE ControlSocket ----------------------------
(***************************************************************************)
(* Launching and quitting around the control socket (src/ctl/socket.rs):   *)
(* processes of one user check, rebind and unlink one path, under an       *)
(* advisory lock on a file beside it.  One action per system call that     *)
(* another process can see, so launches, quits, crashes and clients        *)
(* interleave between any two of them.                                     *)
(*                                                                         *)
(* Left out: the path-length check, creating the directory, and what a     *)
(* connection says once accepted (it runs on a thread of its own).         *)
(***************************************************************************)
CONSTANTS
  Apps,      \* processes of one user
  NoApp,     \* no process
  Inodes,    \* identities (device, inode) the file system hands to sockets
  NoFile,    \* no socket file, no listener
  LocksFail  \* TRUE: a quitting app may fail to open the lock file

ASSUME NoAppAssumption == NoApp \notin Apps
ASSUME NoFileAssumption == NoFile \notin Inodes
ASSUME LocksFailAssumption == LocksFail \in BOOLEAN

VARIABLES
  pc,        \* where each app is in serve() or in ServerHandle's drop()
  lock,      \* the app holding the launch lock
  path,      \* the socket file at the path
  listener,  \* the socket each app's accept thread listens on
  identity,  \* ServerHandle::identity
  stop,      \* ServerHandle::stop
  pending    \* a connection waits in the listener's backlog

vars == <<pc, lock, path, listener, identity, stop, pending>>

Off == {"off", "refused", "failed", "crashed"}
Launching == {"launch", "probe", "stale", "bind", "identify"}
Quitting == {"quit", "stop", "wake", "check", "unlink", "unlock", "join"}
Places == Off \cup Launching \cup {"serving"} \cup Quitting

TypeOK ==
  /\ pc \in [Apps -> Places]
  /\ lock \in Apps \cup {NoApp}
  /\ path \in Inodes \cup {NoFile}
  /\ listener \in [Apps -> Inodes \cup {NoFile}]
  /\ identity \in [Apps -> Inodes \cup {NoFile}]
  /\ stop \in [Apps -> BOOLEAN]
  /\ pending \in [Apps -> BOOLEAN]

Init ==
  /\ pc = [a \in Apps |-> "off"]
  /\ lock = NoApp /\ path = NoFile
  /\ listener = [a \in Apps |-> NoFile]
  /\ identity = [a \in Apps |-> NoFile]
  /\ stop = [a \in Apps |-> FALSE]
  /\ pending = [a \in Apps |-> FALSE]

Listens(a) == listener[a] # NoFile
Answers(a) == Listens(a) /\ listener[a] = path

Goes(a, from, to) == pc[a] = from /\ pc' = [pc EXCEPT ![a] = to]

Locks(a) == lock = NoApp /\ lock' = a
Unlocks(a) == lock' = IF lock = a THEN NoApp ELSE lock

(* connect(path): whoever listens there has a connection to accept.         *)
Connects == pending' = [b \in Apps |-> pending[b] \/ Answers(b)]

-----------------------------------------------------------------------------
(* serve().                                                                 *)

Launch(a) ==
  /\ pc[a] \in Off
  /\ pc' = [pc EXCEPT ![a] = "launch"]
  /\ UNCHANGED <<lock, path, listener, identity, stop, pending>>

LaunchLocks_Not(a) ==
  /\ Goes(a, "launch", "probe")
  /\ UNCHANGED <<lock, path, listener, identity, stop, pending>>

LaunchLocks(a) ==
  /\ Goes(a, "launch", "probe")
  /\ Locks(a)
  /\ UNCHANGED <<path, listener, identity, stop, pending>>

(* Any of the fallible calls returns early; the lock and a listener already *)
(* bound are dropped, its file stays.                                       *)
LaunchFails(a) ==
  /\ pc[a] \in Launching
  /\ pc' = [pc EXCEPT ![a] = "failed"]
  /\ Unlocks(a)
  /\ listener' = [listener EXCEPT ![a] = NoFile]
  /\ pending' = [pending EXCEPT ![a] = FALSE]
  /\ UNCHANGED <<path, identity, stop>>

NoSocket(a) ==
  /\ path = NoFile
  /\ Goes(a, "probe", "bind")
  /\ UNCHANGED <<lock, path, listener, identity, stop, pending>>

(* A live server answered the connect: AddrInUse.                           *)
Refuse_KeepsLock(a) ==
  /\ \E b \in Apps : Answers(b)
  /\ Goes(a, "probe", "refused")
  /\ Connects
  /\ UNCHANGED <<lock, path, listener, identity, stop>>

Refuse(a) ==
  /\ \E b \in Apps : Answers(b)
  /\ Goes(a, "probe", "refused")
  /\ Connects
  /\ Unlocks(a)
  /\ UNCHANGED <<path, listener, identity, stop>>

NobodyHome(a) ==
  /\ path # NoFile /\ ~\E b \in Apps : Answers(b)
  /\ Goes(a, "probe", "stale")
  /\ UNCHANGED <<lock, path, listener, identity, stop, pending>>

RemoveStale(a) ==
  /\ Goes(a, "stale", "bind")
  /\ path' = NoFile
  /\ UNCHANGED <<lock, listener, identity, stop, pending>>

(* The new file's inode may be one freed before: none that is still held.   *)
Bind(a) ==
  /\ path = NoFile
  /\ Goes(a, "bind", "identify")
  /\ \E i \in Inodes :
       /\ \A b \in Apps : listener[b] # i
       /\ path' = i
       /\ listener' = [listener EXCEPT ![a] = i]
  /\ stop' = [stop EXCEPT ![a] = FALSE]
  /\ UNCHANGED <<lock, identity, pending>>

Identify(a) ==
  /\ path # NoFile
  /\ Goes(a, "identify", "serving")
  /\ identity' = [identity EXCEPT ![a] = path]
  /\ Unlocks(a)
  /\ UNCHANGED <<path, listener, stop, pending>>

Serve(a) ==
  \/ LaunchLocks(a) \/ NoSocket(a) \/ Refuse(a) \/ NobodyHome(a)
  \/ RemoveStale(a) \/ Bind(a) \/ Identify(a)

-----------------------------------------------------------------------------
(* drop().                                                                  *)

Quit(a) ==
  /\ Goes(a, "serving", "quit")
  /\ UNCHANGED <<lock, path, listener, identity, stop, pending>>

QuitLocks_Not(a) ==
  /\ Goes(a, "quit", "stop")
  /\ UNCHANGED <<lock, path, listener, identity, stop, pending>>

(* lock_beside(..).ok(): without a lock file the drop goes on regardless.   *)
QuitLocks(a) ==
  /\ Goes(a, "quit", "stop")
  /\ Locks(a) \/ (LocksFail /\ UNCHANGED lock)
  /\ UNCHANGED <<path, listener, identity, stop, pending>>

SetStop(a) ==
  /\ Goes(a, "stop", "wake")
  /\ stop' = [stop EXCEPT ![a] = TRUE]
  /\ UNCHANGED <<lock, path, listener, identity, pending>>

Wake(a) ==
  /\ Goes(a, "wake", "check")
  /\ Connects
  /\ UNCHANGED <<lock, path, listener, identity, stop>>

CheckOwn(a) ==
  /\ Goes(a, "check", IF path = identity[a] THEN "unlink" ELSE "unlock")
  /\ UNCHANGED <<lock, path, listener, identity, stop, pending>>

Unlink(a) ==
  /\ Goes(a, "unlink", "unlock")
  /\ path' = NoFile
  /\ UNCHANGED <<lock, listener, identity, stop, pending>>

QuitUnlocks(a) ==
  /\ Goes(a, "unlock", "join")
  /\ Unlocks(a)
  /\ UNCHANGED <<path, listener, identity, stop, pending>>

(* The accept thread owns the listener, and has ended once it is closed.    *)
Join(a) ==
  /\ ~Listens(a)
  /\ Goes(a, "join", "off")
  /\ UNCHANGED <<lock, path, listener, identity, stop, pending>>

Drop(a) ==
  \/ QuitLocks(a) \/ SetStop(a) \/ Wake(a) \/ CheckOwn(a)
  \/ Unlink(a) \/ QuitUnlocks(a) \/ Join(a)

-----------------------------------------------------------------------------
(* accept_loop(): every connection is accepted; one that arrives after stop *)
(* ends the thread.                                                         *)

Accepting(a) == Listens(a) /\ pc[a] \in {"serving"} \cup Quitting

Accept(a) ==
  /\ Accepting(a) /\ pending[a]
  /\ pending' = [pending EXCEPT ![a] = FALSE]
  /\ listener' = IF stop[a] THEN [listener EXCEPT ![a] = NoFile] ELSE listener
  /\ UNCHANGED <<pc, lock, path, identity, stop>>

(* accept() fails: retried after 10 ms, unless stopping.                    *)
AcceptFails(a) ==
  /\ Accepting(a) /\ stop[a]
  /\ pending' = [pending EXCEPT ![a] = FALSE]
  /\ listener' = [listener EXCEPT ![a] = NoFile]
  /\ UNCHANGED <<pc, lock, path, identity, stop>>

-----------------------------------------------------------------------------
(* A client connects; a process dies, and the kernel closes what it held.   *)

Client ==
  /\ \E b \in Apps : Answers(b)
  /\ Connects
  /\ UNCHANGED <<pc, lock, path, listener, identity, stop>>

Crash(a) ==
  /\ pc[a] \notin Off
  /\ pc' = [pc EXCEPT ![a] = "crashed"]
  /\ Unlocks(a)
  /\ listener' = [listener EXCEPT ![a] = NoFile]
  /\ pending' = [pending EXCEPT ![a] = FALSE]
  /\ UNCHANGED <<path, identity, stop>>

Next ==
  \/ Client
  \/ \E a \in Apps :
       \/ Launch(a) \/ LaunchFails(a) \/ Serve(a)
       \/ Quit(a) \/ Drop(a)
       \/ Accept(a) \/ AcceptFails(a)
       \/ Crash(a)

Spec == Init /\ [][Next]_vars

(* Threads run, and the kernel wakes the lock's waiters in turn, so neither *)
(* waits for it forever.                                                    *)
Fairness ==
  \A a \in Apps :
    /\ WF_vars(Serve(a)) /\ SF_vars(LaunchLocks(a))
    /\ WF_vars(Drop(a)) /\ SF_vars(QuitLocks(a))
    /\ WF_vars(Accept(a))

FairSpec == Spec /\ Fairness

-----------------------------------------------------------------------------
(* Properties.                                                              *)

(* "Racing launches cannot both win": an app that got its ServerHandle and  *)
(* has not begun to close it is the one clients of the path reach.          *)
WinnersAreReached ==
  \A a \in Apps : pc[a] \in {"serving", "quit"} => Answers(a)

(* "A quitting app cannot remove the socket of the one after it", nor can a *)
(* launch: the path is never taken from an app still accepting on it.       *)
NeverUnlinked(a) == Answers(a) /\ ~stop[a] => path' = path

SocketsAreNotStolen == [][\A a \in Apps : NeverUnlinked(a)]_vars

(* The apps answering on the path amount to one primary at a time.          *)
Primary ==
  IF \E a \in Apps : Listens(a) /\ ~stop[a]
    THEN CHOOSE a \in Apps : Listens(a) /\ ~stop[a]
    ELSE NoApp

Single == INSTANCE SingleInstance WITH primary <- Primary
ImplementsSingleInstance == Single!Spec

(* A quit ends: the accept thread is woken and joined.                      *)
QuitEnds == \A a \in Apps : pc[a] \in Quitting ~> pc[a] \notin Quitting

(* A launch ends, as the server, refused or failed: whatever crashed or     *)
(* quit before it left neither a lock nor a file that blocks it.            *)
LaunchEnds == \A a \in Apps : pc[a] \in Launching ~> pc[a] \notin Launching

(* Neither serve() nor drop() waits forever, whatever the other apps do.    *)
CallsEnd == QuitEnds /\ LaunchEnds
=============================================================================
