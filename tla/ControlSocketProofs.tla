------------------------- MODULE ControlSocketProofs -------------------------
(***************************************************************************)
(* Proofs about ControlSocket for any number of processes and inodes.      *)
(*                                                                         *)
(* The argument: every step that changes the path is made by the holder of *)
(* the launch lock (LockInv), so what a launch found out about the path    *)
(* still holds when it acts on it (PathInv), and the path belongs to one   *)
(* process at a time (OwnInv).  It needs every quitting process to get the *)
(* lock: LocksFail = FALSE.                                                *)
(***************************************************************************)
EXTENDS ControlSocket, TLAPS

Holding ==
  {"probe", "stale", "bind", "identify", "stop", "wake", "check", "unlink", "unlock"}
Running == {"identify", "serving", "quit", "stop"}
Stopping == {"wake", "check", "unlink"}
Owning == Running \cup Stopping
Leaving == {"unlock", "join"}

(* Whoever is between taking the lock and dropping it holds it.             *)
LockInv == \A a \in Apps : pc[a] \in Holding => lock = a

(* stop is set exactly from SetStop on.                                     *)
StopInv ==
  \A a \in Apps :
    /\ pc[a] \in Running => ~stop[a] /\ Listens(a)
    /\ pc[a] \in Stopping \cup Leaving => stop[a]

(* Only a bound process listens, and two never on one inode.                *)
ListenInv ==
  /\ \A a \in Apps : Listens(a) => pc[a] \in Owning \cup Leaving
  /\ \A a, b \in Apps : Listens(a) /\ listener[a] = listener[b] => a = b

(* The path leads to the one process that owns it, until it has unlinked.   *)
OwnInv ==
  /\ \A a, b \in Apps : pc[a] \in Owning /\ pc[b] \in Owning => a = b
  /\ \A a \in Apps : pc[a] \in Owning /\ Listens(a) => path = listener[a]
  /\ \A a \in Apps :
       pc[a] \in Owning \ {"identify"} /\ Listens(a) => identity[a] = listener[a]
  /\ \A a \in Apps : pc[a] \in Leaving => ~Answers(a)

(* What a launch found out about the path is still so.                      *)
PathInv ==
  \A a \in Apps :
    /\ pc[a] = "stale" => \A b \in Apps : ~Answers(b)
    /\ pc[a] = "bind" => path = NoFile

IInv == TypeOK /\ LockInv /\ StopInv /\ ListenInv /\ OwnInv /\ PathInv

-----------------------------------------------------------------------------
(* Every value is in its range; this needs no lock.                         *)
THEOREM TypeCorrect == Spec => []TypeOK
<1>1. Init => TypeOK
  BY DEF Init, TypeOK, Places, Off
<1>2. TypeOK /\ [Next]_vars => TypeOK'
  <2> SUFFICES ASSUME TypeOK, [Next]_vars PROVE TypeOK'
    OBVIOUS
  <2> USE DEF TypeOK, Places, Off, Launching, Quitting
  <2>1. CASE Client
    BY <2>1 DEF Client, Connects, Answers, Listens
  <2>2. ASSUME NEW a \in Apps, Launch(a) \/ LaunchFails(a) \/ Quit(a) \/ Crash(a)
        PROVE  TypeOK'
    BY <2>2 DEF Launch, LaunchFails, Quit, Crash, Goes, Unlocks
  <2>3. ASSUME NEW a \in Apps, Serve(a) PROVE TypeOK'
    <3>1. CASE LaunchLocks(a) \/ NoSocket(a) \/ NobodyHome(a) \/ RemoveStale(a)
      BY <3>1 DEF LaunchLocks, NoSocket, NobodyHome, RemoveStale, Goes, Locks
    <3>2. CASE Refuse(a)
      BY <3>2 DEF Refuse, Goes, Unlocks, Connects, Answers, Listens
    <3>3. CASE Bind(a)
      BY <3>3 DEF Bind, Goes
    <3>4. CASE Identify(a)
      BY <3>4 DEF Identify, Goes, Unlocks
    <3> QED
      BY <2>3, <3>1, <3>2, <3>3, <3>4 DEF Serve
  <2>4. ASSUME NEW a \in Apps, Drop(a) PROVE TypeOK'
    <3>1. CASE QuitLocks(a) \/ SetStop(a) \/ CheckOwn(a) \/ Unlink(a)
      BY <3>1 DEF QuitLocks, SetStop, CheckOwn, Unlink, Goes, Locks
    <3>2. CASE Wake(a)
      BY <3>2 DEF Wake, Goes, Connects, Answers, Listens
    <3>3. CASE QuitUnlocks(a) \/ Join(a)
      BY <3>3 DEF QuitUnlocks, Join, Goes, Unlocks
    <3> QED
      BY <2>4, <3>1, <3>2, <3>3 DEF Drop
  <2>5. ASSUME NEW a \in Apps, Accept(a) \/ AcceptFails(a) PROVE TypeOK'
    BY <2>5 DEF Accept, AcceptFails
  <2>6. CASE UNCHANGED vars
    BY <2>6 DEF vars
  <2> QED
    BY <2>1, <2>2, <2>3, <2>4, <2>5, <2>6 DEF Next
<1> QED
  BY <1>1, <1>2, PTL DEF Spec

-----------------------------------------------------------------------------
LEMMA Inductive ==
  ASSUME LocksFail = FALSE, IInv, [Next]_vars, TypeOK'
  PROVE  IInv'
<1> USE NoAppAssumption, NoFileAssumption
<1> USE DEF IInv, LockInv, StopInv, ListenInv, OwnInv, PathInv, Holding, Running,
            Stopping, Owning, Leaving, Listens, Answers, Goes
<1>1. ASSUME NEW a \in Apps, Launch(a) \/ NoSocket(a) \/ NobodyHome(a) PROVE IInv'
  BY <1>1 DEF Launch, Off, NoSocket, NobodyHome, TypeOK
<1>2. ASSUME NEW a \in Apps, LaunchLocks(a) \/ QuitLocks(a) PROVE IInv'
  BY <1>2 DEF LaunchLocks, QuitLocks, Locks, TypeOK
<1>3. ASSUME NEW a \in Apps, LaunchFails(a) \/ Crash(a) PROVE IInv'
  BY <1>3 DEF LaunchFails, Launching, Crash, Unlocks, TypeOK
<1>4. ASSUME NEW a \in Apps, Refuse(a) \/ Identify(a) \/ QuitUnlocks(a) PROVE IInv'
  BY <1>4 DEF Refuse, Identify, QuitUnlocks, Unlocks, TypeOK
<1>5. ASSUME NEW a \in Apps, RemoveStale(a) \/ Unlink(a) PROVE IInv'
  BY <1>5 DEF RemoveStale, Unlink, TypeOK
<1>6. ASSUME NEW a \in Apps, Bind(a) PROVE IInv'
  BY <1>6 DEF Bind, TypeOK
<1>7. ASSUME NEW a \in Apps, Quit(a) \/ SetStop(a) \/ Wake(a) \/ CheckOwn(a) \/ Join(a)
      PROVE  IInv'
  BY <1>7 DEF Quit, SetStop, Wake, CheckOwn, Join, TypeOK
<1>8. ASSUME NEW a \in Apps, Accept(a) \/ AcceptFails(a) PROVE IInv'
  BY <1>8 DEF Accept, AcceptFails, Accepting, TypeOK
<1>9. CASE Client \/ UNCHANGED vars
  BY <1>9 DEF Client, vars
<1> QED
  BY <1>1, <1>2, <1>3, <1>4, <1>5, <1>6, <1>7, <1>8, <1>9 DEF Next, Serve, Drop

THEOREM Invariance == ASSUME LocksFail = FALSE PROVE Spec => []IInv
<1>1. Init => IInv
  <2> SUFFICES ASSUME Init PROVE IInv
    OBVIOUS
  <2>1. TypeOK
    BY DEF Init, TypeOK, Places, Off
  <2> QED
    BY <2>1 DEF Init, IInv, LockInv, StopInv, ListenInv, OwnInv, PathInv, Holding,
                Running, Stopping, Owning, Leaving, Listens
<1>2. IInv /\ TypeOK' /\ [Next]_vars => IInv'
  BY Inductive
<1> QED
  BY <1>1, <1>2, TypeCorrect, PTL DEF Spec

-----------------------------------------------------------------------------
(* Racing launches cannot both win, and the winner is the one reached.      *)
THEOREM WinnersReached ==
  ASSUME LocksFail = FALSE PROVE Spec => []WinnersAreReached
<1>1. IInv => WinnersAreReached
  BY DEF IInv, StopInv, OwnInv, WinnersAreReached, Answers, Running, Owning
<1> QED
  BY <1>1, Invariance, PTL

(* No launch and no quitting app takes the path from an app that accepts on *)
(* it.                                                                      *)
THEOREM NotStolen == ASSUME LocksFail = FALSE PROVE Spec => SocketsAreNotStolen
<1>1. ASSUME IInv, [Next]_vars PROVE [\A a \in Apps : NeverUnlinked(a)]_vars
  <2> SUFFICES ASSUME NEW a \in Apps, Answers(a), ~stop[a], Next PROVE path' = path
    BY <1>1 DEF NeverUnlinked
  <2> USE <1>1 DEF IInv, Answers, Listens
  <2>1. pc[a] \in Running
    BY DEF ListenInv, StopInv, Owning
  <2>2. ASSUME NEW b \in Apps, RemoveStale(b) PROVE FALSE
    BY <2>2 DEF RemoveStale, Goes, PathInv
  <2>3. ASSUME NEW b \in Apps, Unlink(b) PROVE FALSE
    BY <2>1, <2>3 DEF Unlink, Goes, OwnInv, StopInv, Owning, Stopping, Running
  <2>4. ASSUME NEW b \in Apps, Bind(b) PROVE FALSE
    BY <2>4 DEF Bind, Goes
  <2> QED
    BY <2>2, <2>3, <2>4
    DEF Next, Client, Launch, LaunchFails, Serve, LaunchLocks, NoSocket, Refuse,
        NobodyHome, Identify, Quit, Drop, QuitLocks, SetStop, Wake, CheckOwn,
        QuitUnlocks, Join, Accept, AcceptFails, Crash
<1> QED
  BY <1>1, Invariance, PTL DEF Spec, SocketsAreNotStolen

-----------------------------------------------------------------------------
(* Launching, quitting and crashing processes implement one instance.       *)
Alive(a) == Listens(a) /\ ~stop[a]

OneAlive ==
  /\ \A a, b \in Apps : Alive(a) /\ Alive(b) => a = b
  /\ \A a \in Apps : Alive(a) => path = listener[a] /\ Primary = a
  /\ (\A a \in Apps : ~Alive(a)) => Primary = NoApp

LEMMA AliveAlone == IInv => OneAlive
<1> SUFFICES ASSUME IInv PROVE OneAlive
  OBVIOUS
<1>1. \A a \in Apps : Alive(a) => pc[a] \in Running
  BY DEF IInv, Alive, ListenInv, StopInv, Owning
<1>2. \A a, b \in Apps : Alive(a) /\ Alive(b) => a = b
  BY <1>1 DEF IInv, OwnInv, Owning
<1> QED
  BY <1>1, <1>2 DEF IInv, OwnInv, Owning, Alive, Primary, OneAlive
(* A step changes who is alive only by Bind, while nobody is, and by the    *)
(* one who is alive leaving.                                                *)
LEMMA AliveSteps ==
  ASSUME IInv, [Next]_vars
  PROVE  \/ \A b \in Apps : (Alive(b)' <=> Alive(b))
         \/ \E a \in Apps : /\ \A b \in Apps : ~Alive(b)
                            /\ Alive(a)'
         \/ \E a \in Apps : Alive(a) /\ \A b \in Apps : b # a => (Alive(b)' <=> Alive(b))
<1> USE DEF IInv, TypeOK, Alive, Listens
<1>1. ASSUME NEW a \in Apps, Bind(a)
      PROVE  (\A b \in Apps : ~Alive(b)) /\ Alive(a)'
  <2>1. path = NoFile
    BY <1>1 DEF Bind
  <2>2. \A b \in Apps : ~Alive(b)
    BY <2>1, AliveAlone DEF OneAlive
  <2> QED
    BY <1>1, <2>2, NoFileAssumption DEF Bind
<1>2. ASSUME NEW a \in Apps,
             LaunchFails(a) \/ Crash(a) \/ SetStop(a) \/ Accept(a) \/ AcceptFails(a)
      PROVE  \A b \in Apps : b # a => (Alive(b)' <=> Alive(b))
  BY <1>2 DEF LaunchFails, Crash, SetStop, Accept, AcceptFails
<1>3. ASSUME NEW a \in Apps, ~Alive(a),
             LaunchFails(a) \/ Crash(a) \/ SetStop(a) \/ Accept(a) \/ AcceptFails(a)
      PROVE  ~Alive(a)'
  BY <1>3 DEF LaunchFails, Crash, SetStop, Accept, AcceptFails
<1>4. CASE UNCHANGED <<listener, stop>>
  BY <1>4
<1>5. \/ UNCHANGED <<listener, stop>>
      \/ \E a \in Apps : \/ Bind(a) \/ LaunchFails(a) \/ Crash(a) \/ SetStop(a)
                         \/ Accept(a) \/ AcceptFails(a)
  BY DEF Next, vars, Client, Launch, Serve, LaunchLocks, NoSocket, Refuse, NobodyHome,
         RemoveStale, Identify, Quit, Drop, QuitLocks, Wake, CheckOwn, Unlink,
         QuitUnlocks, Join
<1> QED
  BY <1>1, <1>2, <1>3, <1>4, <1>5

THEOREM Implements ==
  ASSUME LocksFail = FALSE PROVE Spec => ImplementsSingleInstance
<1>1. Init => Single!Init
  BY NoAppAssumption DEF Init, Single!Init, Primary, Listens
<1>2. ASSUME IInv, OneAlive, OneAlive', [Next]_vars PROVE [Single!Next]_Primary
  <2>1. CASE \A b \in Apps : (Alive(b)' <=> Alive(b))
    <3>1. Primary' = Primary
      BY <1>2, <2>1 DEF OneAlive
    <3> QED
      BY <3>1
  <2>2. ASSUME NEW a \in Apps, \A b \in Apps : ~Alive(b), Alive(a)'
        PROVE  Single!Becomes(a)
    <3>1. Primary = NoApp /\ Primary' = a
      BY <1>2, <2>2 DEF OneAlive
    <3> QED
      BY <3>1 DEF Single!Becomes
  <2>3. ASSUME NEW a \in Apps, Alive(a), ~Alive(a)',
               \A b \in Apps : b # a => (Alive(b)' <=> Alive(b))
        PROVE  Single!Leaves
    <3>1. \A b \in Apps : ~Alive(b)'
      BY <1>2, <2>3 DEF OneAlive
    <3>2. Primary = a /\ Primary' = NoApp
      BY <1>2, <2>3, <3>1 DEF OneAlive
    <3> QED
      BY <3>2, NoAppAssumption DEF Single!Leaves
  <2> QED
    BY <1>2, <2>1, <2>2, <2>3, AliveSteps DEF Single!Next
<1> QED
  BY <1>1, <1>2, AliveAlone, Invariance, PTL DEF Spec, ImplementsSingleInstance, Single!Spec
=============================================================================
