-------------------------- MODULE RemoteWorkspaces --------------------------
(***************************************************************************)
(* The app's side of a host (src/ui/app/remote.rs): the workspaces on it,  *)
(* the connection their terminals run on, their git panes, the command     *)
(* `amalgum open --run` types and their port forwards, kept in step with   *)
(* the connection by the events the Manager returns from poll().           *)
(*                                                                         *)
(* SshManager has the connection itself; here it is a phase, with the      *)
(* attempts and workers that answer late.  A poll first applies what the   *)
(* workers sent, then the app handles the events that gave, each reading   *)
(* the connection as it is by then; the user acts between polls.  Epochs   *)
(* never start over, the host-key dialog is like a failure, and every      *)
(* forward is of a remote port of its own.                                 *)
(***************************************************************************)
EXTENDS Naturals, SequencesExt

CONSTANTS
  Ids,       \* workspaces on the host; an id is opened once
  MaxEpoch,  \* bound: attempts and disconnects
  MaxPorts,  \* bound: forwards asked for
  MaxOut,    \* bound: results one poll finds
  Patient    \* a forward is answered before its workspace is closed, and fails
             \* once the connection it was asked on is gone

ConstantsOK ==
  /\ IsFiniteSet(Ids) /\ MaxEpoch \in Nat /\ MaxPorts \in Nat /\ MaxOut \in Nat
  /\ Patient \in BOOLEAN

VARIABLES
  phase,     \* the machine's
  epoch,     \* the machine's
  running,   \* epochs of the attempts still running
  ports,     \* Host::forwards: the forwards to close with the connection
  workers,   \* other workers under way
  out,       \* the events poll() returned, those still to be handled
  handling,  \* poll() has returned
  live,      \* App::live: what each workspace shows, or NotLive
  closed,    \* workspaces closed
  forwards,  \* Remote::forwards: workspace and local port of each one listed
  pending,   \* Remote::pending: those asked for
  \* not in the code:
  open,      \* local ports ssh listens on
  asked,     \* forwards asked for so far
  wanted,    \* workspaces opened with --run
  typed      \* times each workspace's command has been typed

conn == <<phase, epoch, running>>
shown == <<live, closed, forwards, pending>>
vars == <<conn, ports, workers, out, handling, shown, open, asked, wanted, typed>>

NotLive == [spawned |-> 0, run |-> FALSE, panes |-> 0, git |-> "none", on |-> FALSE]
Fresh == [NotLive EXCEPT !.on = TRUE]   \* no terminal yet: epochs start at 1

Live == {w \in Ids : live[w].on}
Connected == phase = "Connected"
BetweenPolls == out = <<>> /\ ~handling

Init ==
  /\ phase = "Disconnected" /\ epoch = 0 /\ running = {}
  /\ ports = {} /\ workers = {} /\ out = <<>> /\ handling = FALSE
  /\ live = [w \in Ids |-> NotLive] /\ closed = {} /\ forwards = {} /\ pending = {}
  /\ open = {} /\ asked = 0 /\ wanted = {} /\ typed = [w \in Ids |-> 0]

-----------------------------------------------------------------------------
(* The connection *)

\* Machine::start
Start(p) ==
  /\ epoch < MaxEpoch
  /\ phase' = p /\ epoch' = epoch + 1 /\ running' = running \cup {epoch + 1}

\* Event::Disconnect; CloseForwards closes the ports of a connection that was up
GoDown(closing) ==
  /\ epoch < MaxEpoch
  /\ phase' = "Disconnected" /\ epoch' = epoch + 1 /\ UNCHANGED running
  /\ ports' = {} /\ open' = open \ (ports \cup closing)

\* What poll() applies
Applying == ~handling /\ Len(out) < MaxOut
Emit(es) == out' = out \o es

\* The attempt of an epoch reports; one that was cancelled changes nothing here
Progress(e) ==
  /\ Applying /\ out = <<>> /\ e \in running /\ e = epoch
  /\ Emit(<<[kind |-> "Changed"]>>)
  /\ UNCHANGED <<conn, ports, workers, handling, shown, open, asked, wanted, typed>>

AttemptDone(e, to) ==
  /\ Applying /\ e \in running
  /\ running' = running \ {e}
  /\ UNCHANGED <<epoch, ports, handling, shown, open, asked, wanted, typed>>
  /\ IF e = epoch /\ phase \in {"Connecting", "Lost"}
       THEN /\ to \in {"Connected", "Retrying", "Failed"}
            /\ phase' = to
            /\ workers' = workers \cup {[kind |-> "identify", of |-> w] : w \in {v \in Live : to = "Connected"}}
            /\ Emit(<<[kind |-> "Changed"]>>)
       ELSE to = phase /\ UNCHANGED <<phase, workers, out>>

\* Event::Tick
RetryDue ==
  /\ Applying /\ phase = "Retrying" /\ Start("Lost")
  /\ Emit(<<[kind |-> "Changed"]>>)
  /\ UNCHANGED <<ports, workers, handling, shown, open, asked, wanted, typed>>

InOrder(S) == SetToSortSeq(S, <)

\* A probe finds the master dead, and its forwards with it
MasterDied ==
  /\ Applying /\ Connected /\ Start("Lost")
  /\ ports' = {} /\ open' = {}
  /\ Emit([i \in 1 .. Cardinality(ports) |->
             [kind |-> "PortClosed", of |-> InOrder(ports)[i]]]
          \o <<[kind |-> "Changed"]>>)
  /\ UNCHANGED <<workers, handling, shown, asked, wanted, typed>>

\* A worker is done: one that forwards a port, closes one or reads a
\* workspace's identity.  A port opened for a host that went offline is closed.
ForwardDone(w, ok) ==
  /\ Applying /\ w \in workers /\ w.kind = "forward"
  /\ Patient /\ ok => Connected /\ w.at = epoch
  /\ workers' = workers \ {w}
  /\ ports' = IF ok /\ Connected THEN ports \cup {w.of} ELSE ports
  /\ open' = IF ok /\ Connected THEN open \cup {w.of} ELSE open
  /\ Emit(<<[kind |-> "PortForwarded", of |-> w.of, ok |-> ok]>>)
  /\ UNCHANGED <<conn, handling, shown, asked, wanted, typed>>

CancelDone(w) ==
  /\ Applying /\ w \in workers /\ w.kind = "cancel"
  /\ workers' = workers \ {w} /\ open' = open \ {w.of}
  /\ Emit(<<[kind |-> "PortClosed", of |-> w.of]>>)
  /\ UNCHANGED <<conn, ports, handling, shown, asked, wanted, typed>>

IdentifyDone(w) ==
  /\ Applying /\ w \in workers /\ w.kind = "identify"
  /\ workers' = workers \ {w}
  /\ Emit(<<[kind |-> "RepoIdentity", of |-> w.of]>>)
  /\ UNCHANGED <<conn, ports, handling, shown, open, asked, wanted, typed>>

-----------------------------------------------------------------------------
(* The app handles the events, oldest first *)

Terminals(l) == [l EXCEPT !.spawned = epoch, !.panes = epoch, !.run = FALSE]

\* App::host_changed, for one workspace
Stale_Once(l) == l.on /\ Connected /\ l.spawned = 0
Stale(l) == l.on /\ Connected /\ l.spawned # epoch

Follow(l) ==
  LET git == IF l.git = "none" THEN "none" ELSE IF Connected THEN "online" ELSE "offline"
      cleared == IF phase = "Disconnected" THEN [l EXCEPT !.panes = 0, !.spawned = 0] ELSE l
  IN IF ~l.on THEN l
       ELSE [IF Stale(l) THEN Terminals(cleared) ELSE cleared EXCEPT !.git = git]

\* The command is typed into the terminals that have just started
Typing(was, now) ==
  typed' = [w \in Ids |-> typed[w] + IF was[w].run /\ now[w].spawned # was[w].spawned THEN 1 ELSE 0]

HostChanged_Keeps ==
  /\ UNCHANGED <<forwards, pending>>
  /\ live' = [w \in Ids |-> Follow(live[w])]
  /\ Typing(live, live')

HostChanged ==
  /\ forwards' = IF Connected THEN forwards ELSE {}
  /\ pending' = IF Connected THEN pending ELSE {}
  /\ live' = [w \in Ids |-> Follow(live[w])]
  /\ Typing(live, live')

PortForwarded(port, ok) ==
  LET mine == {p \in pending : p.port = port}
  IN /\ pending' = pending \ mine
     /\ forwards' = IF ok /\ Connected THEN forwards \cup mine ELSE forwards
     /\ UNCHANGED <<live, typed>>

PortClosed(port) ==
  /\ forwards' = {f \in forwards : f.port # port}
  /\ UNCHANGED <<live, pending, typed>>

\* App::on_identity, when the path is a repository
RepoIdentity(w) ==
  /\ live' = IF ~live[w].on THEN live
               ELSE [live EXCEPT ![w].git = IF Connected THEN "online" ELSE "offline"]
  /\ UNCHANGED <<forwards, pending, typed>>

HandleEvent ==
  /\ out # <<>>
  /\ out' = Tail(out) /\ handling' = (Tail(out) # <<>>)
  /\ LET e == Head(out)
     IN CASE e.kind = "Changed" -> HostChanged
          [] e.kind = "PortForwarded" -> PortForwarded(e.of, e.ok)
          [] e.kind = "PortClosed" -> PortClosed(e.of)
          [] e.kind = "RepoIdentity" -> RepoIdentity(e.of)
  /\ UNCHANGED <<conn, ports, workers, closed, open, asked, wanted>>

-----------------------------------------------------------------------------
(* The user *)

\* App::open_remote and remote_live: Manager::acquire connects, or shares what
\* another workspace connected
OpenRemote(w, run) ==
  /\ BetweenPolls /\ w \notin Live \cup closed
  /\ IF phase \in {"Disconnected", "Failed"} THEN Start("Connecting") ELSE UNCHANGED conn
  /\ workers' = workers \cup {[kind |-> "identify", of |-> v] : v \in {v \in {w} : Connected}}
  /\ live' = [live EXCEPT ![w] = IF Connected THEN Terminals(Fresh) ELSE [Fresh EXCEPT !.run = run]]
  /\ typed' = [typed EXCEPT ![w] = IF run /\ Connected THEN 1 ELSE 0]
  /\ wanted' = IF run THEN wanted \cup {w} ELSE wanted
  /\ UNCHANGED <<ports, out, handling, closed, forwards, pending, open, asked>>

\* App::finish_close and release_remote; the last workspace lets go of the host
CloseWorkspace(w) ==
  LET mine == {f.port : f \in {g \in forwards : g.of = w}} \cap ports
  IN /\ BetweenPolls /\ w \in Live
     /\ Patient => ~\E p \in pending : p.of = w
     /\ live' = [live EXCEPT ![w] = NotLive] /\ closed' = closed \cup {w}
     /\ workers' = workers \cup {[kind |-> "cancel", of |-> p] : p \in mine}
     /\ IF Live = {w} THEN GoDown({})
          ELSE ports' = ports \ mine /\ UNCHANGED <<conn, open>>
     /\ UNCHANGED <<out, handling, forwards, pending, asked, wanted, typed>>

\* The row menu.  send() emits no event: the app hears of it only from what
\* the workers report later
Disconnect ==
  /\ BetweenPolls /\ Live # {} /\ phase # "Disconnected" /\ GoDown({})
  /\ UNCHANGED <<workers, out, handling, shown, asked, wanted, typed>>

Reconnect ==
  /\ BetweenPolls /\ Live # {}
  /\ \/ phase \in {"Disconnected", "Failed"} /\ Start("Connecting")
     \/ phase = "Retrying" /\ Start("Lost")
  /\ UNCHANGED <<ports, workers, out, handling, shown, open, asked, wanted, typed>>

\* The ports popover
ForwardPort(w) ==
  /\ BetweenPolls /\ w \in Live /\ asked < MaxPorts
  /\ asked' = asked + 1
  /\ workers' = workers \cup {[kind |-> "forward", of |-> asked + 1, at |-> IF Connected THEN epoch ELSE 0]}
  /\ pending' = pending \cup {[of |-> w, port |-> asked + 1]}
  /\ UNCHANGED <<conn, ports, out, handling, live, closed, forwards, open, wanted, typed>>

StopPort(f) ==
  /\ BetweenPolls /\ f \in forwards /\ f.of \in Live /\ f.port \in ports
  /\ ports' = ports \ {f.port}
  /\ workers' = workers \cup {[kind |-> "cancel", of |-> f.port]}
  /\ UNCHANGED <<conn, out, handling, shown, open, asked, wanted, typed>>

-----------------------------------------------------------------------------
Workers ==
  \/ RetryDue
  \/ \E e \in running : Progress(e) \/ \E p \in {"Connected", "Retrying", "Failed", phase} : AttemptDone(e, p)
  \/ \E w \in workers : CancelDone(w) \/ IdentifyDone(w) \/ \E ok \in BOOLEAN : ForwardDone(w, ok)

User ==
  \/ Disconnect \/ Reconnect
  \/ \E w \in Ids : CloseWorkspace(w) \/ ForwardPort(w) \/ \E run \in BOOLEAN : OpenRemote(w, run)
  \/ \E f \in forwards : StopPort(f)

Next == HandleEvent \/ Workers \/ MasterDied \/ User
Spec == Init /\ [][Next]_vars

-----------------------------------------------------------------------------
Handled == out = <<>>
Settled == Handled /\ workers = {} /\ running = {}

\* While the host is connected, however often it was lost, every terminal of
\* every workspace runs on the connection there is.
TerminalsFollow ==
  Handled /\ Connected => \A w \in Live : live[w].spawned = epoch /\ live[w].panes = epoch

\* `--run` is typed once: not again when the terminals start over, and not
\* forgotten when they have not started yet.
RunIsTypedOnce ==
  \A w \in Ids :
    /\ typed[w] <= 1
    /\ w \in wanted /\ w \in Live /\ live[w].spawned # 0 => typed[w] = 1 /\ ~live[w].run

\* Git works while the host is connected and is paused while it is lost.
GitFollows ==
  Handled => \A w \in Live :
    /\ phase \in {"Lost", "Retrying", "Failed"} => live[w].git # "online"
    /\ Connected => live[w].git # "offline"

\* "Forwards are listed in the ports popover with a Stop button and closed on
\* workspace close": one that is open is listed, under a workspace that is
\* there to stop it, and a lost connection's are not listed.
ForwardsAreListed ==
  /\ Settled /\ Connected => \A p \in open : \E f \in forwards : f.port = p /\ f.of \in Live
  /\ Handled /\ phase \in {"Lost", "Retrying", "Failed"} => forwards = {}

\* The workspaces are in step with the connection.
HostIsFollowed == TerminalsFollow /\ RunIsTypedOnce /\ GitFollows

\* "Disconnect closes the terminals here; tmux keeps them on the host"
DisconnectCloses ==
  Settled /\ phase = "Disconnected" =>
    \A w \in Live : live[w].panes = 0 /\ live[w].git # "online"
=============================================================================
