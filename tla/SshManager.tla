----------------------------- MODULE SshManager -----------------------------
(***************************************************************************)
(* The Manager (src/ssh/manager.rs) and the connect steps its workers run  *)
(* (src/ssh/steps.rs), for one host.  Hosts share nothing but the channel, *)
(* so one is enough.                                                       *)
(*                                                                         *)
(* The UI thread calls the Manager and polls it; every ssh command runs on *)
(* a worker thread of its own and reports over the channel rx.  On the far *)
(* side are the ControlMaster, its reverse socket and port forwards, and   *)
(* the queue agents' hooks write to while that socket is down.             *)
(*                                                                         *)
(* Left out: Progress messages (they move the displayed step and collect   *)
(* warnings, which SshMachine covers), repo identities and tmux sessions   *)
(* (fire-and-forget commands that leave the Manager as it was).            *)
(***************************************************************************)
EXTENDS SshPhases, Sequences, FiniteSets

CONSTANTS
  Workspaces,   \* workspaces that may hold the host
  Ports,        \* port forwards the UI may ask for
  Events,       \* hook events agents on the host may raise
  MaxEpoch,     \* bound: epochs of one Machine
  MaxAttempts,  \* bound: connect attempts in a behaviour
  Patient       \* TRUE: the user starts no attempt while a worker is at work

ASSUME BoundsAssumption == MaxEpoch \in Nat /\ MaxAttempts \in Nat
ASSUME PatientAssumption == Patient \in BOOLEAN

VARIABLES
  host,      \* the Manager's entry for the host
  polling,   \* Manager::poll is between its first message and its end
  rx,        \* the channel: messages workers sent, oldest first
  attempts,  \* connect attempts running on workers
  started,   \* how many attempts have been started; numbers them
  closers,   \* CloseForwards workers that have not run yet
  probes,    \* probe workers that have not run yet
  openers,   \* ports whose forward_port worker has not run yet
  master,    \* the ControlMaster runs
  socket,    \* the reverse socket is open on the master
  opened,    \* port forwards open on the master
  refuses,   \* sshd refuses the reverse socket (AllowStreamLocalForwarding no)
  raised,    \* hook events raised so far
  queue,     \* hook events queued on the host
  delivered, \* hook events the UI was given
  dropped    \* hook events drained from the host and thrown away

worker == <<attempts, started, closers, probes, openers>>
remote == <<master, socket, opened, refuses>>
hooks == <<raised, queue, delivered, dropped>>
vars == <<host, polling, rx, worker, remote, hooks>>

-----------------------------------------------------------------------------
(* The Manager's entry.  An absent entry has the fields of a fresh one.     *)

Fresh ==
  [present |-> FALSE, machine |-> NewMachine, held |-> {}, session |-> "none",
   forwards |-> {}, probing |-> FALSE, in_flight |-> 0]

Sessions == {"none", "forwarded", "refused"}

(* The clock: every event but a retry happens at 0, and a poll is either    *)
(* before every retry is due or after.                                      *)
Early == 0
Late == BackoffCap

Done(id, epoch, outcome, status, drained) ==
  [type |-> "Done", id |-> id, epoch |-> epoch, outcome |-> outcome,
   session |-> status, drained |-> drained]
ProbeMsg(epoch, alive) == [type |-> "Probe", epoch |-> epoch, alive |-> alive]
DrainedMsg(drained) == [type |-> "Drained", drained |-> drained]
ForwardedMsg(port, ok) == [type |-> "Forwarded", port |-> port, ok |-> ok]

Outcomes == {"Connected", "HostKeyUnknown", "Fatal", "Retryable"}

Messages ==
  [type: {"Done"}, id: 1..MaxAttempts, epoch: 1..MaxEpoch, outcome: Outcomes,
   session: Sessions, drained: SUBSET Events]
    \cup [type: {"Probe"}, epoch: 1..MaxEpoch, alive: BOOLEAN]
    \cup [type: {"Drained"}, drained: SUBSET Events]
    \cup [type: {"Forwarded"}, port: Ports, ok: BOOLEAN]

TypeOK ==
  /\ host \in [present: BOOLEAN, machine: Machines, held: SUBSET Workspaces,
               session: Sessions, forwards: SUBSET Ports, probing: BOOLEAN,
               in_flight: 0..MaxEpoch]
  /\ polling \in BOOLEAN
  /\ rx \in Seq(Messages)
  /\ attempts \subseteq [id: 1..MaxAttempts, epoch: 1..MaxEpoch, trust: BOOLEAN,
                         at: {"Master", "Check", "Socket", "Drain"}, session: Sessions]
  /\ started \in 0..MaxAttempts
  /\ closers \subseteq [epoch: 0..MaxEpoch, tag: 0..MaxAttempts, socket: BOOLEAN,
                        forwards: SUBSET Ports]
  /\ probes \subseteq [epoch: 1..MaxEpoch, tag: 1..MaxAttempts, drains: BOOLEAN]
  /\ openers \subseteq Ports
  /\ {master, socket, refuses} \subseteq BOOLEAN /\ opened \subseteq Ports
  /\ raised \subseteq Events /\ queue \subseteq raised
  /\ delivered \subseteq raised /\ dropped \subseteq raised

Init ==
  /\ host = Fresh /\ polling = FALSE /\ rx = <<>>
  /\ attempts = {} /\ started = 0
  /\ closers = {} /\ probes = {} /\ openers = {}
  /\ master = FALSE /\ socket = FALSE /\ opened = {} /\ refuses \in BOOLEAN
  /\ raised = {} /\ queue = {} /\ delivered = {} /\ dropped = {}

-----------------------------------------------------------------------------
(* Manager::perform, for the result of Machine::handle on the entry h.      *)

IsStart(result) == result.action.kind = "Start"
IsClose(result) == result.action.kind = "CloseForwards"

(* The entry after the machine's answer: a Start is in flight, and          *)
(* CloseForwards takes the forwards and the session along.                  *)
Performed(h, result) ==
  [h EXCEPT !.machine = result.machine,
            !.in_flight = IF IsStart(result) THEN result.action.epoch ELSE @,
            !.session = IF IsClose(result) THEN "none" ELSE @,
            !.forwards = IF IsClose(result) THEN {} ELSE @]

NewAttempt(action) ==
  [id |-> started + 1, epoch |-> action.epoch, trust |-> action.trust,
   at |-> "Master", session |-> "none"]

Closer(h) ==
  [epoch |-> h.machine.epoch, tag |-> started,
   socket |-> h.session # "none", forwards |-> h.forwards]

(* The workers it spawns.  A closer with nothing to close does nothing.     *)
Spawns(h, result) ==
  /\ result.machine.epoch <= MaxEpoch
  /\ IsStart(result) => started < MaxAttempts
  /\ attempts' = IF IsStart(result) THEN attempts \cup {NewAttempt(result.action)}
                                    ELSE attempts
  /\ started' = IF IsStart(result) THEN started + 1 ELSE started
  /\ closers' = IF IsClose(result) /\ (h.session # "none" \/ h.forwards # {})
                  THEN closers \cup {Closer(h)} ELSE closers

(* Manager::reap, and Manager::held.                                        *)
Held(h) == h.held # {}
Reaped(h) == IF Held(h) \/ h.in_flight # 0 THEN h ELSE Fresh

(* Manager::probe: one at a time, and only while connected.                 *)
MayProbe(h) == h.present /\ ~h.probing /\ IsConnected(h.machine)
ProbeWorker_LeavesQueue(h) ==
  [epoch |-> h.machine.epoch, tag |-> started, drains |-> FALSE]
ProbeWorker(h) ==
  [epoch |-> h.machine.epoch, tag |-> started, drains |-> h.session = "refused"]

-----------------------------------------------------------------------------
(* Calls from the UI thread, between polls.                                 *)

AtWork == attempts # {} \/ closers # {} \/ probes # {} \/ openers # {} \/ rx # <<>>
MayCall == ~polling /\ (Patient => ~AtWork)

Acquire(w) ==
  /\ MayCall
  /\ w \notin host.held
  /\ LET h == [host EXCEPT !.present = TRUE, !.held = @ \cup {w}]
         result == IF IsConnected(h.machine) THEN Ignored(h.machine)
                                             ELSE OnConnect(h.machine)
     IN host' = Performed(h, result) /\ Spawns(h, result)
  /\ UNCHANGED <<polling, rx, probes, openers, remote, hooks>>

(* The last workspace to let go disconnects, whatever the phase.            *)
Disconnects(h) == IF Held(h) THEN Ignored(h.machine) ELSE OnCancel(h.machine)

Release(w) ==
  /\ ~polling
  /\ w \in host.held
  /\ LET h == [host EXCEPT !.held = @ \ {w}]
     IN host' = Reaped(Performed(h, Disconnects(h))) /\ Spawns(h, Disconnects(h))
  /\ UNCHANGED <<polling, rx, probes, openers, remote, hooks>>

(* trust, cancel, retry_now and disconnect only pass the event on.  The UI  *)
(* offers them for held hosts.                                              *)
Send(result) ==
  /\ Held(host)
  /\ host' = Performed(host, result)
  /\ Spawns(host, result)
  /\ UNCHANGED <<polling, rx, probes, openers, remote, hooks>>

Trust == MayCall /\ IsKind(host.machine, {"HostKeyUnknown"}) /\ Send(OnTrust(host.machine))
RetryNow == MayCall /\ Send(OnRetryNow(host.machine))
Cancel == ~polling /\ Send(OnCancel(host.machine))

(* Manager::probe called by the UI (a git command failed with ssh's 255).   *)
Probe ==
  /\ ~polling
  /\ MayProbe(host)
  /\ host' = [host EXCEPT !.probing = TRUE]
  /\ probes' = probes \cup {ProbeWorker(host)}
  /\ UNCHANGED <<polling, rx, attempts, started, closers, openers, remote, hooks>>

(* forward_port draws a free local port: none that is still spoken for.     *)
InChannel(type) == {rx[i] : i \in {j \in 1..Len(rx) : rx[j].type = type}}

InUse(p) ==
  \/ p \in openers \cup opened \cup host.forwards
  \/ \E msg \in InChannel("Forwarded") : msg.port = p
  \/ \E c \in closers : p \in c.forwards

ForwardPort(p) ==
  /\ ~polling
  /\ Held(host)
  /\ ~InUse(p)
  /\ openers' = openers \cup {p}
  /\ UNCHANGED <<host, polling, rx, attempts, started, closers, probes, remote, hooks>>

CancelPort(p) ==
  /\ ~polling
  /\ p \in host.forwards
  /\ host' = [host EXCEPT !.forwards = @ \ {p}]
  /\ closers' = closers \cup {[epoch |-> host.machine.epoch, tag |-> started,
                               socket |-> FALSE, forwards |-> {p}]}
  /\ UNCHANGED <<polling, rx, attempts, started, probes, openers, remote, hooks>>

-----------------------------------------------------------------------------
(* Manager::poll.  It applies every message there is, then reaps, starts a  *)
(* due retry and probes; workers may send in between, the UI cannot call.   *)

Apply ==
  /\ rx # <<>>
  /\ rx' = Tail(rx)
  /\ polling' = TRUE

(* The outcome reaches the machine only if there still is an entry.         *)
DoneResult(m, msg) ==
  CASE msg.outcome = "Connected"      -> OnConnected(m, msg.epoch)
    [] msg.outcome = "HostKeyUnknown" -> OnHostKeyUnknown(m, msg.epoch)
    [] msg.outcome = "Fatal"          -> OnFailed(m, msg.epoch, "Tools", TRUE, Early)
    [] msg.outcome = "Retryable"      -> OnFailed(m, msg.epoch, "Tools", FALSE, Early)

(* Whose session is kept: the current attempt's, and a cancelled one's, so  *)
(* the CloseForwards its late success triggers knows what to close.         *)
KeepsSession_OnlyCurrent(h, msg) ==
  msg.outcome = "Connected" /\ h.present /\ msg.epoch = h.machine.epoch
KeepsSession(h, msg) ==
  /\ msg.outcome = "Connected"
  /\ h.present
  /\ msg.epoch = h.machine.epoch \/ h.machine.phase = Disconnected

(* Only the attempt in flight can land.                                     *)
Settled_AnyEpoch(h, msg) == [h EXCEPT !.in_flight = 0]
Settled_OnlyCurrent(h, msg) ==
  [h EXCEPT !.in_flight = IF msg.epoch = h.machine.epoch THEN 0 ELSE @]
Settled(h, msg) ==
  [h EXCEPT !.in_flight = IF @ = msg.epoch THEN 0 ELSE @]

ApplyDone ==
  /\ Apply
  /\ Head(rx).type = "Done"
  /\ LET msg == Head(rx)
         h == [Settled(host, msg) EXCEPT
                 !.session = IF KeepsSession(host, msg) THEN msg.session ELSE @]
         result == DoneResult(h.machine, msg)
     IN /\ IF host.present
             THEN host' = Performed(h, result) /\ Spawns(h, result)
             ELSE UNCHANGED <<host, attempts, started, closers>>
        /\ IF KeepsSession(host, msg)
             THEN delivered' = delivered \cup msg.drained /\ UNCHANGED dropped
             ELSE dropped' = dropped \cup msg.drained /\ UNCHANGED delivered
  /\ UNCHANGED <<probes, openers, remote, raised, queue>>

(* The probe is over even when its answer is stale.                         *)
Probed_CurrentOnly(h, msg) ==
  [h EXCEPT !.probing = @ /\ msg.epoch # h.machine.epoch]
Probed(h, msg) == [h EXCEPT !.probing = FALSE]

(* Port forwards die with the master; a reconnect does not reopen them.     *)
Bereft(h) == [h EXCEPT !.forwards = {}]

ApplyProbe ==
  /\ Apply
  /\ Head(rx).type = "Probe"
  /\ LET msg == Head(rx)
         h == Probed(host, msg)
         dead == ~msg.alive /\ msg.epoch = h.machine.epoch /\ IsConnected(h.machine)
         result == OnMasterDied(h.machine, Early)
     IN IF host.present /\ dead
          THEN /\ host' = Performed(Bereft(h), result)
               /\ Spawns(h, result)
          ELSE /\ host' = IF host.present THEN h ELSE host
               /\ UNCHANGED <<attempts, started, closers>>
  /\ UNCHANGED <<probes, openers, remote, hooks>>

ApplyDrained ==
  /\ Apply
  /\ Head(rx).type = "Drained"
  /\ delivered' = delivered \cup Head(rx).drained
  /\ UNCHANGED <<host, worker, remote, raised, queue, dropped>>

(* A forward that opened after the host went offline is closed again.       *)
Lists(h) == h.present /\ IsConnected(h.machine)

ApplyForwarded ==
  /\ Apply
  /\ Head(rx).type = "Forwarded"
  /\ LET p == Head(rx).port
         open == Head(rx).ok
     IN /\ host' = IF open /\ Lists(host) THEN [host EXCEPT !.forwards = @ \cup {p}] ELSE host
        /\ closers' = IF open /\ ~Lists(host)
                        THEN closers \cup {[epoch |-> host.machine.epoch, tag |-> started,
                                            socket |-> FALSE, forwards |-> {p}]}
                        ELSE closers
  /\ UNCHANGED <<attempts, started, probes, openers, remote, hooks>>

(* The end of a poll at time t; due says whether next_probe has passed.     *)
PollEnd(t, due) ==
  /\ rx = <<>>
  /\ polling' = FALSE
  /\ LET reaped == Reaped(host)
         result == OnTick(reaped.machine, t)
         h == Performed(reaped, result)
         probe == due /\ MayProbe(h)
     IN /\ Spawns(reaped, result)
        /\ host' = IF probe THEN [h EXCEPT !.probing = TRUE] ELSE h
        /\ probes' = IF probe THEN probes \cup {ProbeWorker(h)} ELSE probes
  /\ UNCHANGED <<rx, openers, remote, hooks>>

Poll ==
  \/ ApplyDone
  \/ ApplyProbe
  \/ ApplyDrained
  \/ ApplyForwarded
  \/ \E t \in {Early, Late}, due \in BOOLEAN : PollEnd(t, due)

-----------------------------------------------------------------------------
(* steps::connect on a worker: one ssh command with an effect per step.     *)

MovesTo(a, step, session) ==
  /\ attempts' = (attempts \ {a}) \cup {[a EXCEPT !.at = step, !.session = session]}
  /\ UNCHANGED <<host, polling, rx, started, closers, probes, openers>>

Reports(a, outcome, drained) ==
  /\ attempts' = attempts \ {a}
  /\ rx' = Append(rx, Done(a.id, a.epoch, outcome, a.session, drained))
  /\ UNCHANGED <<host, polling, started, closers, probes, openers>>

(* Step Master: reuse a live master, or open one; otherwise ssh says why.   *)
OpenMaster_AssumesSocket(a) ==
  /\ a.at = "Master"
  /\ master' = TRUE
  /\ IF master THEN MovesTo(a, "Drain", "forwarded") ELSE MovesTo(a, "Check", "none")
  /\ UNCHANGED <<socket, opened, refuses, hooks>>
OpenMaster(a) ==
  /\ a.at = "Master"
  /\ master' = TRUE
  /\ MovesTo(a, "Check", "none")
  /\ UNCHANGED <<socket, opened, refuses, hooks>>

MasterRefused(a) ==
  /\ a.at = "Master" /\ ~master
  /\ \E outcome \in {"Fatal", "Retryable"}
                      \cup (IF a.trust THEN {} ELSE {"HostKeyUnknown"}) :
       Reports(a, outcome, {})
  /\ UNCHANGED <<remote, hooks>>

(* Steps Cli and Tools change nothing the Manager keeps.  ssh's 255 (the    *)
(* master is gone) is retried, any other failure is the host's answer.      *)
CheckHost(a) ==
  /\ a.at = "Check"
  /\ \/ master /\ MovesTo(a, "Socket", "none")
     \/ Reports(a, IF master THEN "Fatal" ELSE "Retryable", {})
  /\ UNCHANGED <<remote, hooks>>

(* Step Socket: remove a stale socket file, then forward, or queue mode.    *)
ForwardSocket(a) ==
  /\ a.at = "Socket"
  /\ IF master
       THEN /\ socket' = ~refuses
            /\ MovesTo(a, "Drain", IF refuses THEN "refused" ELSE "forwarded")
       ELSE Reports(a, "Retryable", {}) /\ UNCHANGED socket
  /\ UNCHANGED <<master, opened, refuses, hooks>>

(* Step Drain: take the queue, or (no CLI, or the drain failed) leave it    *)
(* and connect with a warning.                                              *)
DrainQueue(a) ==
  /\ a.at = "Drain"
  /\ IF master
       THEN \/ Reports(a, "Connected", queue) /\ queue' = {}
            \/ Reports(a, "Connected", {}) /\ UNCHANGED queue
       ELSE Reports(a, "Retryable", {}) /\ UNCHANGED queue
  /\ UNCHANGED <<remote, raised, delivered, dropped>>

AttemptStep(a) ==
  \/ OpenMaster(a) \/ MasterRefused(a) \/ CheckHost(a) \/ ForwardSocket(a)
  \/ DrainQueue(a)

-----------------------------------------------------------------------------
(* The other workers.                                                       *)

(* CloseForwards and cancel_port: on a dead master they change nothing.     *)
CloserRuns(c) ==
  /\ closers' = closers \ {c}
  /\ socket' = (socket /\ ~c.socket)
  /\ opened' = opened \ c.forwards
  /\ UNCHANGED <<host, polling, rx, attempts, started, probes, openers,
                 master, refuses, hooks>>

(* ssh -O check; in queue mode a live host's queue is collected as well,    *)
(* unless that drain fails.                                                 *)
ProbeDone(p, messages) ==
  /\ probes' = probes \ {p}
  /\ rx' = rx \o messages
  /\ UNCHANGED <<host, polling, attempts, started, closers, openers, remote,
                 raised, delivered, dropped>>

ProbeCollects(p) ==
  /\ master /\ p.drains /\ queue # {}
  /\ ProbeDone(p, <<DrainedMsg(queue), ProbeMsg(p.epoch, TRUE)>>)
  /\ queue' = {}

ProbeAnswers(p) == ProbeDone(p, <<ProbeMsg(p.epoch, master)>>) /\ UNCHANGED queue

ProbeRuns(p) == ProbeCollects(p) \/ ProbeAnswers(p)

(* ssh -O forward: never on a dead master, and a live one may refuse it.    *)
OpenerRuns(p) ==
  /\ openers' = openers \ {p}
  /\ \E ok \in (IF master THEN BOOLEAN ELSE {FALSE}) :
       /\ opened' = IF ok THEN opened \cup {p} ELSE opened
       /\ rx' = Append(rx, ForwardedMsg(p, ok))
  /\ UNCHANGED <<host, polling, attempts, started, closers, probes, master,
                 socket, refuses, hooks>>

Workers ==
  \/ \E a \in attempts : AttemptStep(a)
  \/ \E c \in closers : CloserRuns(c)
  \/ \E p \in probes : ProbeRuns(p)
  \/ \E p \in openers : OpenerRuns(p)

-----------------------------------------------------------------------------
(* The host: its master dies, or ControlPersist ends it, and its forwards   *)
(* with it; an agent's hook raises an event, which reaches the app over the *)
(* socket or is queued.                                                     *)

MasterDies ==
  /\ master
  /\ master' = FALSE /\ socket' = FALSE /\ opened' = {}
  /\ UNCHANGED <<host, polling, rx, worker, refuses, hooks>>

RaiseEvent(e) ==
  /\ e \notin raised
  /\ raised' = raised \cup {e}
  /\ IF socket THEN delivered' = delivered \cup {e} /\ UNCHANGED queue
               ELSE queue' = queue \cup {e} /\ UNCHANGED delivered
  /\ UNCHANGED <<host, polling, rx, worker, remote, dropped>>

-----------------------------------------------------------------------------
UI ==
  \/ \E w \in Workspaces : Acquire(w) \/ Release(w)
  \/ Trust \/ RetryNow \/ Cancel \/ Probe
  \/ \E p \in Ports : ForwardPort(p) \/ CancelPort(p)

Next ==
  \/ UI
  \/ Poll
  \/ Workers
  \/ MasterDies
  \/ \E e \in Events : RaiseEvent(e)

Spec == Init /\ [][Next]_vars

(* The UI polls every frame, whatever else it is asked to do, and time      *)
(* passes; spawned threads run; a drain does not fail every time.           *)
Fairness ==
  /\ WF_vars(ApplyDone \/ ApplyProbe \/ ApplyDrained \/ ApplyForwarded)
  /\ SF_vars(PollEnd(Late, TRUE))
  /\ \A i \in 1..MaxAttempts :
       WF_vars(\E a \in attempts : a.id = i /\ AttemptStep(a))
  /\ WF_vars(\E c \in closers : CloserRuns(c))
  /\ WF_vars(\E p \in probes : ProbeRuns(p))
  /\ SF_vars(\E p \in probes : ProbeCollects(p))
  /\ \A p \in Ports : WF_vars(p \in openers /\ OpenerRuns(p))

FairSpec == Spec /\ Fairness

-----------------------------------------------------------------------------
(* Properties.                                                              *)

(* A host that shows "connecting" is waiting for something that will come:  *)
(* the attempt of its epoch runs on a worker or has its outcome in the      *)
(* channel, and the Manager knows it is in flight.                          *)
NeverStuck ==
  IsKind(host.machine, Busy) =>
    /\ host.in_flight = host.machine.epoch
    /\ \/ \E a \in attempts : a.epoch = host.machine.epoch
       \/ \E msg \in InChannel("Done") : msg.epoch = host.machine.epoch

(* A host no workspace holds stays disconnected, whatever its old attempts, *)
(* probes and forwards still report.                                        *)
HiddenIsIdle == ~Held(host) => host.machine.phase = Disconnected

(* What a host shows is what goes on: it does not show "connecting" with    *)
(* nothing under way, nor connect again after its last workspace released   *)
(* it (Machine::handle, Manager::apply and Manager::release together).      *)
ShownIsUnderWay == NeverStuck /\ HiddenIsIdle

(* Every port forward open on the master is listed for its Stop button, is  *)
(* about to be, or is about to be closed: none is left behind.              *)
NoLeakedPorts ==
  \A p \in opened :
    \/ p \in host.forwards
    \/ \E msg \in InChannel("Forwarded") : msg.port = p
    \/ \E c \in closers : p \in c.forwards

(* "A released host whose connect attempt is still running stays (hidden)   *)
(* until that attempt reports" (manager.rs:11).                             *)
ReleasedStays == attempts # {} \/ InChannel("Done") # {} => host.present

(* What an attempt or a probe drained from the host reaches the UI.         *)
DrainedIsDelivered == dropped = {}

(* Once every worker is done, a host shown as connected with a forwarded    *)
(* socket has it (until its master dies), so hooks on it reach the app.     *)
HooksReachApp ==
  IsConnected(host.machine) /\ host.session = "forwarded" /\ master /\ ~AtWork
    => socket

(* A reverse socket open on the host belongs to a session that will close   *)
(* it, or an attempt or a closer is still under way that may.               *)
NoLeakedSocket ==
  socket =>
    \/ host.session # "none"
    \/ attempts # {}
    \/ \E msg \in InChannel("Done") : msg.outcome = "Connected"
    \/ \E c \in closers : c.socket

(* Every port forward listed is open, unless the master's death has not     *)
(* been noticed yet or its Stop is under way.                               *)
ListedPortsAreOpen == master => host.forwards \subseteq opened

(* What is open on the host and what the Manager thinks is open agree.      *)
NothingLeaks == NoLeakedSocket /\ NoLeakedPorts /\ ListedPortsAreOpen

(* A dead master is noticed: the host does not stay connected to it.        *)
Room == started < MaxAttempts /\ host.machine.epoch < MaxEpoch

DeathIsNoticed ==
  (IsConnected(host.machine) /\ ~master /\ Room)
    ~> (~IsConnected(host.machine) \/ master \/ ~Room)

(* Events that queued while connected in queue mode are collected.          *)
QueueIsCollected ==
  (queue # {} /\ IsConnected(host.machine) /\ host.session = "refused" /\ master)
    ~> (queue = {} \/ ~IsConnected(host.machine) \/ ~master)

(* A released host is closed and forgotten.                                 *)
ReleasedIsForgotten ==
  ~Held(host) ~> Held(host) \/ (host = Fresh /\ ~socket /\ opened = {})

(* Manager::reap forgets a released host at last, but never before the      *)
(* attempt it still has under way has reported.                             *)
KeptThenForgotten == []ReleasedStays /\ ReleasedIsForgotten
=============================================================================
