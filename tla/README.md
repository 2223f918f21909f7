# Amalgum in TLA+

Amalgum (`src/`) is a desktop workspace shell: terminals running coding agents, a
git client, and remote hosts over the system `ssh`. This directory holds TLA+
models of the parts of it that keep state and meet concurrency, the TLC runs that
check them on small instances, and proofs, checked by TLAPS, that hold for every
instance. Paths below are relative to the repository.

## 1. The system

One UI thread (egui) owns all state. It never blocks: git, ssh, sockets and disk
run on worker threads that report over channels, and the UI applies the reports
once per frame. Beside the app there are command-line processes (`amalgum ...`,
run by agents' hooks, locally or on a remote host) that talk to it over a Unix
socket, or leave their events in a queue file while the socket is down.

| Component | State | Operations | Hard because |
|---|---|---|---|
| connection machine `src/ssh/state.rs` | phase, epoch, backoff, pending warnings, last error | one `handle(event, now)` | reports of cancelled attempts arrive during later ones; retries |
| ssh manager `src/ssh/manager.rs`, `steps.rs` | per host: machine, holders, session, forwards, probing, in_flight; the channel; the master and its forwards on the host | acquire, release, trust, cancel, retry, disconnect, probe, forward/cancel port, poll; workers | every ssh command is a thread; closers, probes and attempts race; a released host is kept until its attempt reports |
| control socket `src/ctl/socket.rs` | socket file, lock file, accept thread, identity | serve, drop, accept | several processes check, unlink and bind one path; inode reuse; crashes |
| hook queue `src/ctl/queue.rs` | queue file, renamed files, lock | append, drain | processes killed anywhere; two drains at once |
| journal `src/git/journal.rs`, and `src/ui/git_pane/` where it records | undo and redo entries, the file, busy flags | record, undo, redo, settle | the journal is away in a worker while the user works on; others move the repository |
| git pane `src/ui/git_pane/` | generation, status, refs, log, graph; the diff shown; the running job, its toasts and forms; the session of a stopped rebase | refresh, poll, scroll, stage, fetch, pull, push, rebase | replies arrive after the pane moved on; the repository moves under a plan, a diff, a question |
| git commands `src/git/{cmd,ops,net,rebase,diff}.rs` | child processes, plan files | run, stream, cancel, classify failures, build patches | cancel races exit; git calls the app back as its editor; a patch lands where it matches |
| graph layout `src/git/graph.rs` | lanes | push a commit | merges, freed lanes, no row revisited |
| agents `src/agent/` | status per terminal, notification panel, escape scanner | report, mark read, evict, scan | sources disagree and come late; caps; sequences cut between reads |
| saved state, sidebar, tabs `src/model/{state,layout}.rs`, `src/ui/app/` | `state.json`, the tree of workspaces, trees of splits, who runs | open, resolve, identify, move, close, forget; split, close; save | answers for a workspace that has gone; long sequences of legal calls; crashes |
| remote workspaces `src/ui/app/remote.rs` | per workspace: terminals, git, `--run`; forwards listed | apply the manager's events | the events tell less than what happened by the time they are read |
| parsers, tables, drawing, platform | none, or data | | not a state machine |

How they interact: the app calls the manager (acquire, release, ...) and polls it;
the manager drives one connection machine per host and runs `steps::connect` on a
worker, which drains the host's hook queue; hooks on that host reach the control
socket through the reverse forward the connect opened, or append to the queue. The
control socket's requests, drained events and terminal escapes become agent status
and notifications. The git pane runs git locally or through the host's master; ssh's
exit 255 from it makes the app ask the manager for a probe.

What makes each one correct, in short: the machine's phase is its latest attempt's;
no host waits for an attempt that will not report; nothing opened on a host is left
open by nobody; a drained event reaches the user; one app answers on the socket; no
appended event is lost, reordered or delivered twice except in a killed drain; undo
never crosses a change it does not know; a reply of an older request changes nothing.

## 2. Modules

| Module | Models |
|---|---|
| `SshPhases` | `Machine::handle` as pure operators: each returns the new machine and the action. Shared by the next two. |
| `SshMachine` | one machine, a clock and any number of overlapping attempts: a report of any epoch may come at any time |
| `SshMachineProofs` | its theorems, from `SshPhasesProofs`, the lemmas about `SshPhases` |
| `SshManager` | the manager's entry for one host, its channel and workers, and the far side: master, reverse socket, forwards, queued events |
| `SshManagerProofs` | its theorems: the manager's bookkeeping, and what is open on the host |
| `SingleInstance` | abstract: one primary process at a time |
| `ControlSocket` | `serve()`, `drop()` and `accept_loop()` of several processes, one action per system call another process can see |
| `ControlSocketProofs` | its theorems |
| `HookFifo` | abstract: a queue that hands events out once, oldest first, and may lose what a killed drain held |
| `HookQueue` | the files behind it: append and drain of several processes |
| `HookQueueProofs` | the theorems about `HookQueue`, and that it implements `HookFifo` |
| `GitJournal` | the git pane's undo journal, the jobs that record in it, undo and redo on their worker, and other programs on the same repository |
| `GitJournalProofs` | its theorems |
| `StateFile` | `state.json`: the saver thread, the last save of a quit, crashes and restarts |
| `Workspaces` | the sidebar's tree, the active workspace and those that run |
| `Tabs` | one workspace's tabs of split panes, their terminals and status trackers |
| `AgentStatus` | one terminal's status among its sources, and the notification panel |
| `RemoteWorkspaces` | the app's side of a host: terminals, git panes, typed commands and port forwards |
| `OscScanner` | the scanner for escape sequences, a read at a time |
| `MCApp` | the six models above in one run |
| `MCAppProofs` | the theorems about `StateFile`, `AgentStatus` and `RemoteWorkspaces`, of that run's specification |
| `PaneRefresh` | the git pane's status, refs and log against a repository that moves |
| `GraphLanes` | the lanes of the commit graph |
| `HunkStaging` | a file in HEAD, index and worktree, a diff on screen, and the patches made from it |
| `RebaseRun` | the interactive rebase: plan, editors, stops, probe, journal |
| `SyncJobs` | fetch, pull and push: jobs, cancel, toasts, forms, the push that follows a pull |
| `MCGit` | the five modules above in one run |
| `MCGitProofs` | the theorems about `SyncJobs`, `RebaseRun`, `GraphLanes` and `PaneRefresh`, of that run's specification |

`MCApp` and `MCGit` check modules that share no state: a variable `part` says which of them moves,
so the run costs the sum of the parts and not their product.

### SshPhases, SshMachine

One operator per event (`OnConnect`, `OnTick`, `OnConnected`, ...), whose guards are
the arms of `handle` in order; `Then(machine, action)` is its return value and
`Ignored` the last arm. The host-key prompt and error texts are left out;
`last_error` holds the epoch of the attempt whose error it is. Warnings are model
values and form a set (the code keeps them in order without duplicates). The clock
`now` is seconds; `U64Max` is a small number so that saturation happens.
`attempts[e]` is what the world knows of the attempt of epoch `e`, and what the
properties compare the machine with.

### SshManager

Hosts share only the channel, so the model has one. An absent entry has the fields
of a fresh one, as `acquire` creates it. `rx` is the channel. `polling` is true
inside `Manager::poll`, which applies messages one by one: workers run in between,
the UI does not. Each worker kind is a set of records; `CloserRuns` and `OpenerRuns` are
one step because a closer's commands commute with everything but the socket's, and
an attempt is one step per ssh command with an effect (`Master`, the checks,
`Socket`, `Drain`). A worker's last command and its `send` are one step, which loses
no behaviour: nothing of the manager is read between them. The far side is
nondeterministic: the master dies at any time, `refuses` says whether sshd allows
the reverse socket, any check may fail, an agent raises an event at any time.

Left out: `Progress` messages (SshMachine), repository identities, `kill_sessions`
and `end_session` (commands that leave the manager as it was), `Drop` of the manager
on quit. `ForwardPort` draws a port that nothing still speaks for, as the kernel's
ephemeral ports do.

`Patient` restricts the user, not the code: TRUE is a user who starts no attempt while
any worker is at work, but still cancels and releases at any time. Five promises
of the documentation hold for that user and not for every user; section 4 lists what
goes wrong otherwise.

### ControlSocket, SingleInstance

`pc` is the place in `serve()` or `drop()`. A connection finds the process that
listens on the inode the path names. `Bind` may draw any inode that no open
listener holds, so an unlinked file's number comes back, which is what the comment
in `drop()` is about. `Crash` closes what the process held and leaves the file.
`LocksFail` says whether opening the lock file may fail in `drop()`, which goes on.

### HookQueue, HookFifo

Files have an identity apart from their names, so a write to a file that was renamed
meanwhile goes where it would go. `Read` and `RemoveFile` are the two halves of
`take_lines`. Directory order is by last write, which is what the modification times
say. Torn lines (a full disk) and other I/O errors are left out.

Two drains may overlap (`overlapped`): each then prints in order what it took, but
between the two the order is open, and `HookFifo` is implemented up to the
first overlap.

### GitJournal

The repository is reduced to what the journal's guard compares: HEAD, a number no
other state has, and whether an operation is stopped in it. A job is a thread that
reads HEAD, runs git and reads HEAD again, a step each, with anything of other programs
in between. `jobs` holds it until its reply is applied. Five kinds differ in what they
wait for when they start (`StartOp`, `StartOwn`, `StartSync`, `StartUpstream`) and in
how their reply records (`RecordsJob` at once, `Flushes` through `waiting`, and
`ApplyFinished`). `StartUndo` empties the journal and gives it to the worker, as
`mem::take` does; `ApplyUndo` puts the worker's back. `crossed`, in the undo's record,
remembers that HEAD moved between its guard and its plan, which the code does not look at again. `strayed` remembers that someone
else (or half an undo plan) moved the repository, after which nobody promises that the journal
describes it. `given` is what the journal was given and has not dropped by the
cap or by a newer entry.

A list of operations (deleting several branches) is modelled as its first one, the
rebase as an operation that does not stop, and the confirmation of a lossy undo is left
out. `Careful` restricts the user, not the code: TRUE is a user who starts nothing
while a job, a stopped operation or (but for an upstream change) an undo is under way.

### StateFile

A state is the number of its last change; file contents are a state or `Half`, and files have an identity
apart from their names, so the saver and `on_exit` meet in the temporary file they share. `mem` goes over
the channel to the saver (`Persist`, once per frame), which drains it to the newest and then opens,
writes and renames, a step each. `Crash` stops it anywhere. `Quiet` is a user who quits only once the
last change is saved; section 4 says what happens otherwise.

### Workspaces, Tabs

`repos` is the tree, `place` the folder of each workspace, `live` those with running terminals. What the
app does in a worker and applies later is two actions (`OpenLocal` and `Opened`, `OpenRemote` and
`Identified`), with anything in between. `Rehomed`, `Gone` and `Heir` are the operators behind
`rehome_workspace`, `remove_workspace` and `forget_repo`, empty groups and the active workspace included.
A tree of splits is a function from the places of its leaves (sequences of turns) to panes, which makes
closing a pane one comprehension. A hook event is raised by a terminal and read later, perhaps
after its pane was closed and its number given to another; `late` holds the keys for which that
happened, about which `StatusesAreTheirs` says nothing. `Tabs` is a local workspace. A remote one's terminals are
cleared when its host is disconnected and all run again on the next connection, while `live.trackers` is kept
(`remote.rs:323`), so there a status may be of a terminal that is gone: that clause is about local workspaces only.

### AgentStatus, OscScanner

`Accepts` is the rule of `Tracker::observe`. The reports are kept as history, to say which of them
should stand. Times are those the reports carry, so a report drained from a host's queue may be older than
those before it. In `OscScanner` each action is a read, and the property compares what came out with a definition of
what the whole stream says that knows nothing of reads or of the scanner's state. What it says of the three odd
inputs named in section 4 is what the code makes of them.

### RemoteWorkspaces

The connection is a phase, an epoch and the workers that will answer; `out` holds the events that one
`poll` returned and the app handles one by one, each reading the connection as it is by then
(`HandleEvent`). `HostChanged` is `host_changed` for all workspaces of the host. `spawned`, `panes` and `git`
say on which epoch a workspace's terminals were asked for and run, and how its git pane takes itself.
`Patient`: a forward is answered before its workspace is closed, and fails once its connection is gone.

### PaneRefresh

The repository is the number of its newest commit. A read is a job: it is dispatched, git runs at some
point (`Reads`: that is when it sees the repository) and its reply is applied or dropped later, in any
order; what a job of an older generation reads is left open, since its reply is dropped. `Refetch` is
`maybe_refetch_log`, `OnLogPage` `apply_log_page`, which appends the rows past those it has. `Careful`
lists four things that do not happen, named and explained in the module; without any one of them the
property fails (section 4).

### GraphLanes

`Row` is `Layout::push` for one commit. `lines` and `met` are what a reader of the picture sees: the lanes in which
each commit's lines are, followed from row to row by the segments drawn alone, and the commits in which they ended.

### HunkStaging

A line has a text, a newline or none, and an identity git does not see. `Script` is `git diff`, `Patch` is
`patch_for` (which lines become context, the newline at the end, the side whose line number it
starts at, the header that creates or deletes a file), and `Matches`, `Place` and `Applied` are `git apply`'s
search for the nearest place. The identities tell whether the lines that went or came are those picked.
Any range of lines of a hunk is taken, as `patch_for` allows; the buttons take all of it.

### RebaseRun

A commit is the set of original commits it holds and what it says. A plan is made from a range read earlier.
`GitBegins` is `git rebase -i` calling the app back as its sequence editor, `Edited` the app as its message editor,
which looks the message up by the step git is on. git's own loop (`GitSteps`, `GitEnds`, `Prompts`) is
external. `by` is who runs it, and `helped` whether every part of it ran with the helpers. Start,
continue, abort and probe are workers whose replies come later. `Calm` restricts the user, not the code: TRUE is a
user who makes a plan only once no reply or probe of the last rebase is on its way; section 4 says what goes wrong otherwise.
`Later` bounds what the plans after the first may do, nothing else.

### SyncJobs

`running` is the one job and its cancel flag; `git` its process: `new`, `runs`, `dying` (signalled) or how it ended;
`reply` what the worker posts. `prompt`, `form` and `confirm` are questions that stay open while other things happen.
`asked` and `follows` are history: whether the user means a push to happen, and whether a pull is the one that "Pull then
push" asked for. `Careful`: no answer while a job runs, and no new request while a question is open.

## 3. The runs

All runs and their properties are listed in `PROJECT.json`; this is what they show and
why their bounds are enough. Every passing run is exhaustive within its bounds.

| Run | Shows | Bounds |
|---|---|---|
| `machine` | the phase is the latest attempt's; warnings, banner and trust are that attempt's; the retry schedule doubles, saturates and restarts; an outage keeps its start and count; retries are made, attempts settle | 3 epochs: the current attempt, a cancelled one, and one before it whose reports are older than both. The cap 4 and the maximum 5 make the doubling reach both in three retries |
| `manager_user` | any user: a host that shows connecting waits for an attempt that will report, a host nobody holds is idle, a dead master is noticed | 3 attempts overlap, 4 epochs, so one is forgotten while two others run |
| `manager_patient` | a user who starts no attempt while workers are busy: nothing drained is lost, nothing leaked, hooks work, the queue is collected, a released host is forgotten | 2 attempts, one port, one event; more of them meet no other code |
| `socket` | two apps launch, quit and crash in any order: the winner is reached, nobody's live socket is unlinked, they refine `SingleInstance`, every launch and quit ends | 2 apps are a race; 3 inodes let numbers be reused and not be reused |
| `queue` | appends are kept, delivered once, in order while drains do not overlap, and they do come out | 2 writers and 2 drains race each other; 3 files are the queue and two leftovers; one drain may be killed |
| `journal` | the journal keeps what it was given, its undone entries are the newest, it tells where HEAD is, an undo takes back one operation wherever others moved the repository before, a stopped operation is settled | 3 jobs with a cap of 2, so the oldest is dropped and the redo tail is cut; 2 moves of HEAD and any number of undos and redos |
| `app`: `StateFile` | no crash or reader finds half a state, a quit leaves the latest, what is saved only gets newer, a change is saved in the end | 3 changes: one written, one queued, one in memory; 3 files are two temporary ones and `state.json` |
| `app`: `Workspaces` | each workspace is in one place, no repository, remote or folder twice, the active one is open and runs; none disappears but by a close | 3 ids: one moves, one stays, one is opened late; a local folder, one inside it and a remote clone, of one identity |
| `app`: `Tabs` | trees, focus, active tab, terminals and statuses of a local workspace agree after any splits, closes and restarts | 4 panes, 3 deep: a split in a split in a split |
| `app`: `AgentStatus` | the status shown is the strongest fresh report, the panel holds the newest rows under ids of their own, what was read stays read | 2 reports and times on both sides of the staleness limit; 3 rows over a cap of 2 |
| `app`: `RemoteWorkspaces` | terminals run on the connection there is, `--run` is typed once, git follows, forwards are listed, for two workspaces | 3 epochs: connected, lost, connected again; a poll finds 2 results, so one is read after another changed what it says |
| `app`: `OscScanner` | sequences, notifications in several chunks and bells come out once and in order, whatever the cuts | 5 reads, each of one byte or one whole chunk; payloads of 2 |
| `git`: `PaneRefresh` | the graph is the top of the log the status names; no reply takes the pane back | 3 commits over pages of 1; 3 generations; no refresh or poll over more than 2 reads under way, any number in the proof |
| `git`: `GraphLanes` | every line drawn leads from a commit to a parent, and every parent has one | every history of 4 commits with up to 3 parents, and a parent that never comes; 3 colours |
| `git`: `HunkStaging` | a patch made from a diff that holds does what was shown, and only that | files of up to 3 committed lines, alike or not, with and without a last newline, edited before and after |
| `git`: `RebaseRun` | no commit is lost that the plan keeps, each gets its message; a stopped rebase is held with its files, a finished one is journaled once | every plan of 3 commits and 6 actions, one commit from elsewhere, and a second rebase, of stops, after it |
| `git`: `SyncJobs` | no push runs that was not asked for; one that landed is journaled whatever was cancelled; a failing background fetch says so once | 4 jobs: a push refused, the pull, the push that follows, and one more |
| `disconnect_unheard`, `push_unasked`, `graph_polled`, `journal_hasty` | what the documentation says and the code does not do: section 4 | as small as the counterexample allows |

Bounds are in the guards (`Bounded`, `MaxAttempts`, `MaxJobs`, `MaxHead`, `MaxCrashes`): an
epoch or job beyond them is not started. The clock of `SshMachine` ends at `MaxNow`.
The retry timer's liveness is stated for what remains within the bounds.

Deadlock is checked in `socket`, where something can always happen. Elsewhere a behaviour may end at a bound
(the last epoch is used up and no attempt may start) or because all work is done, so TLC is told not to
report it; that nothing waits for ever is what `NothingHangs`, `ShownIsUnderWay`, `KeptThenForgotten`,
`EventsComeOut`, `StoppedIsSettled` and `ChangesReachDisk` say.

### Fairness

The user, crashes, other programs and failures are never fair: nothing relies on them.

- A worker thread ends and then sends its message. The code sets no timeout of its own: it relies
  on ssh giving up (TCP, and the keepalives `master_args` sets) and on git ending. Weak fairness per
  attempt, closer, probe, opener, job. Strong fairness on `ProbeCollects`: a drain over a live
  master does not fail every time.
- Each frame polls and applies the messages. A worker's message wakes the UI (`jobs::spawn`),
  and `poll_ssh` asks for a frame each second while a host retries and each probe interval while one is
  connected: weak fairness on applying a message and on `Tick`. `PollEnd` with a
  probe due is strongly fair, since messages that come first put it off, and so is `ApplyProbe` of the
  journal: a newer refresh replaces a probe under way, but not for ever.
- A process blocked in flock gets the lock if it is free again and again: strong fairness on
  `LaunchLocks`, `QuitLocks` and the drain's `Rename`. Processes in the middle of `serve`,
  `drop`, `append` or `drain` go on unless they crash.
- The app paints a frame after a change, which persists it, and the saver is a thread that only waits for
  the disk: weak fairness on `Persist` and on the saver's steps.

## 4. What the models found

Four violation runs, each against a line of the documentation.

- `disconnect_unheard`. A user's Disconnect returns no `HostEvent` (`manager.rs:375`): the terminals on
  the host stay, the git pane takes itself for online and its forwards stay listed, until a worker's report or a
  retry happens to emit one.
- `push_unasked`. "Stash, pull, pop" answered while another job runs is refused, but the push left by
  "Pull then push" stays (`sync.rs:866`, `346`), and the next successful pull, a plain one, runs it.
- `graph_polled`. A polled pane refetches its log once per generation and polls begin no new one (`mod.rs:580`):
  from the second change on, the graph stays behind the status and the branches beside it.
- `journal_hasty`. A commit or stash whose reply comes while an undo runs is recorded in the
  empty journal the undo left in the pane, saved over the file, and replaced when the undo
  returns (`changes.rs:495`). Pull and push wait in `pending_entries` for exactly this reason.

Seen while modelling, without a run of their own; a constant of the module, where one is named, takes the
case in.

Connections (`Patient = FALSE` in `SshManager_patient.cfg`, `LocksFail = TRUE` in `ControlSocket.cfg`):
- A cancelled attempt's success that arrives while the next is connecting loses the events it drained, already
  deleted on the host (`manager.rs:457`), and one that finds any phase but Disconnected leaves its
  reverse socket open (`state.rs:290`).
- Disconnect, connect: the `CloseForwards` thread of the first cancels the reverse socket the second has just
  forwarded on the same path (`manager.rs:410`); the host stays connected and its hooks reach nobody.
- A released host comes back, or keeps a forward, when an older attempt than `in_flight` still runs (`manager.rs:387`).
  A host forgotten and acquired again counts its epochs from 1 while attempts of the
  forgotten entry may still run (`manager.rs:194`).
- `drop` goes on when it cannot open the lock file (`socket.rs:58`); its check and unlink then race the next launch.
- A drain that finds a leftover removed by another drain returns with `?` and drops the lines it holds (`queue.rs:32`).
  `EventsComeOut` counts those as lost with the drain.

The application:
- `on_exit` writes `state.json` itself while the saver may be writing the same temporary file (`app.rs:499`);
  `Quiet = FALSE` finds the older or a half-written state on disk after a quit.
- With `restore_workspaces` off (`Restores = FALSE`), a notification, Focus, Run or the heir of a closed workspace
  makes a workspace active that does not run.
- Pane numbers come back after a close (`workspace.rs:26` calls them unique), so a hook event read late is
  filed under another pane, or under one that does not exist (`events.rs:125`).
- A hook event drained late overrides a newer one of the same source; BEL and `set-status needs-input` colour
  the tab but add no row to the panel; nothing in the app mutes a workspace or marks all rows read, and the heuristic source
  and `hibernate.rs` are never driven.
- The answer to a port forward that arrives after a reconnect or after its workspace was closed leaves a forward open that
  nothing lists (`Patient = FALSE` in `MCApp.cfg`); pending answers are keyed by host and port, so two workspaces mix.
- Disconnecting clears a remote workspace's terminals and leaves their statuses in `live.trackers` (`remote.rs:323`);
  the next connection runs every terminal again under the same keys. `Tabs` is about local workspaces.
- In the scanner, a `p=?` chunk of another id drops the notification under way, `ESC ESC ]` loses the sequence and
  its BEL rings, and `ESC BEL` rings nothing.

The git pane:
- Without `"load"` in `Careful`: a change between the first log read and the first status is never fetched.
  Without `"page"`: a page applied after a refetch cleared the list fills it with old rows. Without `"poll"`: slow replies of one
  generation take the status back. Without `"twice"`: `graph_polled`.
- A commit from Changes that concludes a stopped merge is journaled twice (`Careful` of `GitJournal` excludes it), and
  `ops.pending` holds one stopped operation: a `Finished` reply about an older one drops it (`ops_ui.rs:837`).
- The confirmation of a lossy undo names an entry; a pull recorded while it is open makes the
  undo take back another one (`ops_ui.rs:1159`). Two workspaces of one repository save over one journal
  file (`workspace.rs:204`).
- `Fresh = FALSE` in `HunkStaging`: a hunk of a diff that no longer holds lands on the nearest place that matches. A second
  click stages repeated lines twice; a Discard confirmed after the line has gone can take an identical committed one.
- `Calm = FALSE` in `MCGit.cfg`: a late probe's answer takes the next rebase's session (`rebase.rs:382`), and a start
  between a stop and its reply loses the first one's end. A rebase aborted outside, with a commit made before the probe, is journaled as if it
  had finished.
- A pull or push killed between landing and exit is not journaled: `SyncJobs` has it land when git exits.

Some of these are the worst case of a hazard whose property holds in the passing runs only without them. The `note` of the hazard in
`PROJECT.json` says what is covered and what is not: with `Patient`, overlapping attempts (`KeptThenForgotten`,
`HooksReachApp`, `DrainedIsDelivered`, `NothingLeaks`) and late answers of forwards (`ForwardsAreListed`); with `Careful`, the
refused pull (`PushesAreAsked`, shown by `push_unasked`); with `LocksFail = FALSE`, `SocketsAreNotStolen`; and a second process
saving `state.json`, which is not modelled. `UndoTakesBackOne` says how far the code's guard goes, HEAD moving after it being the exception.

## 5. Proofs

| Theorem | States | From |
|---|---|---|
| `SshMachineProofs!TypeCorrect`, `LatestAttemptDecides`, `ReportsCorrect`, `TrustNeedsDialog` | the invariants of the `machine` run | `IInv` |
| `SshMachineProofs!EpochsFresh` | every attempt has a new epoch | `IInv` |
| `SshManagerProofs!Invariance`, `ShownCorrect` | types; `ShownIsUnderWay`, for any user | `IInv` |
| `SshManagerProofs!DrainedDelivered`, `ReleasedKept` | `DrainedIsDelivered`; a released host is kept until its attempt reported | `IInv`, `Patient` |
| `SshManagerProofs!RemoteInvariance`, `LeaksNothing`, `HooksArrive` | `NothingLeaks`, `HooksReachApp` | `IInv`, `RemoteInv`, `Patient` |
| `ControlSocketProofs!TypeCorrect`, `Invariance` | types and the inductive invariant | |
| `ControlSocketProofs!WinnersReached`, `NotStolen` | for any number of processes and inodes | `IInv`, no lock failure |
| `ControlSocketProofs!Implements` | `ControlSocket` refines `SingleInstance` | `IInv`, no lock failure |
| `HookQueueProofs!TypeCorrect`, `Invariance`, `LinesConserved` | `LinesAreConserved`, for any number of appends, drains, crashes and files | `IInv` |
| `HookQueueProofs!OrderInvariance`, `FifoImplemented` | until two drains overlap, `HookQueue` refines `HookFifo` (`ImplementsFifo`) | `IInv`, `OrderInv` |
| `GitJournalProofs!JournalInvariance`, `HistoryKept`, `JournalTold`, `UndoOne` | `HistoryIsKept`, `JournalTellsHead`, `UndoTakesBackOne`, for any cap, jobs and moves | `JournalInv`, `Careful` |
| `MCAppProofs!SavedInvariance`, `WholeUntilQuit`, `SavedWhole`, `NeverTakenBack` | `SavedIsWhole` and the step of `ChangesReachDisk`, for any number of changes, launches, crashes and files | `SavedInv`, `Quiet` or before a quit |
| `MCAppProofs!TellInvariance`, `UserTold` | `UserIsTold`, for any number of reports, terminals and rows, any cap and staleness limit | `TellInv` |
| `MCAppProofs!HostInvariance`, `HostFollowed`, `ForwardsListed` | `HostIsFollowed`, for any user; `ForwardsAreListed`; for any number of workspaces, ports, epochs and polls | `HostInv`; `ForwardsListed` of `Patient` |
| `MCGitProofs!SyncInvariance`, `Asked`, `EndReported` | `PushesAreAsked`; `EndedIsReported`, for any user; for any number of jobs | `SyncInv`; `Asked` of `Awaits` |
| `MCGitProofs!RunInvariance`, `RunsTracked` | `RunsAreTracked`, for any branch, plans, commits made elsewhere and number of rebases | `RunInv`, `Calm` |
| `MCGitProofs!GraphInvariance`, `LinesLead` | `LinesLeadToParents`, for any log, number of parents and of colours | `GraphInv` |
| `MCGitProofs!PaneInvariance`, `PaneCurrent` | `PaneIsCurrent`, for any number of commits, refreshes, polls and reads, pages of any size | `PaneInv`, `Gentle` |

All of them hold for every value of the constants that meets the modules' named assumptions; what a
theorem assumes beyond those is its `ASSUME`.

`SshPhasesProofs` holds the lemmas about `Machine::handle` that the next two share: what each phase's
fields are, and what a result does with epoch, warnings and trust.

`SshMachineProofs`. Assumptions: the bounds and the cap are naturals and `U64Max` is at least 3, the first delay.
None of the invariants is inductive alone. A late report is ignored only because it is not of the current
epoch, so `IInv` adds `EpochsInv`: no attempt beyond the machine's epoch exists, which is what
makes a new epoch fresh, and `last_error` is an epoch already used. The proof splits on what the
machine does: `StartStep` and `CancelStep` say what a start and a cancel preserve whatever event led
there, and an attempt's end either lands in the current epoch (`EndLands`) or is ignored (`EndIgnored`).

`SshManagerProofs`. Assumption: the bounds are naturals and an attempt fits in them. A start puts its
attempt's epoch in `in_flight`, only that attempt's Done takes it out, and that Done ends the attempt for the
machine too (`ShownInv`); so a host that shows connecting waits for somebody, whatever the user does. `OneInv` is what
`Patient` buys: one attempt at a time, the one in flight. `EntryInv` and `ChannelInv` say of which epochs
entry and messages may be. `PerformStep` and `EventStep` say what `perform` and `apply_event` preserve whoever
calls them; the lemmas after them go through the user's calls, `poll`, the workers and the far side.

The second half of `SshManagerProofs`, for `Patient`: every open thing is in one hand. The reverse socket is the session's, a
closer's, a forwarding attempt's or that of an outcome on its way (`SocketInv`), and the session that counts on it has it (`SessionInv`).
A port passes from its opener over the channel to the list or to a closer (`PortInv`) and is open in those hands
(`OpenInv`, `ListInv`). A closer shuts the socket only of a disconnected host (`CloserInv`), a probe that found the
master dead is right about this connection (`ProbeInv`), and a cancelled attempt is never taken for the current one (`LateInv`).
`Patient` cannot be dropped: without it an older connection's closer cancels the new session's socket (section 4).

`ControlSocketProofs`. Assumption: `LocksFail = FALSE`; with `LocksFail = TRUE` TLC finds `SocketsAreNotStolen` violated.
`IInv` says of each place in `serve` and `drop` what its process may rely on: the lock is held at
the places between taking and releasing it (`LockInv`), a running process listens (`StopInv`),
listeners have inodes of their own (`ListenInv`), the path is the inode of the one owner
(`OwnInv`), and it is stale or absent where a launch found it so (`PathInv`). Other processes preserve the last
two because they would need the lock; the reuse of inode numbers is harmless because the owner keeps its own
file open, so nobody else can draw its number.

`HookQueueProofs`. Assumptions: `Nobody` is no writer or drain and `NoFile` no file. An append holds the lock from opening the queue to
writing its line, and a drain renames only under the lock (`LockInv`): a file that has been renamed is never
written again (`QueueInv`), and what a drain read is still what it removes (`ReadInv`), unless another drain removed
it first. `OnceInv` gives each renamed file one name, and `LinesInv` each line one place: a file, a drain's hand,
printed, or discarded by a crash or an error.

That drains print in order is the refinement of `HookFifo`, whose `pending` is a drain's hand, the leftovers and the queue
in a row. While no two drains have overlapped, what a drain has left to take is what the directory holds, oldest first
(`OrderInv`), so taking a file or renaming the queue only moves a border within that row, a write appends to it, and
printing or a crash cuts off what is in hand (`FifoStep`, an action at a time).
`FlatFacts` and `FlatHead` say what the library's `FlattenSeq` returns: it is the last of the partial concatenations (`Rows`).

`GitJournalProofs`. Assumptions: the bounds are naturals and the user is `Careful`. The entries not undone come first
(`Upto`) and, read one after the other, lead from state to state (`Walk`); a journal tells a state when that walk is there after
the last entry not undone (`Tells`). `RecordTells`, `FlushTells`, `NewestTells` (the cap) and `MarkTells` (undo and redo) say that
everything done to a journal keeps that. The rest of `JournalInv` says where HEAD may be meanwhile: where a job or
a stopped operation found it or left it (`JobInv`, `PendingInv`), or at one end of the entry that an undo's worker runs
(`WorkerInv`). `UndoOne` needs none of that: that an undo past its guard has found HEAD at the end of its entry, or was crossed
(`GuardInv`), holds wherever others have moved the repository (`GuardSteps`). Without `Careful`, what is recorded during an undo is lost: `journal_hasty`, section 4.

`MCAppProofs` is about three parts of the `app` run. A step of a part is a step of its module, a step of another part leaves
it alone, and `ConstantsAssumption` gives the modules' assumptions.

`StateFile`: one thread writes at a time (`OneWriter`), into a file that is not the saved
one (`TmpInv`), and what it writes is at least as new as what is saved (`AgeInv`). A quit that overtakes the saver
breaks the first, so they are stated while no quit has begun or for a `Quiet` user (`Calm`), and `WholeUntilQuit`
says exactly that; the next launch restores them whatever a quit left behind.

`AgentStatus`: only a hook's report may come late, and only another hook's replaces a fresh one of a hook (`OnTime`), so the status
shown stays the strongest; the rows' ids fall from the newest row on and the next id is above them all, the saved ones included
(`RowsInv`), so no row is taken for another after a restart.

`RemoteWorkspaces`: the workspaces are a finite set. Whatever a poll changes of the
connection, it leaves a `Changed` event behind, and no event is handled before the poll is over. So until that event is
handled the workspaces may be behind, and otherwise they are in step (`FollowInv`): this is why `HostIsFollowed`
holds however often the connection went up and down within one poll. A command waits only where no terminal of its workspace has
started, and is typed once (`RunInv`). For `Patient` each port is in one hand (`PortInv`): asked for and with its worker
(`WorkInv`), answered and waiting to be listed (`AnswerInv`), listed, or with the worker that closes it; what is
reported closed is not held (`ClosedInv`). Without `Patient` a workspace closed while its forward is on the way
leaves it open and listed nowhere (section 4), so `ForwardsListed` assumes it.

`MCGitProofs` is about four parts of the `git` run. `SyncJobs`: a job has a worker or its reply is on the way, and what landed is
journaled, waits to be, or is this job's (`WorkInv`); so `EndedIsReported` holds whatever is cancelled and whenever.
For a user who answers what is open before asking for more (`Awaits`), a push passes from a question to a form, or from
the rejected push to the one that follows a pull, always as it was asked for (`AskInv`). The hard part is that last one:
it is left in `then_push` only while its own pull runs or asks about the changes (`FollowInv`), because no form is open
while a job might still ask (`FormInv`) and only a push to a branch is rejected (`RejectInv`). Without `Awaits` another
pull runs it: `push_unasked`, section 4.

`RebaseRun`, for a `Calm` user: at any time there is a list `b` of commits, the branch as the last rebase found it, that everything
held or on its way speaks of: the session, the reply, the probe and git's directory (`OwnInv`, `ProbeInv`, `DirInv`). git
refuses a plan that misses a commit (`apply_sequence_editor`), so what it builds holds commits of `b` only (`BuiltIsOld`), and
a commit from elsewhere, which holds a new one, is in no such list; hence a branch that has moved is never taken
for `b` again, and the probe that compares the two sees every end. The end of a rebase is in a reply on its way (`Told`), in what
the next probe will read (`Untold`), or journaled (`EndedInv`), and it is journaled once, as the pane lets go of it
(`JournalInv`). There is one lemma for each action (`StartKeeps`, `OnProbeKeeps`, ...).

`GraphLanes`: a row is built up a parent at a time, and a row whose lines lead to the parents so far (`LinesTo`) leads to one more
after `Join`, with nothing taken away (`JoinKeeps`): the parent's lane exists and keeps its own line through the row, or is a free
or new one. So in the finished row the lines that waited for the commit end in it, every other lane goes straight on, and the
commit's own lines reach lanes that wait for each of its parents (`Drawn`, `RowIs`). Giving back the free lanes at the
right moves no other (`TightIs`). What the invariant adds to the property is that the lanes of the last row hold the lines that
leave it and that parents come after their children in the log (`GraphTypes`): a line then ends at a commit
exactly when its lane waits for it (`LineGoesOn`).

`PaneRefresh`, for what `Careful` lists with nothing left out (`Gentle`): of each kind at most one read of a generation is under way
(`OneInv`), and it saw nothing older than what the pane shows (`NewInv`), which is already that no reply takes the pane back.
The graph is the top of the log of some commit `v` (`View`), which is not its newest one whenever the repository has moved since. What
brings it up to date is a later reply: as long as one that differs from `v` would have the log read again, or nothing
seen so far is newer than `v` (`Covered`), an old graph is no harm. Two cases are not of that kind. Rows of two logs may be in one graph,
but only while a change between them is not yet seen and its reply will clear the graph (`Doomed`); and before the first replies no
change is recognised as one, which is why the repository must not move until then (`LoadInv`). A page under way must be covered as
the graph is, since it may be the next graph (`PageInv`). At rest, with the newest status and refs shown, nothing is doomed and only
the newest commit is covered. Each part of `Gentle` is a case of section 4 in which the property fails.

Only model-checked: `Workspaces`, `Tabs`, `OscScanner`, `HunkStaging`, `RebaseIsThePlan`, the retry
schedule, and all liveness, which is out of this prover's reach. `RECURSIVE` is used nowhere, so every module can be proved about.
The library's induction theorems cannot be used, but its theorem that sets have minimal elements in a well-founded order
can: `Least` (a set of numbers has a least one) follows from it and carries the arguments about recursive functions
that were worth it (`Rows` above, `PlansAre` of a plan's steps, `Walk`, `JoinedIs`). What the scanner makes of
every stream, the script of every diff and the messages of every plan would each take several such
arguments over nested functions, and stay with TLC.

## 6. Not modelled

Host-key and version parsing, argument vectors, diff, log, status and blame parsers, fuzzy matching, themes,
keymap, menus, drawing: data without state, and more than half of the code. The terminal emulator and the adapters'
edits of other programs' settings files are other programs' formats. The views that only read (details, compare, history, blame, search)
change nothing but what they show. The components and what is left out of each are listed in
`PROJECT.json`. Within the modelled parts: partial writes and full disks (queue: a torn line is continued by
the next append), a failed save of the journal, several hosts at once (they share only the channel), a restart of the
app during a rebase (its session is lost), rebases that others begin, and the refusals of a push or pull that starts no job.

## 7. What is left

In this order: the sidebar's tree (`SidebarIsSound`), and `OutageIsKeptAndRetried` of the machine from `SshPhasesProofs`.
