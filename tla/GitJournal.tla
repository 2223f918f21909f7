----------------------------- MODULE GitJournal -----------------------------
(***************************************************************************)
(* The git pane's undo journal (src/git/journal.rs) and everything that    *)
(* records in it: the pane's jobs (src/ui/git_pane), each a thread that    *)
(* reads HEAD, runs git and reads HEAD again, and undo and redo, which     *)
(* take the journal along to their worker.  Terminals and agents use the   *)
(* same repository.                                                        *)
(*                                                                         *)
(* The repository is its HEAD, a number that no other state has, and       *)
(* whether an operation is stopped half-way in it.  A guard's branch, refs *)
(* and stash list are part of that number, except that a stash, a push or  *)
(* an upstream change leaves it as it was.                                 *)
(***************************************************************************)
EXTENDS Naturals, SequencesExt

CONSTANTS
  Cap,      \* CAP
  MaxJobs,  \* bound: jobs started
  MaxHead,  \* bound: states the repository gets into
  Careful   \* TRUE: the user starts nothing while something else is under way

ASSUME CapAssumption == Cap \in Nat \ {0}
ASSUME BoundsAssumption == MaxJobs \in Nat /\ MaxHead \in Nat
ASSUME CarefulAssumption == Careful \in BOOLEAN

VARIABLES
  head,      \* where the repository's HEAD is
  made,      \* how many states it has been in besides the first
  stopped,   \* an operation is stopped on conflicts (RepoOp)
  strayed,   \* someone else, or half a plan, has moved the repository
  journal,   \* the pane's Journal: its entries, oldest first
  saved,     \* the journal file
  waiting,   \* sync.pending_entries
  jobs,      \* jobs that run or whose reply has not been applied
  started,   \* jobs started so far; numbers them
  undo,      \* the undo or redo worker
  pending,   \* ops.pending: the operation that stopped on conflicts
  finishing, \* ops.finishing
  probe,     \* the refresh's look at the repository's operation
  given      \* jobs whose entry the journal was given and must still have

repo == <<head, made, stopped, strayed>>
history == <<journal, saved, waiting, given>>
work == <<jobs, started, undo, pending, finishing, probe>>
vars == <<repo, history, work>>

-----------------------------------------------------------------------------
(* Entries and the Journal.                                                 *)

(* moves: the operation moved HEAD, and its plans move it back and forth.   *)
Entry(id, before, after, moves, inverse) ==
  [id |-> id, before |-> before, after |-> after, moves |-> moves,
   inverse |-> inverse, undone |-> FALSE]

Ids(entries) == {e.id : e \in Range(entries)}
IsDone(e) == ~e.undone
UndoIndices(entries) == {i \in 1..Len(entries) : IsDone(entries[i])}

(* A recorded entry drops those undone, and the oldest beyond the cap.      *)
NotUndone(entries) ==
  LET I == UndoIndices(entries)
  IN [n \in 1..Cardinality(I) |-> entries[CHOOSE i \in I : Cardinality(I \cap 1..i) = n]]

Newest(entries) ==
  IF Len(entries) > Cap THEN SubSeq(entries, Len(entries) - Cap + 1, Len(entries)) ELSE entries

Recorded_KeepsTail(entries, e) == Newest(Append(entries, e))
Recorded(entries, e) == Newest(Append(NotUndone(entries), e))

(* peek_undo: the newest entry not undone.  peek_redo: the first of the run *)
(* of undone entries at the end.                                            *)
PeekUndo(entries) ==
  {i \in UndoIndices(entries) : \A k \in UndoIndices(entries) : k <= i}
PeekRedo(entries) ==
  {i \in 1..Len(entries) : /\ \A k \in i..Len(entries) : entries[k].undone
                           /\ i > 1 => IsDone(entries[i - 1])}
Peek(is_undo, entries) == IF is_undo THEN PeekUndo(entries) ELSE PeekRedo(entries)

NoUndo == [at |-> "none"]
undo_busy == undo # NoUndo

TypeOK ==
  /\ head \in 0..made /\ made \in 0..MaxHead
  /\ {stopped, strayed, finishing} \subseteq BOOLEAN
  /\ \A entries \in {journal, saved, waiting} : \A e \in Range(entries) :
       e \in [id: 1..MaxJobs, before: 0..made, after: 0..made, moves: BOOLEAN,
              inverse: BOOLEAN, undone: BOOLEAN]
  /\ Len(journal) <= Cap /\ Len(saved) <= Cap
  /\ Cardinality(pending) <= 1 /\ Cardinality(jobs) <= started
  /\ probe \in {"none", "stopped", "clear"}

Init ==
  /\ head = 0 /\ made = 0 /\ stopped = FALSE /\ strayed = FALSE
  /\ journal = <<>> /\ saved = <<>> /\ waiting = <<>> /\ given = {}
  /\ jobs = {} /\ started = 0 /\ undo = NoUndo
  /\ pending = {} /\ finishing = FALSE /\ probe = "none"

-----------------------------------------------------------------------------
(* Starting jobs.  Each kind has its own idea of what it must wait for.     *)

Running(kind) == \E j \in jobs : j.kind = kind
busy == Running("op")
sync_busy == Running("sync")

Calm == ~Careful \/ (jobs = {} /\ pending = {} /\ ~stopped)

Spawn(kind, before) ==
  /\ started < MaxJobs
  /\ started' = started + 1
  /\ jobs' = jobs \cup {[kind |-> kind, id |-> started + 1, at |-> "read",
                         before |-> before, after |-> before, outcome |-> "none"]}

Start(kind) ==
  /\ Calm
  /\ Spawn(kind, 0)
  /\ UNCHANGED <<repo, history, undo, pending, finishing, probe>>

(* start_ops, start_checkout, the rebase: busy_refusal.                     *)
StartOp == ~busy /\ ~undo_busy /\ Start("op")

(* dispatch_commit and dispatch_stash_op look at their own flag only.       *)
StartOwn(kind) == ~Running(kind) /\ (Careful => ~undo_busy) /\ Start(kind)

(* start_job: fetch, pull and push.                                         *)
StartSync == ~sync_busy /\ ~undo_busy /\ Start("sync")

(* set_upstream waits for nothing.                                          *)
StartUpstream == Start("upstream")

-----------------------------------------------------------------------------
(* A job on its thread.                                                     *)

Becomes(j, k) == jobs' = (jobs \ {j}) \cup {k}

Reads(j) ==
  /\ j.at = "read" /\ j.kind # "finish"
  /\ Becomes(j, [j EXCEPT !.at = "run", !.before = head])
  /\ UNCHANGED <<repo, history, started, undo, pending, finishing, probe>>

NewHead ==
  /\ made < MaxHead
  /\ made' = made + 1
  /\ head' = made + 1

(* git moved HEAD: an operation or a pull, or a commit, which also ends a   *)
(* stopped merge.                                                           *)
Moves(j) ==
  /\ j.kind \in {"op", "sync", "commit"}
  /\ j.kind # "commit" => ~stopped
  /\ NewHead /\ stopped' = FALSE
  /\ UNCHANGED strayed

(* It changed something else: the stash list, the upstream, the remote.     *)
Leaves(j) == j.kind \in {"stash", "upstream", "sync"} /\ UNCHANGED repo

(* It stopped on conflicts, or because another operation already had.       *)
Stops(j) ==
  /\ j.kind \in {"op", "sync"}
  /\ stopped' = TRUE
  /\ UNCHANGED <<head, made, strayed>>

Runs(j) ==
  /\ j.at = "run"
  /\ \/ Moves(j) /\ Becomes(j, [j EXCEPT !.at = "reread", !.outcome = "moved"])
     \/ Leaves(j) /\ Becomes(j, [j EXCEPT !.at = "reread", !.outcome = "left"])
     \/ Stops(j) /\ Becomes(j, [j EXCEPT !.at = "done", !.outcome = "stopped"])
     \/ UNCHANGED repo /\ Becomes(j, [j EXCEPT !.at = "done", !.outcome = "nothing"])
  /\ UNCHANGED <<history, started, undo, pending, finishing, probe>>

Rereads(j) ==
  /\ j.at = "reread"
  /\ Becomes(j, [j EXCEPT !.at = "done", !.after = head])
  /\ UNCHANGED <<repo, history, started, undo, pending, finishing, probe>>

(* Pending::finish: nothing while it is in progress, or once it is aborted. *)
Finishes(j) ==
  /\ j.at = "read" /\ j.kind = "finish"
  /\ Becomes(j, [j EXCEPT !.at = "done", !.after = head,
                          !.outcome = CASE stopped -> "stopped"
                                        [] ~stopped /\ head = j.before -> "nothing"
                                        [] OTHER -> "moved"])
  /\ UNCHANGED <<repo, history, started, undo, pending, finishing, probe>>

Works(j) == Reads(j) \/ Runs(j) \/ Rereads(j) \/ Finishes(j)

-----------------------------------------------------------------------------
(* Replies.                                                                 *)

HasEntry(j) == j.outcome \in {"moved", "left"}
EntryOf(j) ==
  Entry(j.id, j.before, j.after, j.outcome = "moved",
        j.kind = "sync" => j.outcome = "moved")

(* Of the journal and a list recorded in it, the entries that need not be   *)
(* kept: those undone before, and those there is no room for.               *)
Drops(list) == (Ids(journal) \cup Ids(list)) \ Ids(Newest(NotUndone(journal) \o list))

(* journal.record and save.                                                 *)
Records(e) ==
  /\ journal' = Recorded(journal, e)
  /\ saved' = journal'
  /\ given' = (given \cup {e.id}) \ Drops(<<e>>)

RecordsJob(j) ==
  IF HasEntry(j) THEN Records(EntryOf(j)) /\ UNCHANGED waiting ELSE UNCHANGED history

(* refresh_now after every reply that recorded and some others; it makes    *)
(* the probe under way a stale one.                                         *)
Refreshed(must) == probe' \in (IF must THEN {"none"} ELSE {probe, "none"})

(* A frame's sync_tick comes between a job's start and its reply.           *)
Applies(j) ==
  /\ j.at = "done"
  /\ ~undo_busy => waiting = <<>>
  /\ jobs' = jobs \ {j}
  /\ IF j.kind = "finish" THEN UNCHANGED probe ELSE Refreshed(HasEntry(j))
  /\ UNCHANGED <<repo, started, undo>>

(* OpsReply::Ran, Checkout, Committed and StashReply::Done.                 *)
ApplyRecorded(j) ==
  /\ j.kind \in {"op", "commit", "stash"}
  /\ Applies(j)
  /\ RecordsJob(j)
  /\ pending' = IF j.kind = "op" /\ j.outcome = "stopped" THEN {j} ELSE pending
  /\ UNCHANGED finishing

(* flush_journal.                                                           *)
MayFlush_Always == TRUE
MayFlush == ~undo_busy

Flushed(entries, list) ==
  LET after[n \in 0..Len(list)] == IF n = 0 THEN entries ELSE Recorded(after[n - 1], list[n])
  IN after[Len(list)]

Flushes(list) ==
  IF MayFlush
    THEN /\ journal' = Flushed(journal, list)
         /\ saved' = journal'
         /\ waiting' = <<>>
         /\ given' = (given \cup Ids(list)) \ Drops(list)
    ELSE /\ waiting' = list
         /\ given' = given \cup Ids(list)
         /\ UNCHANGED <<journal, saved>>

(* record_journal: SyncReply::Pulled, Pushed and UpstreamSet.               *)
ApplySync(j) ==
  /\ j.kind \in {"sync", "upstream"}
  /\ Applies(j)
  /\ IF HasEntry(j) THEN Flushes(Append(waiting, EntryOf(j))) ELSE UNCHANGED history
  /\ UNCHANGED <<pending, finishing>>

(* sync_tick, every frame.                                                  *)
Flush ==
  /\ MayFlush /\ waiting # <<>>
  /\ Flushes(waiting)
  /\ UNCHANGED <<repo, work>>

(* OpsReply::Finished.                                                      *)
ApplyFinished_StaysBusy(j) ==
  /\ j.kind = "finish"
  /\ Applies(j)
  /\ IF j.outcome = "stopped"
       THEN UNCHANGED <<pending, finishing, history>>
       ELSE /\ pending' = {} /\ finishing' = FALSE
            /\ IF pending # {} THEN RecordsJob(j) ELSE UNCHANGED history
ApplyFinished(j) ==
  /\ j.kind = "finish"
  /\ Applies(j)
  /\ finishing' = FALSE
  /\ IF j.outcome = "stopped"
       THEN UNCHANGED <<pending, history>>
       ELSE /\ pending' = {}
            /\ IF pending # {} THEN RecordsJob(j) ELSE UNCHANGED history

Apply(j) == ApplyRecorded(j) \/ ApplySync(j) \/ ApplyFinished(j)

(* The refresh asks whether an operation is in progress; its reply counts   *)
(* only in the generation it was asked in, and may start a finish.          *)
Probe ==
  /\ probe = "none"
  /\ probe' = IF stopped THEN "stopped" ELSE "clear"
  /\ UNCHANGED <<repo, history, jobs, started, undo, pending, finishing>>

ApplyProbe ==
  /\ probe # "none"
  /\ probe' = "none"
  /\ IF probe = "clear" /\ ~finishing /\ pending # {}
       THEN /\ finishing' = TRUE
            /\ \E p \in pending : Spawn("finish", p.before)
       ELSE UNCHANGED <<finishing, jobs, started>>
  /\ UNCHANGED <<repo, history, undo, pending>>

-----------------------------------------------------------------------------
(* Undo and redo: run_undo_redo, Journal::undo and Journal::redo.           *)

MayUndo_DuringSync == ~busy /\ ~undo_busy
MayUndo == ~busy /\ ~undo_busy /\ ~sync_busy

StartUndo(is_undo) ==
  /\ MayUndo
  /\ Careful => jobs \subseteq {j \in jobs : j.kind \in {"op", "sync"}}
  /\ Careful => pending = {} /\ ~stopped
  /\ Peek(is_undo, journal) # {}
  /\ undo' = [at |-> "read", is_undo |-> is_undo, entries |-> journal, now |-> 0,
              ran |-> FALSE, failed |-> FALSE, crossed |-> FALSE]
  /\ journal' = <<>>
  /\ UNCHANGED <<repo, saved, waiting, given, jobs, started, pending, finishing, probe>>

Index(u) == CHOOSE i \in Peek(u.is_undo, u.entries) : TRUE
UndoEntry(u) == u.entries[Index(u)]
From(u) == IF u.is_undo THEN UndoEntry(u).after ELSE UndoEntry(u).before
To(u) == IF u.is_undo THEN UndoEntry(u).before ELSE UndoEntry(u).after

(* The guard: the entry can be undone and the repository matches it.        *)
Permitted(u, now) == (u.is_undo => UndoEntry(u).inverse) /\ now = From(u)

UndoReads ==
  /\ undo.at = "read"
  /\ undo' = [undo EXCEPT !.now = head,
                          !.at = IF Permitted(undo, head) THEN "run" ELSE "done"]
  /\ UNCHANGED <<repo, history, jobs, started, pending, finishing, probe>>

(* run_plan: every command succeeds, or one fails with the work done        *)
(* anyway, undone or half done.                                             *)
PlanRuns(failed) == undo' = [undo EXCEPT !.at = "settle", !.ran = TRUE, !.failed = failed]

UndoRuns ==
  /\ undo.at = "run"
  /\ \/ /\ ~stopped
        /\ \E failed \in BOOLEAN : PlanRuns(failed)
        /\ head' = IF UndoEntry(undo).moves THEN To(undo) ELSE head
        /\ UNCHANGED <<made, stopped, strayed>>
     \/ PlanRuns(TRUE) /\ UNCHANGED repo
     \/ /\ ~stopped
        /\ PlanRuns(TRUE)
        /\ NewHead /\ strayed' = TRUE
        /\ UNCHANGED stopped
  /\ UNCHANGED <<history, jobs, started, pending, finishing, probe>>

(* Journal::settle.                                                         *)
Landed(u, now) == ~u.failed \/ (now = To(u) /\ now # From(u))

UndoSettles ==
  /\ undo.at = "settle"
  /\ undo' = [undo EXCEPT !.at = "done",
                !.entries = IF Landed(undo, head)
                              THEN [undo.entries EXCEPT ![Index(undo)].undone = undo.is_undo]
                              ELSE @]
  /\ UNCHANGED <<repo, history, jobs, started, pending, finishing, probe>>

(* apply_undo_redo: the worker's journal becomes the pane's.                *)
ApplyUndo ==
  /\ undo.at = "done"
  /\ journal' = undo.entries
  /\ saved' = journal'
  /\ undo' = NoUndo
  /\ Refreshed(undo.ran)
  /\ UNCHANGED <<repo, waiting, given, jobs, started, pending, finishing>>

-----------------------------------------------------------------------------
(* Terminals and agents on the same repository.                             *)

(* crossed is history: HEAD moved after an undo's guard had read it.        *)
Crosses ==
  undo' = IF undo.at = "run" THEN [undo EXCEPT !.crossed = TRUE] ELSE undo

OutsiderMoves ==
  /\ NewHead /\ strayed' = TRUE /\ Crosses
  /\ UNCHANGED <<stopped, history, jobs, started, pending, finishing, probe>>

OutsiderStops ==
  /\ ~stopped
  /\ stopped' = TRUE /\ strayed' = TRUE
  /\ UNCHANGED <<head, made, history, work>>

(* The stopped operation is continued to its end, or aborted.               *)
Continue ==
  /\ stopped
  /\ stopped' = FALSE
  /\ NewHead
  /\ strayed' = (strayed \/ pending = {}) /\ Crosses
  /\ UNCHANGED <<history, jobs, started, pending, finishing, probe>>

Abort ==
  /\ stopped
  /\ stopped' = FALSE
  /\ UNCHANGED <<head, made, strayed, history, work>>

-----------------------------------------------------------------------------
User ==
  \/ StartOp \/ StartSync \/ StartUpstream
  \/ \E kind \in {"commit", "stash"} : StartOwn(kind)
  \/ \E is_undo \in BOOLEAN : StartUndo(is_undo)

UndoSteps == UndoReads \/ UndoRuns \/ UndoSettles \/ ApplyUndo

Next ==
  \/ User
  \/ \E j \in jobs : Works(j) \/ Apply(j)
  \/ Flush \/ Probe \/ ApplyProbe
  \/ UndoSteps
  \/ OutsiderMoves \/ OutsiderStops \/ Continue \/ Abort

Spec == Init /\ [][Next]_vars

(* Worker threads end and every frame applies their replies; the watcher    *)
(* refreshes.                                                               *)
Fairness ==
  /\ \A i \in 1..MaxJobs : WF_vars(\E j \in jobs : j.id = i /\ (Works(j) \/ Apply(j)))
  /\ WF_vars(UndoSteps)
  /\ WF_vars(Flush) /\ WF_vars(Probe) /\ SF_vars(ApplyProbe)

FairSpec == Spec /\ Fairness

-----------------------------------------------------------------------------
(* Properties.                                                              *)

(* Undone entries are the newest ones, so redo takes back exactly what undo *)
(* undid last, whatever was recorded in between.                            *)
RedoTailIsLast ==
  \A i, k \in 1..Len(journal) : i < k /\ journal[i].undone => journal[k].undone

(* "Every ref-changing operation records": what the journal was given it    *)
(* still has, in the file too, also while an undo has it on its worker.     *)
HistoryIsKept ==
  /\ given \subseteq Ids(saved) \cup Ids(waiting)
  /\ ~undo_busy => saved = journal

(* The journal tells where the repository is: as long as only the pane      *)
(* moved it, HEAD is where the newest entry not undone left it, and where   *)
(* the oldest undone one began, so undo and redo can go on from there.     *)
Quiet ==
  jobs = {} /\ ~undo_busy /\ waiting = <<>> /\ pending = {} /\ ~stopped /\ ~strayed

Movers(undone) ==
  {i \in 1..Len(journal) : journal[i].moves /\ journal[i].undone = undone}

HeadIsJournaled ==
  Quiet =>
    /\ \A i \in Movers(FALSE) :
         (\A k \in Movers(FALSE) : k <= i) => head = journal[i].after
    /\ \A i \in Movers(TRUE) :
         (\A k \in Movers(TRUE) : i <= k) => head = journal[i].before

(* From where HEAD is, undo can go back through the entries not undone and  *)
(* redo forward through the undone ones (Journal::record, undo and redo).   *)
JournalTellsHead == RedoTailIsLast /\ HeadIsJournaled

(* An undo takes back one operation, wherever others had moved the          *)
(* repository before: it moves HEAD only away from where that operation     *)
(* left it, never from what came on top.  A terminal that moves HEAD        *)
(* between the guard and the plan is beyond the guard.                      *)
UndoTakesBackOneStep ==
  undo.at = "run" /\ undo'.at = "settle" /\ head' # head =>
    head = From(undo) \/ undo.crossed

UndoTakesBackOne == [][UndoTakesBackOneStep]_vars

(* An operation that stopped on conflicts is settled once it is no longer   *)
(* in progress.                                                             *)
StoppedIsSettled ==
  (pending # {} /\ ~stopped /\ started < MaxJobs) ~> (pending = {} \/ stopped \/ started = MaxJobs)
=============================================================================
