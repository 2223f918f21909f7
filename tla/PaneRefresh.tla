----------------------------- MODULE PaneRefresh -----------------------------
(***************************************************************************)
(* How the git pane follows its repository (src/ui/git_pane/mod.rs, its    *)
(* worker.rs and graph.rs): worker threads run `git status`,               *)
(* `for-each-ref` and `git log`, their replies come back in any order, and *)
(* a generation counter drops the ones a refresh has overtaken.            *)
(*                                                                         *)
(* The repository is the number of its newest commit, and its log runs     *)
(* from there down to 1.  The stash, worktree, remote and operation lists, *)
(* read and guarded as the status is, are left out.                        *)
(***************************************************************************)
EXTENDS Naturals, FiniteSets, Sequences

CONSTANTS
  First, Batch,  \* rows of the graph's first page, and of each further one
  MaxCommits,    \* bound: the newest commit
  MaxGen,        \* bound: generations
  MaxReading,    \* bound: the reads under way after a refresh or a poll
  Careful        \* what does not happen: the repository changing during the
                 \* first load ("load"), twice in a generation of a polled pane
                 \* ("twice"), or while that pane reads ("poll"); a page asked
                 \* for while others read ("page")

ConstantsOK ==
  /\ First \in Nat \ {0} /\ Batch \in Nat \ {0}
  /\ MaxCommits \in Nat /\ MaxGen \in Nat /\ MaxReading \in Nat
  /\ Careful \subseteq {"load", "twice", "poll", "page"}

VARIABLES
  head,        \* the repository
  watched,     \* Live::Watcher, or Live::Poll on a remote
  noticed,     \* what the watcher saw waits for its debounced refresh
  online, generation, refetched,   \* refetched is log_refetch_dispatched_gen
  status, targets,                 \* status.branch.oid and ref_targets; 0 before the first
  commits, hasMore, loading,       \* the graph: commits, log_has_more, log_loading
  reading      \* what the workers read and have not delivered

vars == <<head, watched, noticed, online, generation, refetched, status, targets,
          commits, hasMore, loading, reading>>

Unread == 0            \* the worker's git has not run yet
Failed == MaxCommits + 1
Job(kind, n) == [kind |-> kind, gen |-> generation, n |-> n, saw |-> Unread]

Log(v) == [i \in 1 .. v |-> v + 1 - i]
LogPage(v, n) == SubSeq(Log(v), 1, IF n < v THEN n ELSE v)   \* git log --all -n

\* next_log_n
NextN(loaded) == IF loaded = 0 THEN First ELSE loaded + Batch

Init ==
  /\ head \in 1 .. MaxCommits /\ watched \in BOOLEAN
  /\ noticed = FALSE /\ online = TRUE /\ generation = 1 /\ refetched = 0
  /\ status = 0 /\ targets = 0
  /\ commits = <<>> /\ hasMore = TRUE /\ loading = TRUE
  /\ reading = {Job("status", 0), Job("refs", 0), Job("log", First)}

FirstLoaded == status # 0 /\ targets # 0

\* a commit, by this pane, a terminal or an agent
Commits ==
  /\ head < MaxCommits
  /\ "load" \in Careful => FirstLoaded
  /\ "poll" \in Careful /\ ~watched => reading = {}
  /\ "twice" \in Careful /\ ~watched => refetched # generation
  /\ head' = head + 1 /\ noticed' = watched
  /\ UNCHANGED <<watched, online, generation, refetched, status, targets, commits,
                 hasMore, loading, reading>>

\* refresh and refresh_now: a new generation reads everything but the log
Refreshed(jobs) ==
  /\ Cardinality(jobs) + 2 <= MaxReading
  /\ generation' = generation + 1
  /\ reading' = jobs \cup {[Job(k, 0) EXCEPT !.gen = generation'] : k \in {"status", "refs"}}

\* a hook's event, a focus, an own action, or what the watcher saw
Refresh ==
  /\ online /\ generation < MaxGen
  /\ Refreshed(reading) /\ noticed' \in {noticed, FALSE}
  /\ UNCHANGED <<head, watched, online, refetched, status, targets, commits, hasMore, loading>>

Poll ==
  /\ ~watched /\ online
  /\ "poll" \in Careful => reading = {}
  /\ Cardinality(reading) + 2 <= MaxReading
  /\ reading' = reading \cup {Job("status", 0), Job("refs", 0)}
  /\ UNCHANGED <<head, watched, noticed, online, generation, refetched, status, targets,
                 commits, hasMore, loading>>

SetOnline ==
  /\ ~watched /\ online' = ~online
  /\ IF online' THEN generation < MaxGen /\ Refreshed(reading) ELSE UNCHANGED <<generation, reading>>
  /\ UNCHANGED <<head, watched, noticed, refetched, status, targets, commits, hasMore, loading>>

\* the graph is drawn with its last rows in sight (near_end)
WantsMore == hasMore /\ ~loading
Scroll ==
  /\ WantsMore
  /\ "page" \in Careful => reading = {}
  /\ loading' = TRUE /\ reading' = reading \cup {Job("log", NextN(Len(commits)))}
  /\ UNCHANGED <<head, watched, noticed, online, generation, refetched, status, targets,
                 commits, hasMore>>

\* gen_is_current
Current_Always(j) == TRUE
Current(j) == j.gen = generation

\* a worker's git runs, now or after an overtaking one, or fails; what an
\* overtaken one reads is never looked at
Reads(j) ==
  /\ j.saw = Unread /\ Current(j)
  /\ \E v \in {head, Failed} :
       reading' = (reading \ {j}) \cup {[j EXCEPT !.saw = IF online THEN v ELSE Failed]}
  /\ UNCHANGED <<head, watched, noticed, online, generation, refetched, status, targets,
                 commits, hasMore, loading>>

Drops(j) ==
  /\ ~Current(j) \/ j.saw = Failed
  /\ loading' = (loading /\ j.kind # "log") /\ reading' = reading \ {j}
  /\ UNCHANGED <<head, watched, noticed, online, generation, refetched, status, targets,
                 commits, hasMore>>

\* maybe_refetch_log, once per generation: the graph starts over
Refetch(jobs) ==
  LET n == IF Len(commits) > First THEN Len(commits) ELSE First
  IN IF refetched = generation
     THEN reading' = jobs /\ UNCHANGED <<refetched, commits, hasMore, loading>>
     ELSE /\ refetched' = generation
          /\ commits' = <<>> /\ hasMore' = TRUE /\ loading' = TRUE
          /\ reading' = jobs \cup {Job("log", n)}

\* a reply to a read of what was last seen as `old`
Follows(old, j) ==
  IF old \notin {0, j.saw} THEN Refetch(reading \ {j})
  ELSE reading' = reading \ {j} /\ UNCHANGED <<refetched, commits, hasMore, loading>>

Applies(j) == j.saw # Unread /\ j.saw # Failed /\ Current(j)

OnStatus(j) ==
  /\ j.kind = "status" /\ Applies(j)
  /\ status' = j.saw /\ Follows(status, j)
  /\ UNCHANGED <<head, watched, noticed, online, generation, targets>>

OnRefs(j) ==
  /\ j.kind = "refs" /\ Applies(j)
  /\ targets' = j.saw /\ Follows(targets, j)
  /\ UNCHANGED <<head, watched, noticed, online, generation, status>>

\* apply_log_page: the page is the whole window, of which only the rows past
\* those the graph holds are laid out
OnLogPage(j) ==
  LET page == LogPage(j.saw, j.n) IN
  /\ j.kind = "log" /\ Applies(j)
  /\ hasMore' = (Len(page) >= j.n) /\ loading' = FALSE
  /\ commits' = commits \o SubSeq(page, Len(commits) + 1, Len(page))
  /\ reading' = reading \ {j}
  /\ UNCHANGED <<head, watched, noticed, online, generation, refetched, status, targets>>

Next ==
  \/ Commits \/ Refresh \/ Poll \/ SetOnline \/ Scroll
  \/ \E j \in reading : Reads(j) \/ Drops(j) \/ OnStatus(j) \/ OnRefs(j) \/ OnLogPage(j)

Spec == Init /\ [][Next]_vars

-----------------------------------------------------------------------------
\* Nothing is read, and nothing will be without a change or a refresh.
AtRest == reading = {} /\ ~noticed /\ ~(WantsMore /\ commits = <<>>)

\* Once the pane has read the newest status and refs, its graph is the top of
\* the repository's log without a row missing or doubled, all of it when there
\* is no more; a graph that says it is loading has a page under way.
GraphIsCurrent ==
  /\ loading => \E j \in reading : j.kind = "log"
  /\ AtRest /\ status = head /\ targets = head =>
       /\ commits # <<>> /\ commits = LogPage(head, Len(commits))
       /\ hasMore \/ commits = Log(head)

\* No reply takes the pane back to a state older than the one it shows.
StatusNeverGoesBack == [][status' >= status /\ targets' >= targets]_vars
=============================================================================
