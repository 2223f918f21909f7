------------------------------ MODULE SyncJobs ------------------------------
(***************************************************************************)
(* Fetch, pull and push of the git pane (src/ui/git_pane/sync.rs, with     *)
(* model/sync.rs and the streamed runs of git/net.rs and git/cmd.rs): one  *)
(* job at a time on a worker, which the user may cancel; toasts with       *)
(* buttons, forms and confirmations that wait for an answer while the      *)
(* background fetch goes on; and the push that "Pull then push" leaves     *)
(* for when the pull is over.  The remote and the branch are what they     *)
(* answer: a run of git ends well or fails in some way.                    *)
(***************************************************************************)
EXTENDS Naturals, FiniteSets

CONSTANTS
  MaxJobs, \* bound: jobs started
  Careful  \* what does not happen: an answer while a job runs ("answer"), a
           \* request while a question is open ("request")

ConstantsOK == MaxJobs \in Nat /\ Careful \subseteq {"answer", "request"}

VARIABLES
  upstream, dirty,     \* of the branch: as status has them
  due,                 \* the background fetch's time has come
  undoBusy,            \* an undo or redo is under way
  running,             \* SyncState::running: the job, and whether it is cancelled
  git,                 \* its git: "none", "runs", how it ended, or "killed"
  reply,               \* what the worker posts
  setting,             \* the worker that sets an upstream, and whether a pull follows
  prompt, form, confirm,
  thenPush,            \* the push to run once the pull succeeds
  asked,               \* NewBranchAsks has the branch
  failures, shown,     \* background failures since a success; history: toasts for them
  pending, journal,    \* pending_entries and the journal: how many entries
  landed,              \* history: runs that ended well and are to be journaled
  jobs

vars == <<upstream, dirty, due, undoBusy, running, git, reply, setting, prompt, form,
          confirm, thenPush, asked, failures, shown, pending, journal, landed, jobs>>

None == [kind |-> "none"]

\* asked is history: the user means this push to happen; follows, that the
\* pull is the one "Pull then push" asked for
Fetch(background) == [kind |-> "fetch", background |-> background]
Pull(autostash, follows) == [kind |-> "pull", autostash |-> autostash, follows |-> follows]
Push(what, force, isAsked) == [kind |-> "push", what |-> what, force |-> force, asked |-> isAsked]
Question(kind, push) == [kind |-> kind, push |-> push]

Init ==
  /\ upstream \in BOOLEAN /\ dirty \in BOOLEAN /\ due = TRUE /\ undoBusy = FALSE
  /\ running = None /\ git = "none" /\ reply = None /\ setting = None
  /\ prompt = None /\ form = None /\ confirm = None /\ thenPush = None
  /\ asked = FALSE /\ failures = 0 /\ shown = 0
  /\ pending = 0 /\ journal = 0 /\ landed = 0 /\ jobs = 0

Busy == running # None \/ undoBusy
MayAsk == jobs < MaxJobs /\ ("request" \in Careful => {prompt, form, confirm, setting} = {None})
MayAnswer == jobs < MaxJobs /\ ("answer" \in Careful => ~Busy /\ setting = None)

\* start_job: refused with a toast while another job or an undo is under way
StartJob(job) ==
  /\ IF Busy THEN UNCHANGED <<running, git, due, jobs>>
     ELSE /\ running' = [job |-> job, cancel |-> FALSE] /\ git' = "new"
          /\ due' = (due /\ job.kind # "fetch") /\ jobs' = jobs + 1

\* run_pull_plan: a rebase pull over changes asks first; then, unless it did or
\* a job runs, the push that was to follow is forgotten
PullPlan(up, follows, rebase) ==
  LET asks == up /\ dirty /\ rebase
  IN /\ IF up /\ ~asks THEN StartJob(Pull(FALSE, follows)) ELSE UNCHANGED <<running, git, due, jobs>>
     /\ prompt' = IF asks THEN [kind |-> "stash", follows |-> follows]
                  ELSE IF ~up THEN [kind |-> "upstream"] ELSE prompt

Kept(push) == IF prompt'.kind # "stash" /\ running' = None THEN None ELSE push

\* sync: what the user asks for in the toolbar, a menu or with a key
RequestFetch ==
  /\ MayAsk /\ StartJob(Fetch(FALSE))
  /\ UNCHANGED <<upstream, dirty, undoBusy, reply, setting, prompt, form, confirm, thenPush,
                 asked, failures, shown, pending, journal, landed>>

RequestPull ==
  /\ MayAsk /\ \E rebase \in BOOLEAN : PullPlan(upstream, FALSE, rebase)
  /\ thenPush' = Kept(thenPush)
  /\ UNCHANGED <<upstream, dirty, undoBusy, reply, setting, form, confirm,
                 asked, failures, shown, pending, journal, landed>>

\* request_push, with plan_push; a plain force is confirmed once the commits it
\* loses are read, a tag is deleted once that is confirmed
RequestPush(push) ==
  /\ MayAsk
  /\ IF push.force = "plain" \/ push.what = "delete"
     THEN confirm' = Question("confirm", push) /\ UNCHANGED <<prompt, running, git, due, jobs>>
     ELSE IF push.what = "branch" /\ ~upstream /\ ~asked
     THEN prompt' = Question("new", push) /\ UNCHANGED <<confirm, running, git, due, jobs>>
     ELSE StartJob(push) /\ UNCHANGED <<prompt, confirm>>
  /\ UNCHANGED <<upstream, dirty, undoBusy, reply, setting, form, thenPush,
                 asked, failures, shown, pending, journal, landed>>

\* on_prompt_choice; form is the choice of a remote, or of an upstream
Answer ==
  /\ prompt # None /\ MayAnswer
  /\ UNCHANGED <<upstream, dirty, undoBusy, reply, setting, confirm, failures, shown,
                 pending, journal, landed>>
  /\ \/ prompt' = None /\ thenPush' = None /\ UNCHANGED <<running, git, due, jobs, form, asked>>
     \/ /\ prompt.kind = "upstream" /\ prompt' = None /\ form' = [kind |-> "upstream"]
        /\ UNCHANGED <<running, git, due, jobs, asked, thenPush>>
     \/ /\ prompt.kind = "new" /\ prompt' = None /\ asked' = TRUE /\ UNCHANGED thenPush
        /\ \/ StartJob(prompt.push) /\ UNCHANGED form
           \/ form' = Question("remote", prompt.push) /\ UNCHANGED <<running, git, due, jobs>>
     \/ /\ prompt.kind = "rejected" /\ UNCHANGED <<form, asked>>
        /\ \E rebase \in BOOLEAN :
             LET push == prompt.push IN
             /\ IF upstream /\ ~(dirty /\ rebase)
                THEN prompt' = None /\ StartJob(Pull(FALSE, TRUE))
                ELSE /\ prompt' = IF upstream THEN [kind |-> "stash", follows |-> TRUE]
                                  ELSE [kind |-> "upstream"]
                     /\ UNCHANGED <<running, git, due, jobs>>
             /\ thenPush' = Kept(push)
     \/ /\ prompt.kind = "rejected" /\ prompt.push.force = "no" /\ prompt' = None
        /\ StartJob([prompt.push EXCEPT !.force = "lease"])
        /\ UNCHANGED <<form, asked, thenPush>>
     \/ /\ prompt.kind = "stash" /\ prompt' = None /\ StartJob(Pull(TRUE, prompt.follows))
        /\ UNCHANGED <<form, asked, thenPush>>

\* show_sync_confirm
Confirms ==
  /\ confirm # None /\ MayAnswer /\ confirm' = None
  /\ StartJob(confirm.push) \/ UNCHANGED <<running, git, due, jobs>>
  /\ UNCHANGED <<upstream, dirty, undoBusy, reply, setting, prompt, form, thenPush,
                 asked, failures, shown, pending, journal, landed>>

\* show_sync_form
Submits ==
  /\ form # None /\ MayAnswer /\ form' = None
  /\ \/ UNCHANGED <<running, git, due, jobs, setting>>
     \/ form.kind = "remote" /\ StartJob(form.push) /\ UNCHANGED setting
     \/ /\ form.kind = "upstream" /\ setting = None /\ setting' = [kind |-> "setting"]
        /\ UNCHANGED <<running, git, due, jobs>>
  /\ UNCHANGED <<upstream, dirty, undoBusy, reply, prompt, confirm, thenPush,
                 asked, failures, shown, pending, journal, landed>>

\* UpstreamSet: the entry, and the pull that was waiting for the upstream
OnUpstreamSet ==
  /\ setting # None /\ setting' = None
  /\ \/ UNCHANGED <<upstream, pending, landed, prompt, thenPush, running, git, due, jobs>>
     \/ /\ upstream' = TRUE /\ pending' = pending + 1 /\ landed' = landed + 1 /\ jobs < MaxJobs
        /\ \E rebase \in BOOLEAN : PullPlan(TRUE, FALSE, rebase)
        /\ thenPush' = Kept(thenPush)
  /\ UNCHANGED <<dirty, undoBusy, reply, form, confirm, asked, failures, shown, journal>>

\* the worker: run_streaming spawns nothing once cancelled
Finish(result) == reply' = [kind |-> "reply", result |-> result] /\ git' = "none"

Spawns ==
  /\ git = "new"
  /\ IF running.cancel THEN Finish("cancelled") ELSE git' = "runs" /\ UNCHANGED reply
  /\ UNCHANGED <<upstream, dirty, due, undoBusy, running, setting, prompt, form, confirm,
                 thenPush, asked, failures, shown, pending, journal, landed, jobs>>

Outcomes == {"ok", "offline", "failed"} \cup
  (IF running.job.kind = "pull" THEN {"dirty", "no upstream"} ELSE {}) \cup
  (IF running.job.kind = "push" /\ running.job.what = "branch" /\ running.job.force # "plain" THEN {"rejected"} ELSE {})

\* a failure that meets the signal is taken for the signal's doing
GitEnds ==
  /\ \/ git = "runs" /\ git' \in Outcomes
     \/ git = "dying" /\ git' = "ok"
  /\ landed' = landed + (IF git' = "ok" /\ running.job.kind # "fetch" THEN 1 ELSE 0)
  /\ UNCHANGED <<upstream, dirty, due, undoBusy, running, reply, setting, prompt, form, confirm,
                 thenPush, asked, failures, shown, pending, journal, jobs>>

\* a cancel seen while git runs: killed, unless it ends before the signal
Kills ==
  /\ git = "runs" /\ running.cancel /\ git' = "dying"
  /\ UNCHANGED <<upstream, dirty, due, undoBusy, running, reply, setting, prompt, form, confirm,
                 thenPush, asked, failures, shown, pending, journal, landed, jobs>>

\* what the worker reports of a git that has ended, or that the signal ended
Reported_Cancel(result) == IF running.cancel THEN "cancelled" ELSE result
Reported(result) == IF result = "dying" THEN "cancelled" ELSE result

Reports ==
  /\ git \notin {"none", "new", "runs"} /\ Finish(Reported(git))
  /\ UNCHANGED <<upstream, dirty, due, undoBusy, running, setting, prompt, form, confirm,
                 thenPush, asked, failures, shown, pending, journal, landed, jobs>>

Cancel ==
  /\ running # None /\ ~running.cancel /\ running' = [running EXCEPT !.cancel = TRUE]
  /\ UNCHANGED <<upstream, dirty, due, undoBusy, git, reply, setting, prompt, form, confirm,
                 thenPush, asked, failures, shown, pending, journal, landed, jobs>>

Is(kind) == reply # None /\ running.job.kind = kind

\* Fetched, and BackgroundFetch::finished: a toast for a first failure only
OnFetched ==
  LET bad == reply.result = "failed" IN
  /\ Is("fetch") /\ reply' = None /\ running' = None
  /\ failures' = IF reply.result = "ok" THEN 0
                 ELSE IF bad /\ running.job.background /\ failures < 2 THEN failures + 1 ELSE failures
  /\ shown' = IF reply.result = "ok" THEN 0
              ELSE IF bad /\ running.job.background /\ failures = 0 THEN shown + 1 ELSE shown
  /\ UNCHANGED <<upstream, dirty, due, undoBusy, git, setting, prompt, form, confirm, thenPush,
                 asked, pending, journal, landed, jobs>>

\* Pulled and apply_pulled: the push that was to follow runs, or is forgotten
Leaves_OnSuccess(result) == IF result = "ok" THEN None ELSE thenPush
Leaves(result) == None

OnPulled ==
  LET result == reply.result IN
  /\ Is("pull") /\ reply' = None /\ thenPush' = Leaves(result)
  /\ pending' = pending + (IF result = "ok" THEN 1 ELSE 0)
  /\ IF result = "ok" /\ thenPush # None
     THEN /\ running' = [job |-> [thenPush EXCEPT !.asked = running.job.follows], cancel |-> FALSE]
          /\ git' = "new" /\ jobs' = jobs + 1
     ELSE running' = None /\ UNCHANGED <<git, jobs>>
  /\ prompt' = CASE result = "dirty" -> [kind |-> "stash", follows |-> FALSE]
                 [] result = "no upstream" -> [kind |-> "upstream"]
                 [] OTHER -> prompt
  /\ UNCHANGED <<upstream, dirty, due, undoBusy, setting, form, confirm, asked, failures, shown,
                 journal, landed>>

OnPushed ==
  /\ Is("push") /\ reply' = None /\ running' = None
  /\ pending' = pending + (IF reply.result = "ok" THEN 1 ELSE 0)
  /\ prompt' = IF reply.result = "rejected" THEN Question("rejected", running.job) ELSE prompt
  /\ UNCHANGED <<upstream, dirty, due, undoBusy, git, setting, form, confirm, thenPush, asked,
                 failures, shown, journal, landed, jobs>>

\* sync_tick: the entries, unless an undo has the journal, and a due fetch
Flush ==
  /\ pending > 0 /\ ~undoBusy /\ journal' = journal + pending /\ pending' = 0
  /\ UNCHANGED <<upstream, dirty, due, undoBusy, running, git, reply, setting, prompt, form,
                 confirm, thenPush, asked, failures, shown, landed, jobs>>

BackgroundFetch ==
  /\ due /\ ~Busy /\ jobs < MaxJobs /\ StartJob(Fetch(TRUE))
  /\ UNCHANGED <<upstream, dirty, undoBusy, reply, setting, prompt, form, confirm, thenPush,
                 asked, failures, shown, pending, journal, landed>>

\* time, a terminal, and the pane's undo, which waits for the job
Elsewhere ==
  /\ due' \in {due, TRUE} /\ dirty' \in BOOLEAN
  /\ undoBusy' \in IF running = None THEN BOOLEAN ELSE {undoBusy}
  /\ UNCHANGED <<upstream, running, git, reply, setting, prompt, form, confirm, thenPush,
                 asked, failures, shown, pending, journal, landed, jobs>>

Requests == {Push("branch", f, TRUE) : f \in {"no", "lease", "plain"}}
              \cup {Push(w, "no", TRUE) : w \in {"tag", "delete"}}

Next ==
  \/ RequestFetch \/ RequestPull \/ \E push \in Requests : RequestPush(push)
  \/ Answer \/ Confirms \/ Submits \/ OnUpstreamSet
  \/ Spawns \/ GitEnds \/ Kills \/ Reports \/ Cancel
  \/ OnFetched \/ OnPulled \/ OnPushed \/ Flush \/ BackgroundFetch \/ Elsewhere

Spec == Init /\ [][Next]_vars

-----------------------------------------------------------------------------
\* A push runs only because the user asked for it: by itself, or to follow the
\* pull that has just succeeded.
PushesAreAsked == running # None /\ running.job.kind = "push" => running.job.asked

\* A pull or push whose git ended well is journaled even when it was cancelled
\* too late, one at a time; a background fetch that keeps failing says so once.
EndedIsReported ==
  /\ running = None => landed = journal + pending
  /\ ~(running # None /\ undoBusy)
  /\ shown <= 1
=============================================================================
