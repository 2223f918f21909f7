---------------------------- MODULE MCGitProofs ----------------------------
(***************************************************************************)
(* Proofs about the git pane: its fetch, pull and push (SyncJobs) for any  *)
(* number of jobs, its interactive rebase (RebaseRun) for any branch,      *)
(* plans, and number of rebases, the lanes of its commit graph             *)
(* (GraphLanes) for any log, and how it follows its repository             *)
(* (PaneRefresh) for any number of changes and reads.                      *)
(*                                                                         *)
(* The jobs: a job has a worker or its reply is on the way, and what       *)
(* landed is journaled, waits to be, or is this job's (WorkInv): so        *)
(* whatever is cancelled, nothing that ended well is forgotten.  A push    *)
(* passes from a question to a form, or from the rejected push to the one  *)
(* that follows a pull, always as it was asked for (AskInv); that one is   *)
(* left only while its own pull runs or waits for an answer (FollowInv),   *)
(* because no form is open while a job might ask (FormInv) and only a      *)
(* push to a branch is rejected (RejectInv).                               *)
(*                                                                         *)
(* The rebase: some list b is where the last rebase started, for all that  *)
(* is held or on its way (OwnInv, ProbeInv, DirInv).  git refuses a plan   *)
(* that misses a commit, and every commit of a list holds one made before  *)
(* (Old), so a commit made in a terminal is in no list and a branch that   *)
(* has moved is never taken for b again (Untold).  The end of a rebase is  *)
(* thus in a reply on its way (Told), in what the next probe reads         *)
(* (Untold), or journaled (EndedInv), and journaled only once, when the    *)
(* pane has let go of it (JournalInv).                                     *)
(*                                                                         *)
(* The lanes: a row whose lines lead to the parents joined so far          *)
(* (LinesTo) leads to one more after Join and loses none (JoinKeeps), so   *)
(* the row that is laid out leads to them all and lets every lane that     *)
(* waits for another commit pass (Drawn); the lanes a commit's lines leave *)
(* it in are then those that wait for the parents yet to come.             *)
(*                                                                         *)
(* The refresh: a generation has one read of each kind (OneInv), so no     *)
(* reply is older than what is shown (NewInv).  The graph, and each page   *)
(* on its way, is of a log as new as the last status or the last refs, as  *)
(* long as a change of the other has it read again (Covered); a page that  *)
(* went below rows of an older log is one that such a change is still to   *)
(* replace (Doomed).                                                       *)
(***************************************************************************)
EXTENDS MCGit, Sequences, FiniteSetTheorems, TLAPS

(* Jobs, what git ends with, and what is asked of the user.                 *)
Pushes ==
  [kind : {"push"}, what : {"branch", "tag", "delete"}, force : {"no", "lease", "plain"}, asked : BOOLEAN]
Fetches == [kind : {"fetch"}, background : BOOLEAN]
PullJobs == [kind : {"pull"}, autostash : BOOLEAN, follows : BOOLEAN]
Jobs == Fetches \cup PullJobs \cup Pushes
Results == {"ok", "offline", "failed", "dirty", "no upstream", "rejected", "cancelled"}
Stashes == [kind : {"stash"}, follows : BOOLEAN]
Questions(kind) == [kind : {kind}, push : Pushes]

RunningType == {SJ!None} \cup [job : Jobs, cancel : BOOLEAN]
GitType == {"none", "new", "runs", "dying"} \cup Results
ReplyType == {SJ!None} \cup [kind : {"reply"}, result : Results]
SettingType == {SJ!None, [kind |-> "setting"]}
PromptType == {SJ!None, [kind |-> "upstream"]} \cup Stashes \cup Questions("new")
    \cup Questions("rejected")
ConfirmType == {SJ!None} \cup Questions("confirm")
FormType == {SJ!None, [kind |-> "upstream"]} \cup Questions("remote")
PushType == {SJ!None} \cup Pushes

JobTypes == running \in RunningType /\ git \in GitType /\ due \in BOOLEAN /\ jobs \in Nat
AskTypes ==
  /\ setting \in SettingType /\ prompt \in PromptType /\ confirm \in ConfirmType /\ form \in FormType
  /\ thenPush \in PushType
RestTypes ==
  /\ upstream \in BOOLEAN /\ dirty \in BOOLEAN /\ undoBusy \in BOOLEAN
  /\ reply \in ReplyType
  /\ asked \in BOOLEAN /\ failures \in 0 .. 2 /\ shown \in Nat
  /\ pending \in Nat /\ recorded \in Nat /\ landed \in Nat
SyncTypes == JobTypes /\ AskTypes /\ RestTypes

Pulls == running # SJ!None /\ running.job.kind = "pull"
Rejectable ==
  /\ running # SJ!None /\ running.job.kind = "push"
  /\ running.job.what = "branch" /\ running.job.force # "plain"

\* what is still to be journaled of a run of git that ended so
Counted(result) == IF result = "ok" /\ running.job.kind # "fetch" THEN 1 ELSE 0

(* A worker has the job, or its reply is on the way; what landed is         *)
(* journaled, waits to be, or is this job's.                                *)
WorkInv ==
  /\ running = SJ!None => git = "none" /\ reply = SJ!None /\ landed = recorded + pending
  /\ running # SJ!None =>
       /\ ~undoBusy
       /\ git = "none" => reply # SJ!None /\ landed = recorded + pending + Counted(reply.result)
       /\ git # "none" => reply = SJ!None /\ landed = recorded + pending + Counted(git)
  /\ shown <= 1 /\ (failures = 0 => shown = 0)

(* Every push that runs, or waits for an answer, was asked for.             *)
AskInv ==
  /\ prompt.kind \in {"new", "rejected"} => prompt.push.asked
  /\ confirm # SJ!None =>
       confirm.push.asked /\ (confirm.push.force = "plain" \/ confirm.push.what = "delete")
  /\ form.kind = "remote" => form.push.asked
  /\ running # SJ!None /\ running.job.kind = "push" => running.job.asked

(* Only a push to a branch that is not forced is rejected.                  *)
RejectInv ==
  /\ git = "rejected" => Rejectable
  /\ reply # SJ!None /\ reply.result = "rejected" => Rejectable

(* A form is open, or an upstream being set, with nothing else to answer    *)
(* and no job that might ask.                                               *)
FormInv ==
  /\ form # SJ!None \/ setting # SJ!None =>
       prompt = SJ!None /\ thenPush = SJ!None /\ ~Pulls /\ ~Rejectable
  /\ form = SJ!None \/ setting = SJ!None

(* The push left for later follows the pull asked for with it, which runs   *)
(* or waits for an answer about the changes.                                *)
FollowInv ==
  thenPush # SJ!None =>
    \/ Pulls /\ running.job.follows
    \/ prompt = [kind |-> "stash", follows |-> TRUE] /\ ~Pulls /\ ~Rejectable

PushInv == AskInv /\ RejectInv /\ FormInv /\ FollowInv

-----------------------------------------------------------------------------
(* What there is to run, to ask and to answer.                              *)
LEMMA JobFacts ==
  /\ Pushes \subseteq Jobs /\ Fetches \subseteq Jobs /\ PullJobs \subseteq Jobs
  /\ \A b \in BOOLEAN : SJ!Fetch(b) \in Fetches
  /\ \A a, f \in BOOLEAN : SJ!Pull(a, f) \in PullJobs
  /\ \A p \in Pushes : [p EXCEPT !.force = "lease"] \in Pushes
  /\ \A p \in Pushes, b \in BOOLEAN : [p EXCEPT !.asked = b] \in Pushes
  /\ SJ!Requests \subseteq Pushes
<1>1. Pushes \subseteq Jobs /\ Fetches \subseteq Jobs /\ PullJobs \subseteq Jobs
  BY DEF Jobs
<1>2. \A b \in BOOLEAN : SJ!Fetch(b) \in Fetches
  BY DEF Fetches, SJ!Fetch
<1>3. \A a, f \in BOOLEAN : SJ!Pull(a, f) \in PullJobs
  BY DEF PullJobs, SJ!Pull
<1>4. \A p \in Pushes : [p EXCEPT !.force = "lease"] \in Pushes
  BY DEF Pushes
<1>5. \A p \in Pushes, b \in BOOLEAN : [p EXCEPT !.asked = b] \in Pushes
  BY DEF Pushes
<1>6. SJ!Requests \subseteq Pushes
  <2>1. \A w \in {"branch", "tag", "delete"}, f \in {"no", "lease", "plain"}
        : SJ!Push(w, f, TRUE) \in Pushes
    BY DEF SJ!Push, Pushes
  <2> QED  BY <2>1 DEF SJ!Requests
<1> QED  BY <1>1, <1>2, <1>3, <1>4, <1>5, <1>6

(* A job is of the set its kind names.                                      *)
LEMMA JobKinds ==
  ASSUME NEW job \in Jobs
  PROVE  /\ job.kind = "push" => job \in Pushes
         /\ job.kind = "fetch" => job \in Fetches
         /\ job.kind = "pull" => job \in PullJobs
  BY DEF Jobs, Pushes, Fetches, PullJobs

(* What a job of each kind carries.                                         *)
LEMMA PushFacts ==
  /\ \A p \in Pushes : p.kind = "push" /\ p.asked \in BOOLEAN /\ p # SJ!None
  /\ \A p \in PullJobs : p.kind = "pull" /\ p.follows \in BOOLEAN
  /\ \A p \in Fetches : p.kind = "fetch"
  BY DEF Pushes, PullJobs, Fetches, SJ!None

(* Forcing a push, or saying whether it was asked for, changes nothing else *)
(* of it.                                                                   *)
LEMMA PushEdits ==
  /\ \A p \in Pushes : LET q == [p EXCEPT !.force = "lease"]
                       IN q.asked = p.asked /\ q.what = p.what /\ q.force = "lease"
  /\ \A p \in Pushes, b \in BOOLEAN : LET q == [p EXCEPT !.asked = b]
                       IN q.asked = b /\ q.what = p.what /\ q.force = p.force
  BY DEF Pushes

(* A job that runs is not None.                                             *)
LEMMA NotRunning == \A j, c : [job |-> j, cancel |-> c] # SJ!None
  BY DEF SJ!None

(* The job that runs, and a cancel of it.                                   *)
LEMMA RunningFacts ==
  /\ SJ!None \in RunningType
  /\ \A j \in Jobs, c \in BOOLEAN :
       /\ [job |-> j, cancel |-> c] \in RunningType /\ [job |-> j, cancel |-> c] # SJ!None
       /\ [job |-> j, cancel |-> c].job = j /\ [job |-> j, cancel |-> c].cancel = c
  /\ \A r \in RunningType : r # SJ!None =>
       /\ r.job \in Jobs /\ r.cancel \in BOOLEAN
       /\ [r EXCEPT !.cancel = TRUE] = [job |-> r.job, cancel |-> TRUE]
<1>2. ASSUME NEW r \in [job : Jobs, cancel : BOOLEAN]
      PROVE  /\ r.job \in Jobs /\ r.cancel \in BOOLEAN
             /\ [r EXCEPT !.cancel = TRUE] = [job |-> r.job, cancel |-> TRUE]
  <2> DEFINE e == [r EXCEPT !.cancel = TRUE]
  <2>1. e \in [job : Jobs, cancel : BOOLEAN] /\ e.job = r.job /\ e.cancel = TRUE
    OBVIOUS
  <2> HIDE DEF e
  <2>2. e = [job |-> e.job, cancel |-> e.cancel]
    BY <2>1
  <2> QED  BY <2>1, <2>2 DEF e
<1> QED  BY <1>2, NotRunning DEF RunningType

(* Nothing asked is no question.                                            *)
LEMMA NoneKind == SJ!None.kind = "none" /\ \A f : SJ!None # [kind |-> "stash", follows |-> f]
  BY DEF SJ!None

(* What the user requests is asked for.                                     *)
LEMMA RequestsAsked == \A push \in SJ!Requests : push.asked
<1>1. \A w, f : SJ!Push(w, f, TRUE).asked
  BY DEF SJ!Push
<1> QED  BY <1>1 DEF SJ!Requests

(* A question about a push has its kind and that push.                      *)
LEMMA QuestionFacts ==
  ASSUME NEW kind
  PROVE  /\ \A p \in Pushes :
              /\ SJ!Question(kind, p) \in Questions(kind)
         /\ \A q \in Questions(kind) : q # SJ!None /\ q.kind = kind /\ q.push \in Pushes
         /\ \A p : /\ SJ!Question(kind, p).kind = kind /\ SJ!Question(kind, p).push = p
                   /\ SJ!Question(kind, p) # SJ!None
  BY DEF SJ!Question, Questions, SJ!None

(* None is no message, and messages have the fields they are made with.     *)
LEMMA NoneFacts ==
  /\ SJ!None.kind = "none"
  /\ \A k : [kind |-> k].kind = k
  /\ \A k, f : [kind |-> k, follows |-> f].kind = k /\ [kind |-> k, follows |-> f].follows = f
                /\ [kind |-> k, follows |-> f] # SJ!None
  /\ \A k, r : [kind |-> k, result |-> r].result = r /\ [kind |-> k, result |-> r] # SJ!None
  /\ [kind |-> "upstream"] # SJ!None /\ [kind |-> "setting"] # SJ!None
<1>1. \A k, f : [kind |-> k, follows |-> f] # SJ!None
  BY DEF SJ!None
<1>2. \A k, r : [kind |-> k, result |-> r] # SJ!None
  BY DEF SJ!None
<1>3. [kind |-> "upstream"] # SJ!None /\ [kind |-> "setting"] # SJ!None
  BY DEF SJ!None
<1>4. SJ!None.kind = "none"
  BY DEF SJ!None
<1> QED  BY <1>1, <1>2, <1>3, <1>4

(* The toasts with buttons.                                                 *)
LEMMA PromptFacts ==
  /\ SJ!None \in PromptType /\ [kind |-> "upstream"] \in PromptType
  /\ \A f \in BOOLEAN : [kind |-> "stash", follows |-> f] \in PromptType
  /\ Questions("new") \subseteq PromptType /\ Questions("rejected") \subseteq PromptType
  /\ \A p \in PromptType :
       /\ p.kind \in {"new", "rejected"} => p \in Questions(p.kind) /\ p.push \in Pushes
       /\ p.kind = "stash" => p = [kind |-> "stash", follows |-> p.follows] /\ p.follows \in BOOLEAN
       /\ p.kind = "none" => p = SJ!None
<1>1. \A p \in Stashes :
        p.kind = "stash" /\ p = [kind |-> "stash", follows |-> p.follows]
          /\ p.follows \in BOOLEAN
  BY DEF Stashes
<1>2. \A f \in BOOLEAN : [kind |-> "stash", follows |-> f] \in Stashes
  BY DEF Stashes
<1> QED  BY <1>1, <1>2, NoneFacts, QuestionFacts DEF PromptType

(* The forms, confirmations, and the push left for later.                   *)
LEMMA FormFacts ==
  /\ SJ!None \in FormType /\ [kind |-> "upstream"] \in FormType /\ Questions("remote") \subseteq FormType
  /\ \A f \in FormType : f.kind = "remote" => f.push \in Pushes
  /\ SJ!None \in ConfirmType /\ Questions("confirm") \subseteq ConfirmType
  /\ \A c \in ConfirmType : c # SJ!None => c.push \in Pushes
  /\ SJ!None \in SettingType /\ [kind |-> "setting"] \in SettingType
  /\ SJ!None \in PushType /\ Pushes \subseteq PushType
  /\ \A p \in PushType : p # SJ!None => p \in Pushes
  BY NoneFacts, QuestionFacts DEF FormType, ConfirmType, SettingType, PushType

(* What a worker may reply, and what git may end with.                      *)
LEMMA ReplyFacts ==
  /\ SJ!None \in ReplyType
  /\ \A r \in Results : LET said == [kind |-> "reply", result |-> r]
                        IN  said \in ReplyType /\ said # SJ!None /\ said.result = r
  /\ \A a \in ReplyType : a # SJ!None => a.result \in Results
  /\ Results \subseteq GitType /\ {"none", "new", "runs", "dying"} \subseteq GitType
  /\ \A g \in GitType : g \notin {"none", "new", "runs"} => SJ!Reported(g) \in Results
  BY NoneFacts DEF ReplyType, GitType, Results, SJ!Reported

-----------------------------------------------------------------------------
(* What start_job and run_pull_plan leave behind, whoever calls them.       *)
Same == UNCHANGED <<running, git, due, jobs>>
Starts(job) == ~SJ!Busy /\ running' = [job |-> job, cancel |-> FALSE] /\ git' = "new"

(* start_job starts the job, or is refused and changes nothing.             *)
LEMMA StartFacts ==
  ASSUME JobTypes, NEW job \in Jobs, SJ!StartJob(job)
  PROVE  /\ JobTypes'
         /\ Starts(job) \/ (SJ!Busy /\ Same)
<1>1. CASE SJ!Busy
  BY <1>1 DEF SJ!StartJob, JobTypes, Same
<1>2. CASE ~SJ!Busy
  <2>1. /\ running' = [job |-> job, cancel |-> FALSE] /\ git' = "new"
        /\ due' = (due /\ job.kind # "fetch") /\ jobs' = jobs + 1
    BY <1>2 DEF SJ!StartJob
  <2>2. running' \in RunningType /\ git' \in GitType
    BY <2>1, RunningFacts, ReplyFacts
  <2>3. due' \in BOOLEAN /\ jobs' \in Nat
    BY <2>1 DEF JobTypes
  <2> QED  BY <1>2, <2>1, <2>2, <2>3 DEF JobTypes, Starts
<1> QED  BY <1>1, <1>2

(* A step that leaves the job alone.                                        *)
LEMMA SameTypes == ASSUME JobTypes, Same PROVE JobTypes'
  BY DEF JobTypes, Same

(* run_pull_plan asks about the changes, asks for an upstream, or starts a  *)
(* pull.                                                                    *)
LEMMA PlanFacts ==
  ASSUME JobTypes, AskTypes, NEW up \in BOOLEAN, NEW follows \in BOOLEAN, NEW rebase \in BOOLEAN,
         SJ!PullPlan(up, follows, rebase)
  PROVE  /\ JobTypes' /\ prompt' \in PromptType
         /\ \/ Same /\ prompt' = [kind |-> "stash", follows |-> follows]
            \/ Same /\ ~up /\ prompt' = [kind |-> "upstream"]
            \/ up /\ prompt' = prompt /\ (Starts(SJ!Pull(FALSE, follows)) \/ (SJ!Busy /\ Same))
<1> DEFINE asks == up /\ dirty /\ rebase
<1>1. /\ IF up /\ ~asks THEN SJ!StartJob(SJ!Pull(FALSE, follows)) ELSE Same
      /\ prompt' = IF asks THEN [kind |-> "stash", follows |-> follows]
                   ELSE IF ~up THEN [kind |-> "upstream"] ELSE prompt
  BY DEF SJ!PullPlan, Same
<1>2. asks => up
  OBVIOUS
<1> HIDE DEF asks
<1>3. CASE asks
  BY <1>1, <1>2, <1>3, SameTypes, PromptFacts
<1>4. CASE ~asks /\ ~up
  BY <1>1, <1>4, SameTypes, PromptFacts
<1>5. CASE ~asks /\ up
  BY <1>1, <1>5, JobFacts, StartFacts DEF AskTypes
<1> QED  BY <1>3, <1>4, <1>5

(* The push left for later is kept while its pull runs or asks.             *)
LEMMA KeptFacts ==
  ASSUME NEW push
  PROVE  /\ SJ!Kept(push) \in {SJ!None, push}
         /\ prompt'.kind = "stash" \/ running' # SJ!None => SJ!Kept(push) = push
         /\ prompt'.kind # "stash" /\ running' = SJ!None => SJ!Kept(push) = SJ!None
  BY DEF SJ!Kept

-----------------------------------------------------------------------------
(* Types after an answer to a toast (on_prompt_choice).                     *)
LEMMA AnswerFacts ==
  ASSUME SyncTypes, SJ!Answer
  PROVE  JobTypes' /\ AskTypes' /\ asked' \in BOOLEAN
<1>1. /\ prompt # SJ!None /\ SJ!MayAnswer
      /\ UNCHANGED <<upstream, dirty, undoBusy, reply, setting, confirm,
                    failures, shown, pending, recorded, landed>>
  BY DEF SJ!Answer
<1>2. CASE prompt' = SJ!None /\ thenPush' = SJ!None /\ UNCHANGED <<running, git, due, jobs, form, asked>>
  BY <1>1, <1>2, PromptFacts, FormFacts, SameTypes DEF SyncTypes, AskTypes, RestTypes, Same
<1>3. CASE /\ prompt.kind = "upstream" /\ prompt' = SJ!None /\ form' = [kind |-> "upstream"]
           /\ UNCHANGED <<running, git, due, jobs, asked, thenPush>>
  BY <1>1, <1>3, PromptFacts, FormFacts, SameTypes DEF SyncTypes, AskTypes, RestTypes, Same
<1>4. CASE /\ prompt.kind = "new" /\ prompt' = SJ!None /\ asked' = TRUE /\ UNCHANGED thenPush
           /\ \/ SJ!StartJob(prompt.push) /\ UNCHANGED form
              \/ form' = SJ!Question("remote", prompt.push) /\ UNCHANGED <<running, git, due, jobs>>
  <2>1. prompt.push \in Pushes /\ prompt.push \in Jobs
    BY <1>4, PromptFacts, JobFacts DEF SyncTypes, AskTypes
  <2>2. form' \in FormType
    BY <1>4, <2>1, FormFacts, QuestionFacts DEF SyncTypes, AskTypes
  <2>3. JobTypes'
    BY <1>4, <2>1, StartFacts, SameTypes DEF SyncTypes, Same
  <2> QED  BY <1>1, <1>4, <2>2, <2>3, PromptFacts DEF SyncTypes, AskTypes
<1>5. CASE /\ prompt.kind = "rejected" /\ UNCHANGED <<form, asked>>
           /\ \E rebase \in BOOLEAN :
                LET push == prompt.push IN
                /\ IF upstream /\ ~(dirty /\ rebase)
                   THEN prompt' = SJ!None /\ SJ!StartJob(SJ!Pull(FALSE, TRUE))
                   ELSE /\ prompt' = IF upstream THEN [kind |-> "stash", follows |-> TRUE]
                                     ELSE [kind |-> "upstream"]
                        /\ UNCHANGED <<running, git, due, jobs>>
                /\ thenPush' = SJ!Kept(push)
  <2>1. prompt.push \in Pushes
    BY <1>5, PromptFacts DEF SyncTypes, AskTypes
  <2>2. thenPush' \in PushType
    BY <1>5, <2>1, KeptFacts, FormFacts
  <2>3. \/ prompt' = SJ!None /\ SJ!StartJob(SJ!Pull(FALSE, TRUE))
        \/ prompt' \in {[kind |-> "stash", follows |-> TRUE], [kind |-> "upstream"]} /\ Same
    BY <1>5 DEF Same
  <2>4. JobTypes' /\ prompt' \in PromptType
    BY <2>3, StartFacts, SameTypes, JobFacts, PromptFacts DEF SyncTypes
  <2> QED  BY <1>1, <1>5, <2>2, <2>4 DEF SyncTypes, AskTypes, RestTypes
<1>6. CASE /\ prompt.kind = "rejected" /\ prompt.push.force = "no" /\ prompt' = SJ!None
           /\ SJ!StartJob([prompt.push EXCEPT !.force = "lease"])
           /\ UNCHANGED <<form, asked, thenPush>>
  <2>1. [prompt.push EXCEPT !.force = "lease"] \in Jobs
    BY <1>6, PromptFacts, JobFacts DEF SyncTypes, AskTypes
  <2>2. JobTypes'
    BY <1>6, <2>1, StartFacts DEF SyncTypes
  <2> QED  BY <1>1, <1>6, <2>2, PromptFacts DEF SyncTypes, AskTypes, RestTypes
<1>7. CASE /\ prompt.kind = "stash" /\ prompt' = SJ!None /\ SJ!StartJob(SJ!Pull(TRUE, prompt.follows))
           /\ UNCHANGED <<form, asked, thenPush>>
  <2>1. SJ!Pull(TRUE, prompt.follows) \in Jobs
    BY <1>7, PromptFacts, JobFacts DEF SyncTypes, AskTypes
  <2>2. JobTypes'
    BY <1>7, <2>1, StartFacts DEF SyncTypes
  <2> QED  BY <1>1, <1>7, <2>2, PromptFacts DEF SyncTypes, AskTypes, RestTypes
<1> QED
  BY <1>2, <1>3, <1>4, <1>5, <1>6, <1>7 DEF SJ!Answer

(* Every step preserves the types: a reply is of a job, which is known.     *)
LEMMA SyncTypeStep == ASSUME SyncTypes, WorkInv, [SJ!Next]_SJ!vars PROVE SyncTypes'
<1>1. CASE SJ!RequestFetch
  <2>1. JobTypes'
    BY <1>1, JobFacts, StartFacts DEF SJ!RequestFetch, SyncTypes
  <2> QED  BY <1>1, <2>1 DEF SJ!RequestFetch, SyncTypes, AskTypes, RestTypes
<1>2. CASE SJ!RequestPull
  <2>1. PICK rebase \in BOOLEAN : SJ!PullPlan(upstream, FALSE, rebase)
    BY <1>2 DEF SJ!RequestPull
  <2>2. JobTypes' /\ prompt' \in PromptType
    BY <2>1, PlanFacts DEF SyncTypes, RestTypes
  <2>3. thenPush' \in PushType
    BY <1>2, KeptFacts, FormFacts DEF SJ!RequestPull, SyncTypes, AskTypes
  <2> QED  BY <1>2, <2>2, <2>3 DEF SJ!RequestPull, SyncTypes, AskTypes, RestTypes
<1>3. ASSUME NEW push \in SJ!Requests, SJ!RequestPush(push)  PROVE SyncTypes'
  <2>1. push \in Pushes /\ push \in Jobs
    BY JobFacts
  <2>2. \/ confirm' = SJ!Question("confirm", push) /\ prompt' = prompt /\ Same
        \/ prompt' = SJ!Question("new", push) /\ confirm' = confirm /\ Same
        \/ SJ!StartJob(push) /\ prompt' = prompt /\ confirm' = confirm
    BY <1>3 DEF SJ!RequestPush, Same
  <2>3. JobTypes'
    BY <2>1, <2>2, StartFacts, SameTypes DEF SyncTypes
  <2>4. prompt' \in PromptType /\ confirm' \in ConfirmType
    BY <2>1, <2>2, QuestionFacts, PromptFacts, FormFacts DEF SyncTypes, AskTypes
  <2> QED  BY <1>3, <2>3, <2>4 DEF SJ!RequestPush, SyncTypes, AskTypes, RestTypes
<1>4. CASE SJ!Answer
  <2>1. UNCHANGED <<upstream, dirty, undoBusy, reply, failures, shown, pending, recorded, landed>>
    BY <1>4 DEF SJ!Answer
  <2> QED  BY <1>4, <2>1, AnswerFacts DEF SyncTypes, RestTypes
<1>5. CASE SJ!Confirms
  <2>1. confirm.push \in Jobs
    BY <1>5, FormFacts, JobFacts DEF SJ!Confirms, SyncTypes, AskTypes
  <2>2. JobTypes'
    BY <1>5, <2>1, StartFacts, SameTypes DEF SJ!Confirms, SyncTypes, Same
  <2> QED  BY <1>5, <2>2, FormFacts DEF SJ!Confirms, SyncTypes, AskTypes, RestTypes
<1>6. CASE SJ!Submits
  <2>1. form.kind = "remote" => form.push \in Jobs
    BY FormFacts, JobFacts DEF SyncTypes, AskTypes
  <2>2. /\ Same \/ (form.kind = "remote" /\ SJ!StartJob(form.push))
        /\ setting' \in {setting, [kind |-> "setting"]}
    BY <1>6 DEF SJ!Submits, Same
  <2>3. JobTypes'
    BY <2>1, <2>2, StartFacts, SameTypes DEF SyncTypes
  <2> QED  BY <1>6, <2>2, <2>3, FormFacts DEF SJ!Submits, SyncTypes, AskTypes, RestTypes
<1>7. CASE SJ!OnUpstreamSet
  <2>1. /\ thenPush' = thenPush \/ thenPush' = SJ!Kept(thenPush)
        /\ (prompt' = prompt /\ Same) \/ (\E rebase \in BOOLEAN : SJ!PullPlan(TRUE, FALSE, rebase))
        /\ upstream' = upstream \/ upstream' = TRUE
        /\ pending' \in {pending, pending + 1} /\ landed' \in {landed, landed + 1}
    BY <1>7 DEF SJ!OnUpstreamSet, Same
  <2>2. JobTypes' /\ prompt' \in PromptType
    BY <2>1, PlanFacts, SameTypes DEF SyncTypes, AskTypes
  <2>3. thenPush' \in PushType
    BY <2>1, KeptFacts, FormFacts DEF SyncTypes, AskTypes
  <2>4. upstream' \in BOOLEAN /\ pending' \in Nat /\ landed' \in Nat
    <3>1. upstream \in BOOLEAN /\ pending \in Nat /\ landed \in Nat
      BY DEF SyncTypes, RestTypes
    <3>2. upstream' \in BOOLEAN
      BY <2>1, <3>1
    <3>3. pending' \in Nat /\ landed' \in Nat
      BY <2>1, <3>1
    <3> QED  BY <3>2, <3>3
  <2> QED  BY <1>7, <2>2, <2>3, <2>4, FormFacts DEF SJ!OnUpstreamSet, SyncTypes, AskTypes, RestTypes
<1>8. CASE SJ!Spawns
  <2>1. \/ git' = "none" /\ reply' = [kind |-> "reply", result |-> "cancelled"]
        \/ git' = "runs" /\ reply' = reply
    BY <1>8 DEF SJ!Spawns, SJ!Finish
  <2>2. git' \in GitType /\ reply' \in ReplyType
    BY <2>1, ReplyFacts DEF Results, SyncTypes, RestTypes
  <2> QED  BY <1>8, <2>2 DEF SJ!Spawns, SyncTypes, JobTypes, AskTypes, RestTypes
<1>9. CASE SJ!GitEnds
  <2>1. git' \in Results
    BY <1>9 DEF SJ!GitEnds, SJ!Outcomes, Results
  <2>2. landed' \in Nat
    <3>1. landed' = landed \/ landed' = landed + 1
      BY <1>9 DEF SJ!GitEnds, SyncTypes, RestTypes
    <3> QED  BY <3>1 DEF SyncTypes, RestTypes
  <2> QED  BY <1>9, <2>1, <2>2, ReplyFacts DEF SJ!GitEnds, SyncTypes, JobTypes, AskTypes, RestTypes
<1>10. CASE SJ!Kills
  BY <1>10, ReplyFacts DEF SJ!Kills, SyncTypes, JobTypes, AskTypes, RestTypes
<1>11. CASE SJ!Reports
  <2>1. /\ git' = "none" /\ reply' = [kind |-> "reply", result |-> SJ!Reported(git)]
        /\ SJ!Reported(git) \in Results
    BY <1>11, ReplyFacts DEF SJ!Reports, SJ!Finish, SyncTypes, JobTypes
  <2>2. git' \in GitType /\ reply' \in ReplyType
    BY <2>1, ReplyFacts
  <2> QED  BY <1>11, <2>2 DEF SJ!Reports, SyncTypes, JobTypes, AskTypes, RestTypes
<1>12. CASE SJ!Cancel
  <2>1. running' \in RunningType
    <3>1. running # SJ!None /\ running' = [running EXCEPT !.cancel = TRUE]
      BY <1>12 DEF SJ!Cancel
    <3>2. running.job \in Jobs /\ running' = [job |-> running.job, cancel |-> TRUE]
      BY <3>1, RunningFacts DEF SyncTypes, JobTypes
    <3> QED  BY <3>2, RunningFacts
  <2> QED  BY <1>12, <2>1 DEF SJ!Cancel, SyncTypes, JobTypes, AskTypes, RestTypes
<1>13. CASE SJ!OnFetched
  <2>1. /\ failures' \in {0, failures} \/ (failures < 2 /\ failures' = failures + 1)
        /\ shown' \in {0, shown, shown + 1}
    BY <1>13 DEF SJ!OnFetched
  <2>2. failures' \in 0 .. 2 /\ shown' \in Nat
    BY <2>1 DEF SyncTypes, RestTypes
  <2>3. running' = SJ!None /\ reply' = SJ!None
    BY <1>13 DEF SJ!OnFetched
  <2> QED  BY <1>13, <2>2, <2>3, RunningFacts, ReplyFacts
         DEF SJ!OnFetched, SyncTypes, JobTypes, AskTypes, RestTypes
<1>14. CASE SJ!OnPulled
  <2>1. reply' = SJ!None /\ thenPush' = SJ!None /\ SJ!Is("pull")
    BY <1>14 DEF SJ!OnPulled, SJ!Leaves
  <2>2. pending' \in {pending, pending + 1}
    <3>1. pending' = pending + (IF reply.result = "ok" THEN 1 ELSE 0)
      BY <1>14 DEF SJ!OnPulled
    <3> QED  BY <3>1 DEF SyncTypes, RestTypes
  <2>3. \/ /\ thenPush # SJ!None /\ git' = "new" /\ jobs' = jobs + 1
           /\ running' = [job |-> [thenPush EXCEPT !.asked = running.job.follows], cancel |-> FALSE]
        \/ running' = SJ!None /\ git' = git /\ jobs' = jobs
    BY <1>14 DEF SJ!OnPulled
  <2>4. running.job \in PullJobs /\ running.job.follows \in BOOLEAN
    BY <2>1, RunningFacts, JobKinds, PushFacts DEF SJ!Is, SyncTypes, JobTypes, WorkInv
  <2>5. running' \in RunningType /\ git' \in GitType /\ jobs' \in Nat
    <3>1. CASE running' = SJ!None /\ git' = git /\ jobs' = jobs
      BY <3>1, RunningFacts DEF SyncTypes, JobTypes
    <3>2. CASE /\ thenPush # SJ!None /\ git' = "new" /\ jobs' = jobs + 1
               /\ running' = [job |-> [thenPush EXCEPT !.asked = running.job.follows], cancel |-> FALSE]
      <4>1. [thenPush EXCEPT !.asked = running.job.follows] \in Jobs
        BY <2>4, <3>2, JobFacts, FormFacts DEF SyncTypes, AskTypes
      <4>2. running' \in RunningType
        BY <3>2, <4>1, RunningFacts
      <4>3. git' \in GitType /\ jobs' \in Nat
        BY <3>2, ReplyFacts DEF SyncTypes, JobTypes
      <4> QED  BY <4>2, <4>3
    <3> QED  BY <2>3, <3>1, <3>2
  <2>6. prompt' \in {prompt, [kind |-> "stash", follows |-> FALSE], [kind |-> "upstream"]}
    BY <1>14 DEF SJ!OnPulled
  <2>7. prompt' \in PromptType
    BY <2>6, PromptFacts DEF SyncTypes, AskTypes
  <2>8. UNCHANGED <<upstream, dirty, due, undoBusy, setting, form, confirm, asked,
                    failures, shown, recorded, landed>>
    BY <1>14 DEF SJ!OnPulled
  <2>9. pending' \in Nat
    BY <2>2 DEF SyncTypes, RestTypes
  <2> QED  BY <2>1, <2>5, <2>7, <2>8, <2>9, FormFacts, ReplyFacts
         DEF SyncTypes, JobTypes, AskTypes, RestTypes
<1>15. CASE SJ!OnPushed
  <2>1. running' = SJ!None /\ reply' = SJ!None /\ SJ!Is("push")
    BY <1>15 DEF SJ!OnPushed
  <2>2. pending' \in {pending, pending + 1}
    BY <1>15 DEF SJ!OnPushed, SyncTypes, RestTypes
  <2>3. running.job \in Pushes
    BY <2>1, RunningFacts, JobKinds DEF SJ!Is, SyncTypes, JobTypes, WorkInv
  <2>4. prompt' \in {prompt, SJ!Question("rejected", running.job)}
    BY <1>15 DEF SJ!OnPushed
  <2>5. prompt' \in PromptType
    BY <2>3, <2>4, PromptFacts, QuestionFacts DEF SyncTypes, AskTypes
  <2> QED  BY <1>15, <2>1, <2>2, <2>5, RunningFacts, ReplyFacts
         DEF SJ!OnPushed, SyncTypes, JobTypes, AskTypes, RestTypes
<1>16. CASE SJ!Flush
  BY <1>16 DEF SJ!Flush, SyncTypes, JobTypes, AskTypes, RestTypes
<1>17. CASE SJ!BackgroundFetch
  <2>1. JobTypes'
    BY <1>17, JobFacts, StartFacts DEF SJ!BackgroundFetch, SyncTypes
  <2> QED  BY <1>17, <2>1 DEF SJ!BackgroundFetch, SyncTypes, AskTypes, RestTypes
<1>18. CASE SJ!Elsewhere
  BY <1>18 DEF SJ!Elsewhere, SyncTypes, JobTypes, AskTypes, RestTypes
<1>19. CASE UNCHANGED SJ!vars
  BY <1>19 DEF SJ!vars, SyncTypes, JobTypes, AskTypes, RestTypes
<1> QED
  BY <1>1, <1>2, <1>3, <1>4, <1>5, <1>6, <1>7, <1>8, <1>9, <1>10, <1>11, <1>12, <1>13, <1>14, <1>15,
     <1>16, <1>17, <1>18, <1>19 DEF SJ!Next

-----------------------------------------------------------------------------
(* A start from rest, and a step that leaves job and journal alone.         *)
Reporting == <<undoBusy, reply, failures, shown, pending, recorded, landed>>

(* A start, refused or not, preserves WorkInv.                              *)
LEMMA StartWork ==
  ASSUME SyncTypes, WorkInv, NEW job \in Jobs, Starts(job) \/ Same, UNCHANGED Reporting
  PROVE  WorkInv'
<1>1. CASE Same
  BY <1>1 DEF Same, Reporting, WorkInv, Counted
<1>2. CASE Starts(job)
  <2>1. running = SJ!None /\ ~undoBusy /\ running' # SJ!None /\ git' = "new"
    BY <1>2, RunningFacts DEF Starts, SJ!Busy
  <2> QED  BY <2>1 DEF Reporting, WorkInv, Counted, SyncTypes, RestTypes
<1> QED  BY <1>1, <1>2

(* Every step preserves WorkInv.                                            *)
LEMMA WorkStep == ASSUME SyncTypes, WorkInv, [SJ!Next]_SJ!vars PROVE WorkInv'
<1>1. CASE SJ!RequestFetch \/ SJ!BackgroundFetch
  <2>1. PICK b \in BOOLEAN : SJ!StartJob(SJ!Fetch(b))
    BY <1>1 DEF SJ!RequestFetch, SJ!BackgroundFetch
  <2>2. UNCHANGED Reporting
    BY <1>1 DEF SJ!RequestFetch, SJ!BackgroundFetch, Reporting
  <2>3. SJ!Fetch(b) \in Jobs
    BY JobFacts
  <2> QED  BY <2>1, <2>2, <2>3, StartFacts, StartWork DEF SyncTypes
<1>2. CASE SJ!RequestPull
  <2>1. PICK rebase \in BOOLEAN : SJ!PullPlan(upstream, FALSE, rebase)
    BY <1>2 DEF SJ!RequestPull
  <2>2. Starts(SJ!Pull(FALSE, FALSE)) \/ Same
    BY <2>1, PlanFacts DEF SyncTypes, RestTypes
  <2>3. UNCHANGED Reporting /\ SJ!Pull(FALSE, FALSE) \in Jobs
    BY <1>2, JobFacts DEF SJ!RequestPull, Reporting
  <2> QED  BY <2>2, <2>3, StartWork
<1>3. ASSUME NEW push \in SJ!Requests, SJ!RequestPush(push)  PROVE WorkInv'
  <2>1. push \in Jobs /\ (SJ!StartJob(push) \/ Same) /\ UNCHANGED Reporting
    BY <1>3, JobFacts DEF SJ!RequestPush, Same, Reporting
  <2> QED  BY <2>1, StartFacts, StartWork DEF SyncTypes
<1>4. CASE SJ!Answer
  <2>1. UNCHANGED Reporting
    BY <1>4 DEF SJ!Answer, Reporting
  <2>2. PICK job \in Jobs : SJ!StartJob(job) \/ Same
    <3>1. SJ!Fetch(TRUE) \in Jobs /\ SJ!Pull(FALSE, TRUE) \in Jobs
      BY JobFacts
    <3>2. prompt.kind \in {"new", "rejected"} =>
             prompt.push \in Jobs /\ [prompt.push EXCEPT !.force = "lease"] \in Jobs
      BY PromptFacts, JobFacts DEF SyncTypes, AskTypes
    <3>3. prompt.kind = "stash" => SJ!Pull(TRUE, prompt.follows) \in Jobs
      BY PromptFacts, JobFacts DEF SyncTypes, AskTypes
    <3> QED  BY <1>4, <3>1, <3>2, <3>3 DEF SJ!Answer, Same
  <2> QED  BY <2>1, <2>2, StartFacts, StartWork DEF SyncTypes
<1>5. CASE SJ!Confirms
  <2>1. confirm.push \in Jobs /\ (SJ!StartJob(confirm.push) \/ Same) /\ UNCHANGED Reporting
    BY <1>5, FormFacts, JobFacts DEF SJ!Confirms, SyncTypes, AskTypes, Same, Reporting
  <2> QED  BY <2>1, StartFacts, StartWork DEF SyncTypes
<1>6. CASE SJ!Submits
  <2>1. UNCHANGED Reporting
    BY <1>6 DEF SJ!Submits, Reporting
  <2>2. form.kind = "remote" => form.push \in Jobs
    BY FormFacts, JobFacts DEF SyncTypes, AskTypes
  <2>3. SJ!Fetch(TRUE) \in Jobs
    BY JobFacts
  <2>4. PICK job \in Jobs : SJ!StartJob(job) \/ Same
    BY <1>6, <2>2, <2>3 DEF SJ!Submits, Same
  <2> QED  BY <2>1, <2>4, StartFacts, StartWork DEF SyncTypes
<1>7. CASE SJ!OnUpstreamSet
  <2>1. UNCHANGED <<undoBusy, reply, failures, shown, recorded>>
    BY <1>7 DEF SJ!OnUpstreamSet
  <2>2. \/ Same /\ UNCHANGED <<pending, landed>>
        \/ /\ pending' = pending + 1 /\ landed' = landed + 1
           /\ \E rebase \in BOOLEAN : SJ!PullPlan(TRUE, FALSE, rebase)
    BY <1>7 DEF SJ!OnUpstreamSet, Same
  <2>3. Starts(SJ!Pull(FALSE, FALSE)) \/ Same
    BY <2>2, PlanFacts DEF SyncTypes
  <2>4. CASE Same
    <3>1. UNCHANGED <<pending, landed>> \/ (pending' = pending + 1 /\ landed' = landed + 1)
      BY <2>2
    <3>2. pending \in Nat /\ landed \in Nat /\ recorded \in Nat
      BY DEF SyncTypes, RestTypes
    <3>3. \A n \in {0, 1} : landed = recorded + pending + n => landed' = recorded' + pending' + n
      BY <2>1, <3>1, <3>2
    <3>4. landed = recorded + pending => landed' = recorded' + pending'
      BY <2>1, <3>1, <3>2
    <3>5. UNCHANGED <<running, git, undoBusy, reply, failures, shown>>
      BY <2>1, <2>4 DEF Same
    <3> QED  BY <3>3, <3>4, <3>5 DEF WorkInv, Counted
  <2>5. CASE Starts(SJ!Pull(FALSE, FALSE))
    <3>1. running = SJ!None /\ ~undoBusy /\ running' # SJ!None /\ git' = "new"
      BY <2>5, JobFacts, RunningFacts DEF Starts, SJ!Busy
    <3> QED  BY <2>1, <2>2, <3>1 DEF Same, WorkInv, Counted, SyncTypes, RestTypes
  <2> QED  BY <2>3, <2>4, <2>5
<1>8. CASE SJ!Spawns
  <2>1. running # SJ!None
    BY <1>8 DEF SJ!Spawns, WorkInv
  <2>2. \/ git' = "none" /\ reply' # SJ!None /\ reply'.result = "cancelled"
        \/ git' = "runs" /\ reply' = reply
    BY <1>8, NoneFacts DEF SJ!Spawns, SJ!Finish
  <2> QED  BY <1>8, <2>1, <2>2 DEF SJ!Spawns, WorkInv, Counted
<1>9. CASE SJ!GitEnds
  <2>1. git \in {"runs", "dying"} /\ git' # "none" /\ running # SJ!None
    BY <1>9 DEF SJ!GitEnds, SJ!Outcomes, WorkInv
  <2>2. landed' = landed + Counted(git')
    BY <1>9 DEF SJ!GitEnds, Counted
  <2>3. UNCHANGED <<undoBusy, running, reply, failures, shown, pending, recorded>>
    BY <1>9 DEF SJ!GitEnds
  <2> QED  BY <2>1, <2>2, <2>3 DEF WorkInv, Counted, SyncTypes, RestTypes
<1>10. CASE SJ!Kills
  BY <1>10 DEF SJ!Kills, WorkInv, Counted
<1>11. CASE SJ!Reports
  <2>1. /\ git \notin {"none", "new", "runs"} /\ git' = "none"
        /\ reply' = [kind |-> "reply", result |-> SJ!Reported(git)]
    BY <1>11 DEF SJ!Reports, SJ!Finish
  <2>2. reply' # SJ!None /\ reply'.result = SJ!Reported(git)
    BY <2>1, NoneFacts
  <2>3. SJ!Reported(git) = "ok" <=> git = "ok"
    BY DEF SJ!Reported
  <2> QED  BY <1>11, <2>1, <2>2, <2>3 DEF SJ!Reports, WorkInv, Counted
<1>12. CASE SJ!Cancel
  <2>1. running # SJ!None /\ running' # SJ!None /\ running'.job = running.job
    <3>1. running # SJ!None /\ running' = [running EXCEPT !.cancel = TRUE]
      BY <1>12 DEF SJ!Cancel
    <3>2. running.job \in Jobs /\ running' = [job |-> running.job, cancel |-> TRUE]
      BY <3>1, RunningFacts DEF SyncTypes, JobTypes
    <3> QED  BY <3>1, <3>2, RunningFacts
  <2> QED  BY <1>12, <2>1 DEF SJ!Cancel, WorkInv, Counted
<1>13. CASE SJ!OnFetched
  <2>1. /\ running # SJ!None /\ git = "none" /\ running.job.kind = "fetch"
        /\ running' = SJ!None /\ reply' = SJ!None
        /\ UNCHANGED <<undoBusy, git, pending, recorded, landed>>
    BY <1>13 DEF SJ!OnFetched, SJ!Is, WorkInv
  <2>2. shown' <= 1 /\ (failures' = 0 => shown' = 0)
    BY <1>13 DEF SJ!OnFetched, WorkInv, SyncTypes, RestTypes
  <2> QED  BY <2>1, <2>2 DEF WorkInv, Counted, SyncTypes, RestTypes
<1>14. CASE SJ!OnPulled \/ SJ!OnPushed
  <2>1. /\ running # SJ!None /\ git = "none" /\ running.job.kind # "fetch"
        /\ reply # SJ!None /\ reply' = SJ!None
        /\ pending' = pending + (IF reply.result = "ok" THEN 1 ELSE 0)
        /\ UNCHANGED <<undoBusy, failures, shown, recorded, landed>>
    BY <1>14 DEF SJ!OnPulled, SJ!OnPushed, SJ!Is, WorkInv
  <2>2. landed' = recorded' + pending'
    BY <2>1 DEF WorkInv, Counted, SyncTypes, RestTypes
  <2>3. \/ running' = SJ!None /\ git' = "none"
        \/ git' = "new" /\ \E job : running' = [job |-> job, cancel |-> FALSE]
    BY <1>14, <2>1 DEF SJ!OnPulled, SJ!OnPushed
  <2>4. (running' = SJ!None /\ git' = "none") \/ (running' # SJ!None /\ git' = "new")
    BY <2>3, NotRunning
  <2> QED  BY <2>1, <2>2, <2>4 DEF WorkInv, Counted, SyncTypes, RestTypes
<1>15. CASE SJ!Flush
  BY <1>15 DEF SJ!Flush, WorkInv, Counted, SyncTypes, RestTypes
<1>16. CASE SJ!Elsewhere
  BY <1>16 DEF SJ!Elsewhere, WorkInv, Counted
<1>17. CASE UNCHANGED SJ!vars
  BY <1>17 DEF SJ!vars, WorkInv, Counted
<1> QED
  BY <1>1, <1>2, <1>3, <1>4, <1>5, <1>6, <1>7, <1>8, <1>9, <1>10, <1>11, <1>12, <1>13, <1>14, <1>15,
     <1>16, <1>17 DEF SJ!Next

-----------------------------------------------------------------------------
(* A job that starts finds none, and is what runs.                          *)
LEMMA Begins ==
  ASSUME NEW job \in Jobs, Starts(job)
  PROVE  /\ running = SJ!None /\ ~Pulls /\ ~Rejectable
         /\ running' # SJ!None /\ running'.job = job /\ git' = "new"
         /\ Pulls' <=> job.kind = "pull"
         /\ Rejectable' <=> (job.kind = "push" /\ job.what = "branch" /\ job.force # "plain")
<1>1. running' # SJ!None /\ running'.job = job /\ git' = "new" /\ running = SJ!None
  BY RunningFacts DEF Starts, SJ!Busy
<1> QED  BY <1>1 DEF Pulls, Rejectable

(* What an action does to the job.                                          *)
LEMMA Stays ==
  ASSUME Same
  PROVE  running' = running /\ git' = git /\ (Pulls' <=> Pulls) /\ (Rejectable' <=> Rejectable)
  BY DEF Same, Pulls, Rejectable

(* A cancel leaves the job what it was.                                     *)
LEMMA CancelKeeps ==
  ASSUME SyncTypes, SJ!Cancel
  PROVE  /\ running # SJ!None /\ running' # SJ!None /\ running'.job = running.job
         /\ (Pulls' <=> Pulls) /\ (Rejectable' <=> Rejectable)
<1>1. running # SJ!None /\ running' = [running EXCEPT !.cancel = TRUE]
  BY DEF SJ!Cancel
<1>2. running.job \in Jobs /\ running' = [job |-> running.job, cancel |-> TRUE]
  BY <1>1, RunningFacts DEF SyncTypes, JobTypes
<1>3. running' # SJ!None /\ running'.job = running.job
  BY <1>2, RunningFacts
<1> QED  BY <1>1, <1>3 DEF Pulls, Rejectable

(* The steps of the worker and of the app around it.                        *)
LEMMA QuietStep ==
  ASSUME SyncTypes, WorkInv, PushInv,
         \/ SJ!Spawns \/ SJ!GitEnds \/ SJ!Kills \/ SJ!Reports \/ SJ!Cancel \/ SJ!OnFetched
         \/ SJ!Flush \/ SJ!Elsewhere \/ UNCHANGED SJ!vars
  PROVE  PushInv'
<1>1. UNCHANGED <<setting, prompt, form, confirm, thenPush>>
  BY DEF SJ!Spawns, SJ!GitEnds, SJ!Kills, SJ!Reports, SJ!Cancel, SJ!OnFetched, SJ!Flush,
         SJ!Elsewhere, SJ!vars
<1>2. \/ running # SJ!None /\ running' # SJ!None /\ running'.job = running.job
      \/ running' = running
      \/ running' = SJ!None /\ running # SJ!None /\ running.job.kind = "fetch"
  BY CancelKeeps DEF SJ!Spawns, SJ!GitEnds, SJ!Kills, SJ!Reports, SJ!OnFetched, SJ!Is,
                 SJ!Flush, SJ!Elsewhere, SJ!vars, WorkInv
<1>3. (Pulls' <=> Pulls) /\ (Rejectable' <=> Rejectable)
  BY <1>2 DEF Pulls, Rejectable
<1>4. AskInv'
  BY <1>1, <1>2 DEF PushInv, AskInv
<1>5. FormInv'
  BY <1>1, <1>3 DEF PushInv, FormInv
<1>6. FollowInv'
  <2>1. Pulls => running'.job = running.job
    BY <1>2 DEF Pulls
  <2> QED  BY <1>1, <1>3, <2>1 DEF PushInv, FollowInv
<1>7. RejectInv'
  <2>1. \/ UNCHANGED <<git, reply>>
        \/ SJ!Spawns \/ SJ!GitEnds \/ SJ!Kills \/ SJ!Reports \/ SJ!OnFetched
    BY DEF SJ!Cancel, SJ!Flush, SJ!Elsewhere, SJ!vars
  <2>2. CASE UNCHANGED <<git, reply>>
    BY <1>3, <2>2 DEF PushInv, RejectInv
  <2>3. CASE SJ!Spawns
    <3>1. \/ git' = "none" /\ reply'.result = "cancelled"
          \/ git' = "runs" /\ reply' = reply
      BY <2>3, NoneFacts DEF SJ!Spawns, SJ!Finish
    <3> QED  BY <1>3, <3>1 DEF PushInv, RejectInv
  <2>4. CASE SJ!GitEnds
    <3>1. reply' = reply /\ (git' = "rejected" => "rejected" \in SJ!Outcomes /\ git = "runs")
      BY <2>4 DEF SJ!GitEnds
    <3>2. git = "runs" => running # SJ!None
      BY DEF WorkInv
    <3>3. "rejected" \in SJ!Outcomes =>
            running.job.kind = "push" /\ running.job.what = "branch" /\ running.job.force # "plain"
      BY DEF SJ!Outcomes
    <3> QED  BY <1>3, <3>1, <3>2, <3>3 DEF PushInv, RejectInv, Rejectable
  <2>5. CASE SJ!Kills
    BY <1>3, <2>5 DEF SJ!Kills, PushInv, RejectInv
  <2>6. CASE SJ!Reports
    <3>1. git' = "none" /\ reply' = [kind |-> "reply", result |-> SJ!Reported(git)]
      BY <2>6 DEF SJ!Reports, SJ!Finish
    <3>2. reply'.result = "rejected" => git = "rejected"
      BY <3>1, NoneFacts DEF SJ!Reported
    <3> QED  BY <1>3, <3>1, <3>2 DEF PushInv, RejectInv
  <2>7. CASE SJ!OnFetched
    BY <1>3, <2>7 DEF SJ!OnFetched, PushInv, RejectInv
  <2> QED  BY <2>1, <2>2, <2>3, <2>4, <2>5, <2>6, <2>7
<1> QED  BY <1>4, <1>5, <1>6, <1>7 DEF PushInv

(* The rest of a step that starts a job or lets it be.                      *)
LEMMA StartReject ==
  ASSUME PushInv, NEW job \in Jobs, Starts(job) \/ Same, reply' = reply, WorkInv
  PROVE  RejectInv'
<1>1. CASE Starts(job)
  BY <1>1, Begins DEF RejectInv, WorkInv
<1>2. CASE Same
  BY <1>2, Stays DEF PushInv, RejectInv
<1> QED  BY <1>1, <1>2

(* The user answers while no job runs, and asks for more while nothing is   *)
(* left to answer.                                                          *)
Awaits == Patience = {"answer", "request"}

(* What the user asks for, and the background fetch.                        *)
LEMMA RequestStep ==
  ASSUME Awaits, SyncTypes, WorkInv, PushInv,
         \/ SJ!RequestFetch \/ SJ!RequestPull \/ (\E push \in SJ!Requests : SJ!RequestPush(push))
         \/ SJ!BackgroundFetch
  PROVE  PushInv'
<1>1. CASE SJ!RequestFetch \/ SJ!BackgroundFetch
  <2>1. PICK b \in BOOLEAN : SJ!StartJob(SJ!Fetch(b))
    BY <1>1 DEF SJ!RequestFetch, SJ!BackgroundFetch
  <2>2. UNCHANGED <<reply, setting, prompt, form, confirm, thenPush>>
    BY <1>1 DEF SJ!RequestFetch, SJ!BackgroundFetch
  <2>3. SJ!Fetch(b) \in Jobs /\ SJ!Fetch(b).kind = "fetch"
    BY JobFacts, PushFacts
  <2>4. Starts(SJ!Fetch(b)) \/ Same
    BY <2>1, <2>3, StartFacts DEF SyncTypes
  <2>5. RejectInv'
    BY <2>2, <2>3, <2>4, StartReject
  <2>6. CASE Starts(SJ!Fetch(b))
    BY <2>2, <2>3, <2>5, <2>6, Begins DEF PushInv, AskInv, FormInv, FollowInv
  <2>7. CASE Same
    BY <2>2, <2>5, <2>7, Stays DEF PushInv, AskInv, FormInv, FollowInv
  <2> QED  BY <2>4, <2>6, <2>7
<1>2. CASE SJ!RequestPull
  <2>1. PICK rebase \in BOOLEAN : SJ!PullPlan(upstream, FALSE, rebase)
    BY <1>2 DEF SJ!RequestPull
  <2>2. /\ prompt = SJ!None /\ form = SJ!None /\ setting = SJ!None /\ confirm = SJ!None
        /\ UNCHANGED <<reply, setting, form, confirm>> /\ thenPush' = SJ!Kept(thenPush)
    BY <1>2 DEF SJ!RequestPull, SJ!MayAsk, Awaits
  <2>3. SJ!Pull(FALSE, FALSE) \in Jobs /\ SJ!Pull(FALSE, FALSE).kind = "pull"
    BY JobFacts, PushFacts
  <2>4. \/ Same /\ prompt' = [kind |-> "stash", follows |-> FALSE]
        \/ Same /\ prompt' = [kind |-> "upstream"]
        \/ prompt' = prompt /\ (Starts(SJ!Pull(FALSE, FALSE)) \/ (SJ!Busy /\ Same))
    BY <2>1, PlanFacts DEF SyncTypes, RestTypes
  <2>5. RejectInv'
    BY <2>2, <2>3, <2>4, StartReject
  <2>6. prompt'.kind \in {"none", "stash", "upstream"}
    <3>1. \/ prompt' = SJ!None \/ prompt' = [kind |-> "stash", follows |-> FALSE]
          \/ prompt' = [kind |-> "upstream"]
      BY <2>2, <2>4
    <3> QED  BY <3>1, NoneKind
  <2>7. thenPush' \in {SJ!None, thenPush}
    BY <2>2, KeptFacts
  <2>8. CASE Starts(SJ!Pull(FALSE, FALSE))
    <3>1. thenPush = SJ!None /\ thenPush' = SJ!None
      BY <2>2, <2>3, <2>7, <2>8, Begins, NoneKind DEF PushInv, FollowInv
    <3> QED  BY <2>2, <2>3, <2>5, <2>6, <2>8, <3>1, Begins DEF PushInv, AskInv, FormInv, FollowInv
  <2>9. CASE Same
    <3>1. thenPush' # SJ!None => Pulls /\ running.job.follows
      BY <2>2, <2>7, NoneKind DEF PushInv, FollowInv
    <3> QED  BY <2>2, <2>5, <2>6, <2>9, <3>1, Stays DEF PushInv, AskInv, FormInv, FollowInv
  <2> QED  BY <2>4, <2>8, <2>9
<1>3. ASSUME NEW push \in SJ!Requests, SJ!RequestPush(push)  PROVE PushInv'
  <2>1. push \in Jobs /\ push \in Pushes /\ push.asked
    BY JobFacts, RequestsAsked
  <2>2. /\ prompt = SJ!None /\ form = SJ!None /\ setting = SJ!None /\ confirm = SJ!None
        /\ UNCHANGED <<reply, setting, form, thenPush>>
    BY <1>3 DEF SJ!RequestPush, SJ!MayAsk, Awaits
  <2>3. \/ /\ Same /\ confirm' = SJ!Question("confirm", push) /\ prompt' = prompt
           /\ push.force = "plain" \/ push.what = "delete"
        \/ Same /\ confirm' = confirm /\ prompt' = SJ!Question("new", push)
        \/ SJ!StartJob(push) /\ confirm' = confirm /\ prompt' = prompt
    BY <1>3 DEF SJ!RequestPush, Same
  <2>4. Starts(push) \/ Same
    BY <2>1, <2>3, StartFacts DEF SyncTypes
  <2>5. RejectInv'
    BY <2>1, <2>2, <2>4, StartReject
  <2>6. /\ prompt'.kind \in {"new", "rejected"} => prompt'.push.asked
        /\ confirm' # SJ!None =>
             confirm'.push.asked /\ (confirm'.push.force = "plain" \/ confirm'.push.what = "delete")
    BY <2>1, <2>2, <2>3, NoneKind DEF SJ!Question
  <2>7. CASE Starts(push)
    <3>1. thenPush = SJ!None
      BY <2>1, <2>2, <2>7, Begins, NoneKind DEF PushInv, FollowInv
    <3> QED  BY <2>1, <2>2, <2>5, <2>6, <2>7, <3>1, Begins, NoneFacts
         DEF PushInv, AskInv, FormInv, FollowInv
  <2>8. CASE Same
    <3>1. thenPush' # SJ!None => Pulls /\ running.job.follows
      BY <2>2, NoneKind DEF PushInv, FollowInv
    <3> QED  BY <2>2, <2>5, <2>6, <2>8, <3>1, Stays DEF PushInv, AskInv, FormInv, FollowInv
  <2> QED  BY <2>4, <2>7, <2>8
<1> QED  BY <1>1, <1>2, <1>3

(* Confirmations, forms, and the pull that waits for an upstream.           *)
LEMMA FormStep ==
  ASSUME Awaits, SyncTypes, WorkInv, PushInv, SJ!Confirms \/ SJ!Submits \/ SJ!OnUpstreamSet
  PROVE  PushInv'
<1>1. CASE SJ!Confirms
  <2>1. /\ confirm # SJ!None /\ confirm' = SJ!None /\ ~SJ!Busy /\ setting = SJ!None
        /\ SJ!StartJob(confirm.push) \/ Same
        /\ UNCHANGED <<reply, setting, prompt, form, thenPush>>
    BY <1>1 DEF SJ!Confirms, SJ!MayAnswer, Awaits, Same
  <2>2. confirm.push \in Jobs /\ confirm.push.kind = "push"
    BY <2>1, FormFacts, JobFacts, PushFacts DEF SyncTypes, AskTypes
  <2>3. Starts(confirm.push) \/ Same
    BY <2>1, <2>2, StartFacts DEF SyncTypes
  <2>4. RejectInv'
    BY <2>1, <2>2, <2>3, StartReject
  <2>5. CASE Same
    BY <2>1, <2>4, <2>5, Stays DEF PushInv, AskInv, FormInv, FollowInv
  <2>6. CASE Starts(confirm.push)
    <3>1. ~Rejectable' /\ ~Pulls' /\ running'.job.asked /\ ~Pulls
      BY <2>1, <2>2, <2>6, Begins DEF PushInv, AskInv
    <3> QED  BY <2>1, <2>4, <3>1 DEF PushInv, AskInv, FormInv, FollowInv
  <2> QED  BY <2>3, <2>5, <2>6
<1>2. CASE SJ!Submits
  <2>1. /\ form # SJ!None /\ form' = SJ!None /\ ~SJ!Busy /\ setting = SJ!None
        /\ (form.kind = "remote" /\ SJ!StartJob(form.push) /\ setting' = setting) \/ Same
        /\ UNCHANGED <<reply, prompt, confirm, thenPush>>
    BY <1>2 DEF SJ!Submits, SJ!MayAnswer, Awaits, Same
  <2>2. prompt = SJ!None /\ thenPush = SJ!None /\ ~Pulls /\ ~Rejectable
    BY <2>1 DEF PushInv, FormInv
  <2>3. CASE Same
    <3>1. RejectInv'
      BY <2>1, <2>3, Stays DEF PushInv, RejectInv
    <3> QED  BY <2>1, <2>2, <2>3, <3>1, Stays, NoneFacts DEF PushInv, AskInv, FormInv, FollowInv
  <2>4. CASE form.kind = "remote" /\ SJ!StartJob(form.push) /\ setting' = setting
    <3>1. form.push \in Jobs /\ form.push.kind = "push" /\ form.push.asked
      BY <2>4, FormFacts, JobFacts, PushFacts DEF SyncTypes, AskTypes, PushInv, AskInv
    <3>2. Starts(form.push)
      BY <2>1, <2>4, <3>1, StartFacts DEF SyncTypes
    <3>3. RejectInv'
      BY <2>1, <3>1, <3>2, StartReject
    <3>4. ~Pulls' /\ running'.job.asked
      BY <3>1, <3>2, Begins
    <3> QED  BY <2>1, <2>2, <2>4, <3>3, <3>4, NoneFacts DEF PushInv, AskInv, FormInv, FollowInv
  <2> QED  BY <2>1, <2>3, <2>4
<1>3. CASE SJ!OnUpstreamSet
  <2>1. /\ setting # SJ!None /\ setting' = SJ!None
        /\ UNCHANGED <<reply, form, confirm>>
        /\ \/ Same /\ UNCHANGED <<prompt, thenPush>>
           \/ thenPush' = SJ!Kept(thenPush) /\ \E rebase \in BOOLEAN : SJ!PullPlan(TRUE, FALSE, rebase)
    BY <1>3 DEF SJ!OnUpstreamSet, Same
  <2>2. form = SJ!None /\ prompt = SJ!None /\ thenPush = SJ!None /\ ~Pulls /\ ~Rejectable
    BY <2>1 DEF PushInv, FormInv
  <2>3. thenPush' = SJ!None
    BY <2>1, <2>2, KeptFacts
  <2>4. SJ!Pull(FALSE, FALSE) \in Jobs /\ SJ!Pull(FALSE, FALSE).kind = "pull"
    BY JobFacts, PushFacts
  <2>5. /\ Starts(SJ!Pull(FALSE, FALSE)) \/ Same
        /\ prompt' = prompt \/ prompt' = [kind |-> "stash", follows |-> FALSE]
    BY <2>1, PlanFacts DEF SyncTypes
  <2>6. RejectInv'
    BY <2>1, <2>4, <2>5, StartReject
  <2>7. prompt'.kind \notin {"new", "rejected"}
    BY <2>2, <2>5, NoneFacts
  <2>8. running' # SJ!None /\ running'.job.kind = "push" => running'.job.asked
    BY <2>4, <2>5, Begins, Stays DEF PushInv, AskInv
  <2>9. AskInv'
    BY <2>1, <2>7, <2>8 DEF PushInv, AskInv
  <2>10. FormInv' /\ FollowInv'
    BY <2>1, <2>2, <2>3 DEF FormInv, FollowInv
  <2> QED  BY <2>6, <2>9, <2>10 DEF PushInv
<1> QED  BY <1>1, <1>2, <1>3

(* Answers to a toast: the one step that leaves a push for later.           *)
LEMMA AnswerStep ==
  ASSUME Awaits, SyncTypes, WorkInv, PushInv, SJ!Answer
  PROVE  PushInv'
<1>1. /\ prompt # SJ!None /\ ~SJ!Busy /\ setting = SJ!None /\ running = SJ!None
      /\ UNCHANGED <<setting, confirm, reply>>
  BY DEF SJ!Answer, SJ!MayAnswer, Awaits, SJ!Busy
<1>2. form = SJ!None
  BY <1>1 DEF PushInv, FormInv
<1>3. thenPush # SJ!None => prompt = [kind |-> "stash", follows |-> TRUE]
  BY <1>1 DEF PushInv, FollowInv, Pulls
<1>4. prompt.kind # "stash" => thenPush = SJ!None
  BY <1>3
<1>5. SJ!None.kind \notin {"new", "rejected", "remote"}
  BY NoneKind
<1>6. CASE prompt' = SJ!None /\ thenPush' = SJ!None /\ UNCHANGED <<running, git, due, jobs, form, asked>>
  <2>1. Same
    BY <1>6 DEF Same
  <2> QED  BY <1>1, <1>2, <1>5, <1>6, <2>1, Stays DEF PushInv, AskInv, RejectInv, FormInv, FollowInv
<1>7. CASE /\ prompt.kind = "upstream" /\ prompt' = SJ!None /\ form' = [kind |-> "upstream"]
           /\ UNCHANGED <<running, git, due, jobs, asked, thenPush>>
  <2>1. Same /\ thenPush' = SJ!None /\ form'.kind = "upstream"
    BY <1>4, <1>7 DEF Same
  <2>2. ~Pulls' /\ ~Rejectable'
    BY <1>1, <2>1, Stays DEF Pulls, Rejectable
  <2> QED  BY <1>1, <1>5, <1>7, <2>1, <2>2, Stays DEF PushInv, AskInv, RejectInv, FormInv, FollowInv
<1>8. CASE /\ prompt.kind = "new" /\ prompt' = SJ!None /\ asked' = TRUE /\ UNCHANGED thenPush
           /\ \/ SJ!StartJob(prompt.push) /\ UNCHANGED form
              \/ form' = SJ!Question("remote", prompt.push) /\ UNCHANGED <<running, git, due, jobs>>
  <2>1. /\ prompt.push \in Jobs /\ prompt.push \in Pushes /\ prompt.push.asked
        /\ prompt.push.kind = "push"
    BY <1>8, PromptFacts, JobFacts, PushFacts DEF SyncTypes, AskTypes, PushInv, AskInv
  <2>2. thenPush' = SJ!None
    BY <1>4, <1>8
  <2>3. CASE SJ!StartJob(prompt.push) /\ UNCHANGED form
    <3>1. Starts(prompt.push)
      BY <1>1, <2>1, <2>3, StartFacts DEF SyncTypes
    <3>2. RejectInv'
      BY <1>1, <2>1, <3>1, StartReject
    <3>3. running'.job.asked
      BY <2>1, <3>1, Begins
    <3> QED  BY <1>1, <1>2, <1>5, <1>8, <2>2, <2>3, <3>2, <3>3 DEF PushInv, AskInv, FormInv, FollowInv
  <2>4. CASE form' = SJ!Question("remote", prompt.push) /\ UNCHANGED <<running, git, due, jobs>>
    <3>1. Same
      BY <2>4 DEF Same
    <3>2. ~Pulls' /\ ~Rejectable'
      BY <1>1, <3>1, Stays DEF Pulls, Rejectable
    <3>3. form'.push.asked
      BY <2>1, <2>4 DEF SJ!Question
    <3> QED  BY <1>1, <1>5, <1>8, <2>2, <3>1, <3>2, <3>3, Stays
         DEF PushInv, AskInv, RejectInv, FormInv, FollowInv
  <2> QED  BY <1>8, <2>3, <2>4
<1>9. CASE /\ prompt.kind = "rejected" /\ UNCHANGED <<form, asked>>
           /\ \E rebase \in BOOLEAN :
                LET push == prompt.push IN
                /\ IF upstream /\ ~(dirty /\ rebase)
                   THEN prompt' = SJ!None /\ SJ!StartJob(SJ!Pull(FALSE, TRUE))
                   ELSE /\ prompt' = IF upstream THEN [kind |-> "stash", follows |-> TRUE]
                                     ELSE [kind |-> "upstream"]
                        /\ UNCHANGED <<running, git, due, jobs>>
                /\ thenPush' = SJ!Kept(push)
  <2>1. /\ form' = SJ!None /\ thenPush' = SJ!Kept(prompt.push)
        /\ \/ prompt' = SJ!None /\ SJ!StartJob(SJ!Pull(FALSE, TRUE))
           \/ Same /\ prompt' = [kind |-> "stash", follows |-> TRUE]
           \/ Same /\ prompt' = [kind |-> "upstream"]
    BY <1>2, <1>9 DEF Same
  <2>2. /\ SJ!Pull(FALSE, TRUE) \in Jobs /\ SJ!Pull(FALSE, TRUE).kind = "pull"
        /\ SJ!Pull(FALSE, TRUE).follows
    BY JobFacts DEF SJ!Pull
  <2>3. CASE prompt' = SJ!None /\ SJ!StartJob(SJ!Pull(FALSE, TRUE))
    <3>1. Starts(SJ!Pull(FALSE, TRUE))
      BY <1>1, <2>2, <2>3, StartFacts DEF SyncTypes
    <3>2. RejectInv'
      BY <1>1, <2>2, <3>1, StartReject
    <3>3. Pulls' /\ running'.job = SJ!Pull(FALSE, TRUE)
      BY <2>2, <3>1, Begins
    <3> QED  BY <1>1, <1>5, <2>1, <2>2, <2>3, <3>2, <3>3 DEF PushInv, AskInv, FormInv, FollowInv
  <2>4. ASSUME Same
        PROVE  running' = SJ!None /\ ~Pulls' /\ ~Rejectable' /\ RejectInv'
    BY <1>1, <2>4, Stays DEF Pulls, Rejectable, PushInv, RejectInv
  <2>5. CASE Same /\ prompt' = [kind |-> "stash", follows |-> TRUE]
    BY <1>1, <1>5, <2>1, <2>4, <2>5 DEF PushInv, AskInv, FormInv, FollowInv
  <2>6. CASE Same /\ prompt' = [kind |-> "upstream"]
    <3>1. thenPush' = SJ!None
      BY <2>1, <2>4, <2>6, KeptFacts
    <3> QED  BY <1>1, <1>5, <2>1, <2>4, <2>6, <3>1 DEF PushInv, AskInv, FormInv, FollowInv
  <2> QED  BY <2>1, <2>3, <2>5, <2>6
<1>10. CASE /\ prompt.kind = "rejected" /\ prompt.push.force = "no" /\ prompt' = SJ!None
            /\ SJ!StartJob([prompt.push EXCEPT !.force = "lease"])
            /\ UNCHANGED <<form, asked, thenPush>>
  <2> DEFINE push == [prompt.push EXCEPT !.force = "lease"]
  <2>1. prompt.push \in Pushes /\ prompt.push.asked
    BY <1>10, PromptFacts DEF SyncTypes, AskTypes, PushInv, AskInv
  <2>2. push \in Pushes /\ push \in Jobs /\ push.asked
    BY <2>1, JobFacts, PushEdits
  <2>3. SJ!StartJob(push)
    BY <1>10
  <2> HIDE DEF push
  <2>4. Starts(push)
    BY <1>1, <2>2, <2>3, StartFacts DEF SyncTypes
  <2>5. RejectInv' /\ running'.job.asked
    BY <1>1, <2>2, <2>4, StartReject, Begins
  <2> QED  BY <1>1, <1>2, <1>4, <1>5, <1>10, <2>5 DEF PushInv, AskInv, FormInv, FollowInv
<1>11. CASE /\ prompt.kind = "stash" /\ prompt' = SJ!None /\ SJ!StartJob(SJ!Pull(TRUE, prompt.follows))
            /\ UNCHANGED <<form, asked, thenPush>>
  <2>1. prompt.follows \in BOOLEAN
    BY <1>11, PromptFacts DEF SyncTypes, AskTypes
  <2>2. PICK follows \in BOOLEAN : follows = prompt.follows
    BY <2>1
  <2>3. /\ SJ!Pull(TRUE, follows) \in Jobs /\ SJ!Pull(TRUE, follows).kind = "pull"
        /\ SJ!Pull(TRUE, follows).follows = follows
    BY JobFacts DEF SJ!Pull
  <2>4. Starts(SJ!Pull(TRUE, follows))
    BY <1>1, <1>11, <2>2, <2>3, StartFacts DEF SyncTypes
  <2>5. RejectInv'
    BY <1>1, <2>3, <2>4, StartReject
  <2>6. Pulls' /\ running'.job = SJ!Pull(TRUE, follows)
    BY <2>3, <2>4, Begins
  <2>7. thenPush' # SJ!None => follows
    BY <1>3, <1>11, <2>2
  <2> QED  BY <1>1, <1>2, <1>5, <1>11, <2>3, <2>5, <2>6, <2>7 DEF PushInv, AskInv, FormInv, FollowInv
<1> QED
  BY <1>6, <1>7, <1>8, <1>9, <1>10, <1>11 DEF SJ!Answer

(* What a pull or push leaves when it is over.                              *)
LEMMA OverStep ==
  ASSUME SyncTypes, WorkInv, PushInv, SJ!OnPulled \/ SJ!OnPushed
  PROVE  PushInv'
<1>1. CASE SJ!OnPulled
  <2>1. /\ Pulls /\ reply' = SJ!None /\ thenPush' = SJ!None /\ git = "none"
        /\ UNCHANGED <<setting, form, confirm>>
    BY <1>1 DEF SJ!OnPulled, SJ!Is, Pulls, SJ!Leaves, WorkInv
  <2>2. form = SJ!None /\ setting = SJ!None
    BY <2>1 DEF PushInv, FormInv
  <2>3. \/ /\ thenPush # SJ!None /\ git' = "new"
           /\ running' = [job |-> [thenPush EXCEPT !.asked = running.job.follows], cancel |-> FALSE]
        \/ running' = SJ!None /\ git' = git
    BY <1>1 DEF SJ!OnPulled
  <2>4. running' # SJ!None => running'.job.asked
    <3>1. CASE running' = SJ!None /\ git' = git
      BY <3>1
    <3>2. CASE /\ thenPush # SJ!None
               /\ running' = [job |-> [thenPush EXCEPT !.asked = running.job.follows], cancel |-> FALSE]
      <4>1. running.job.follows /\ thenPush \in Pushes
        BY <2>1, <3>2, FormFacts DEF PushInv, FollowInv, SyncTypes, AskTypes
      <4>2. running.job \in PullJobs /\ running.job.follows \in BOOLEAN
        BY <2>1, RunningFacts, JobKinds, PushFacts DEF Pulls, SyncTypes, JobTypes
      <4>3. [thenPush EXCEPT !.asked = running.job.follows].asked = running.job.follows
        BY <4>1, <4>2, PushEdits
      <4> QED  BY <3>2, <4>1, <4>3
    <3> QED  BY <2>3, <3>1, <3>2
  <2>5. prompt' \in {prompt, [kind |-> "stash", follows |-> FALSE], [kind |-> "upstream"]}
    BY <1>1 DEF SJ!OnPulled
  <2>6. prompt'.kind \in {"new", "rejected"} => prompt' = prompt
    BY <2>5
  <2>7. AskInv'
    BY <2>1, <2>2, <2>4, <2>6, NoneKind DEF PushInv, AskInv
  <2>8. RejectInv'
    BY <2>1, <2>3 DEF RejectInv
  <2>9. FormInv' /\ FollowInv'
    BY <2>1, <2>2 DEF FormInv, FollowInv
  <2> QED  BY <2>7, <2>8, <2>9 DEF PushInv
<1>2. CASE SJ!OnPushed
  <2>1. /\ running # SJ!None /\ running.job.kind = "push" /\ reply # SJ!None
        /\ running' = SJ!None /\ reply' = SJ!None
        /\ git = "none" /\ git' = git /\ UNCHANGED <<setting, form, confirm, thenPush>>
        /\ prompt' = IF reply.result = "rejected" THEN SJ!Question("rejected", running.job) ELSE prompt
    BY <1>2 DEF SJ!OnPushed, SJ!Is, WorkInv
  <2>2. ~Pulls /\ ~Pulls' /\ ~Rejectable'
    BY <2>1 DEF Pulls, Rejectable
  <2>3. CASE reply.result = "rejected"
    <3>1. Rejectable
      BY <2>1, <2>3 DEF PushInv, RejectInv
    <3>2. form = SJ!None /\ setting = SJ!None /\ thenPush = SJ!None
      BY <2>2, <3>1 DEF PushInv, FormInv, FollowInv
    <3>3. prompt'.push.asked
      BY <2>1, <2>3 DEF PushInv, AskInv, SJ!Question
    <3> QED  BY <2>1, <3>2, <3>3, NoneKind DEF PushInv, AskInv, RejectInv, FormInv, FollowInv
  <2>4. CASE reply.result # "rejected"
    BY <2>1, <2>2, <2>4 DEF PushInv, AskInv, RejectInv, FormInv, FollowInv
  <2> QED  BY <2>3, <2>4
<1> QED  BY <1>1, <1>2

-----------------------------------------------------------------------------
SyncInv == SyncTypes /\ WorkInv /\ (Awaits => PushInv)

(* The git pane's jobs are SyncJobs, whichever part moves.                  *)
LEMMA Syncing == Spec => SJ!Init /\ [][SJ!Next]_SJ!vars
<1>1. Init => SJ!Init
  BY DEF Init
<1>2. [Next]_vars => [SJ!Next]_SJ!vars
  BY DEF Next, vars, syncVars, SJ!vars
<1> QED  BY <1>1, <1>2, PTL DEF Spec

(* The invariant holds, whatever is asked, cancelled or refused.            *)
THEOREM SyncInvariance == Spec => []SyncInv
<1>1. SJ!Init => SyncInv
  <2> SUFFICES ASSUME SJ!Init PROVE SyncInv
    OBVIOUS
  <2>1. /\ running = SJ!None /\ reply = SJ!None /\ setting = SJ!None /\ prompt = SJ!None
        /\ form = SJ!None /\ confirm = SJ!None
        /\ thenPush = SJ!None /\ git = "none" /\ failures = 0 /\ shown = 0
        /\ pending = 0 /\ recorded = 0 /\ landed = 0 /\ jobs = 0
    BY DEF SJ!Init
  <2>2. SyncTypes
    <3>1. JobTypes
      <4>1. due = TRUE
        BY DEF SJ!Init
      <4> QED  BY <2>1, <4>1, RunningFacts, ReplyFacts DEF JobTypes
    <3>2. AskTypes
      BY <2>1, PromptFacts, FormFacts DEF AskTypes
    <3>3. RestTypes
      <4>1. upstream \in BOOLEAN /\ dirty \in BOOLEAN /\ undoBusy = FALSE /\ asked = FALSE
        BY DEF SJ!Init
      <4>2. failures \in 0 .. 2 /\ shown \in Nat /\ pending \in Nat /\ recorded \in Nat /\ landed \in Nat
        BY <2>1
      <4> QED  BY <2>1, <4>1, <4>2, ReplyFacts DEF RestTypes
    <3> QED  BY <3>1, <3>2, <3>3 DEF SyncTypes
  <2>3. WorkInv
    BY <2>1 DEF WorkInv
  <2>4. PushInv
    BY <2>1, NoneKind DEF PushInv, AskInv, RejectInv, FormInv, FollowInv, Pulls, Rejectable
  <2> QED  BY <2>2, <2>3, <2>4 DEF SyncInv
<1>2. SyncInv /\ [SJ!Next]_SJ!vars => SyncInv'
  <2> SUFFICES ASSUME SyncInv, [SJ!Next]_SJ!vars PROVE SyncInv'
    OBVIOUS
  <2>1. SyncTypes' /\ WorkInv'
    BY SyncTypeStep, WorkStep DEF SyncInv
  <2>2. ASSUME Awaits PROVE PushInv'
    BY <2>2, QuietStep, RequestStep, FormStep, AnswerStep, OverStep DEF SyncInv, SJ!Next
  <2> QED  BY <2>1, <2>2 DEF SyncInv, Awaits
<1> QED  BY <1>1, <1>2, Syncing, PTL

(* No push runs but those the user asked for, by themselves or to follow    *)
(* the pull that succeeded (apply_pulled, run_pull_plan), of a user who     *)
(* answers what is open before asking for more.                             *)
THEOREM Asked == ASSUME Awaits PROVE Spec => []PushesAreAsked
<1>1. SyncInv => PushesAreAsked
  BY DEF SyncInv, PushInv, AskInv, PushesAreAsked, SJ!PushesAreAsked
<1> QED  BY <1>1, SyncInvariance, PTL

(* Whatever the user does, a pull or push that ended well is journaled once *)
(* its job is over, cancelled or not, no undo runs beside a job, and a      *)
(* background fetch that keeps failing says so once (on_pulled, sync_tick,  *)
(* BackgroundFetch::finished).                                              *)
THEOREM EndReported == Spec => []EndedIsReported
<1>1. SyncInv => EndedIsReported
  BY DEF SyncInv, WorkInv, EndedIsReported, SJ!EndedIsReported
<1> QED  BY <1>1, SyncInvariance, PTL

(* ------------------------------------------------------------------------ *)
(* The interactive rebase.                                                  *)
(* A commit holds one of the first n made; so do all of a list.             *)
Of(c, n) == \E k \in c.of : k \in Nat /\ k <= n
Listed(s) == \E T : s \in Seq(T)
Old(s, n) == \E T : s \in Seq(T) /\ \A c \in T : Of(c, n)

(* A plan's commits are in a list.                                          *)
PlanFor(plan, s) == Listed(plan) /\ \A i \in DOMAIN plan : plan[i].commit \in RR!ToSet(s)

Session(run, b) == [run |-> run, before |-> b]

(* What a rebase of this run, that started on b, may be said to have done.  *)
Ends(run, b, stop) ==
  \/ stop = RR!Done(RR!None)
  \/ stop = RR!Done(stop.entry) /\ stop.entry.kind = "entry" /\ stop.entry.run = run /\ stop.entry.before = b

CommitsInv(b) ==
  /\ runs \in Nat /\ made \in Nat
  /\ Old(branch, Originals + made) /\ Old(b, Originals + made)

(* No range is read and no plan is made before the pane is done.            *)
Quiet == own = RR!None /\ probe = RR!None /\ active = RR!None /\ repo = RR!None
PlanInv ==
  /\ ranging # RR!None => Quiet /\ editor = RR!None
  /\ editor # RR!None => /\ Quiet /\ ranging = RR!None /\ Listed(editor.commits)
                         /\ RR!ToSet(editor.commits) \subseteq RR!ToSet(branch)

(* What the pane's worker is at, with git on the plan's own commits.        *)
StartInv ==
  own.kind = "start" =>
    /\ probe = RR!None /\ active = RR!None /\ repo = RR!None
    /\ own.run = runs /\ PlanFor(own.plan, branch)
BeginInv(b) ==
  own.kind = "begin" =>
    /\ probe = RR!None /\ active = RR!None /\ repo = RR!None
    /\ own.session = Session(runs, b) /\ runs \in files /\ PlanFor(own.plan, b)
    /\ branch = b \/ \E c \in RR!ToSet(branch) : c \notin RR!ToSet(b)
GitInv(b) ==
  own.kind = "git" =>
    /\ own.session = Session(runs, b) /\ repo # RR!None /\ repo.stop = "no" /\ repo.by = "pane"
    /\ \/ own.to = "start" /\ active = RR!None /\ probe = RR!None
       \/ own.to = "continue" /\ active # RR!None
ReplyInv(b) ==
  own.kind = "reply" =>
    /\ own.stop = RR!Failed \/ own.stop = RR!Stopped(Session(runs, b)) \/ Ends(runs, b, own.stop)
    /\ own.stop.kind = "done" => repo = RR!None
    /\ \/ own.to = "start" /\ active = RR!None /\ probe = RR!None /\ (own.stop = RR!Failed => repo = RR!None)
       \/ own.to = "continue" /\ active # RR!None
       \/ own.to = "abort" /\ active # RR!None /\ (own.stop = RR!Failed \/ own.stop = RR!Done(RR!None))
OwnInv(b) ==
  /\ own = RR!None \/ own.kind \in {"start", "begin", "git", "reply"}
  /\ StartInv /\ BeginInv(b) /\ GitInv(b) /\ ReplyInv(b)

ProbeInv(b) ==
  /\ active = RR!None \/ active = Session(runs, b)
  /\ probe = RR!None \/ probe = [kind |-> "probe", session |-> Session(runs, b)] \/ probe.kind = "probed"
  /\ probe.kind = "probed" =>
       /\ probe.stop = RR!Stopped(Session(runs, b)) \/ Ends(runs, b, probe.stop)
       /\ probe.stop.kind = "done" => repo = RR!None

(* git's directory is of the session that the pane holds or is to hold.     *)
Shape(r) ==
  r \in [kind : {"rebase"}, run : {r.run}, orig : {r.orig}, plan : {r.plan}, at : {r.at},
         built : {r.built}, stop : {r.stop}, by : {r.by}, helped : {r.helped}]
DirInv(b) ==
  repo # RR!None =>
    /\ Shape(repo) /\ repo.run = runs /\ repo.orig = b /\ PlanFor(repo.plan, b)
    /\ Old(repo.built, Originals + made)
    /\ repo.at \in 0 .. Len(repo.plan)
    /\ repo.stop \in {"no", "edit", "conflict", "resolved"} /\ (repo.stop # "no" => repo.at # 0)
HeldInv ==
  repo # RR!None =>
    /\ runs \in files
    /\ repo.stop = "no" => (repo.by = "pane" /\ own.kind = "git") \/ repo.by = "terminal"
    /\ \/ active # RR!None \/ own.kind = "git"
       \/ own.kind = "reply" /\ own.to = "start" /\ own.stop.kind = "stopped"

Recorded(e) == \E i \in DOMAIN journal : journal[i].run = e.run /\ journal[i].before = e.before

(* The end of a rebase is on its way to the journal.                        *)
Told == own.kind = "reply" /\ own.to # "abort" /\ own.stop.kind = "done" /\ own.stop.entry # RR!None
Untold(b) ==
  /\ branch # b
  /\ active # RR!None \/ (own.kind = "reply" /\ own.to = "start" /\ own.stop.kind = "stopped")
  /\ own.kind = "reply" => own.stop.kind # "done"
  /\ probe.kind = "probed" /\ probe.stop.kind = "done" => probe.stop.entry # RR!None

EndedInv(b) ==
  \A e \in ended :
    /\ e.run \in Nat /\ e.run <= runs
    /\ e.run = runs => e.before = b /\ repo = RR!None /\ own.kind \notin {"start", "begin", "git"}
    /\ e.after # e.before => Recorded(e) \/ (e.run = runs /\ (Told \/ Untold(b)))

JournalInv ==
  /\ Listed(journal)
  /\ \A i \in DOMAIN journal : journal[i].run \in Nat /\ journal[i].run <= runs
  /\ \A i, k \in DOMAIN journal : journal[i].run = journal[k].run => i = k
  /\ \A i \in DOMAIN journal : journal[i].run = runs => own = RR!None /\ active = RR!None /\ repo = RR!None

RunInv(b) ==
  /\ CommitsInv(b) /\ PlanInv /\ OwnInv(b) /\ ProbeInv(b) /\ DirInv(b) /\ HeldInv
  /\ EndedInv(b) /\ JournalInv

(* A set of numbers that is not empty has a least one.                      *)
LEMMA Least ==
  ASSUME NEW T \in SUBSET Nat, T # {}
  PROVE  \E n \in T : \A m \in T : n <= m
<1> DEFINE C == {1 .. n : n \in T}
<1>1. C \subseteq FiniteSubsetsOf(Nat)
  <2>1. ASSUME NEW n \in T PROVE 1 .. n \in FiniteSubsetsOf(Nat)
    <3>1. n \in Int /\ 1 .. n \subseteq Nat
      OBVIOUS
    <3>2. IsFiniteSet(1 .. n)
      BY <3>1, FS_Interval
    <3> QED  BY ONLY <3>1, <3>2 DEF FiniteSubsetsOf
  <2> QED  BY <2>1
<1>2. C # {}
  OBVIOUS
<1>3. PICK c \in C : \A d \in C : ~ <<d, c>> \in StrictSubsetOrdering(Nat)
  <2> HIDE DEF C
  <2> QED  BY <1>1, <1>2, FS_StrictSubsetOrderingWellFounded, WFMin
<1>4. PICK n \in T : c = 1 .. n
  OBVIOUS
<1>5. ASSUME NEW m \in T PROVE n <= m
  <2>1. ~ <<1 .. m, 1 .. n>> \in StrictSubsetOrdering(Nat)
    BY <1>3, <1>4
  <2> QED  BY <2>1 DEF StrictSubsetOrdering
<1> QED  BY <1>5

(* What the parts of the pane and of git are known by.                      *)
LEMMA Kinds ==
  /\ RR!None.kind = "none" /\ RR!Failed.kind = "error"
  /\ \A to, stop : RR!Reply(to, stop).kind = "reply" /\ RR!Reply(to, stop).to = to /\ RR!Reply(to, stop).stop = stop
  /\ \A s : RR!Stopped(s).kind = "stopped" /\ RR!Stopped(s).session = s
  /\ \A e : RR!Done(e).kind = "done" /\ RR!Done(e).entry = e
  /\ \A r, b : Session(r, b) # RR!None /\ Session(r, b).run = r /\ Session(r, b).before = b
BY DEF RR!None, RR!Failed, RR!Reply, RR!Stopped, RR!Done, Session

LEMMA ListedFacts ==
  ASSUME NEW s, Listed(s)
  PROVE  /\ Len(s) \in Nat /\ DOMAIN s = 1 .. Len(s)
         /\ \A c : /\ Listed(Append(s, c)) /\ Len(Append(s, c)) = Len(s) + 1
                   /\ Append(s, c)[Len(s) + 1] = c
                   /\ \A i \in 1 .. Len(s) : Append(s, c)[i] = s[i]
<1>1. PICK T : s \in Seq(T)
  BY DEF Listed
<1>2. ASSUME NEW c PROVE Append(s, c) \in Seq(T \cup {c})
  BY <1>1
<1>3. \A c : Listed(Append(s, c))
  BY <1>2 DEF Listed
<1> QED  BY <1>1, <1>3

LEMMA OldGrows ==
  ASSUME NEW s, NEW m \in Nat, NEW n \in Nat, m <= n, Old(s, m)
  PROVE  Old(s, n)
BY DEF Old, Of

LEMMA OldFacts ==
  ASSUME NEW s, NEW n, Old(s, n)
  PROVE  Listed(s) /\ \A c \in RR!ToSet(s) : Of(c, n)
BY DEF Old, Listed, RR!ToSet

LEMMA OldAppends ==
  ASSUME NEW s, NEW n, Old(s, n), NEW c, Of(c, n)
  PROVE  Old(Append(s, c), n) /\ Old(RR!Front(s) \o <<c>>, n)
<1>1. PICK T : s \in Seq(T) /\ \A d \in T : Of(d, n)
  BY DEF Old
<1>2. Append(s, c) \in Seq(T \cup {c})
  BY <1>1
<1>3. RR!Front(s) \in Seq(T)
  BY <1>1 DEF RR!Front
<1>4. RR!Front(s) \o <<c>> \in Seq(T \cup {c})
  BY <1>3
<1>5. \A d \in T \cup {c} : Of(d, n)
  BY <1>1
<1> QED  BY <1>2, <1>4, <1>5 DEF Old

LEMMA BuiltIsOld ==
  ASSUME NEW b, CommitsInv(b), repo # RR!None, DirInv(b), NEW i \in 1 .. Len(repo.plan),
         NEW by, NEW conflict
  PROVE  Old(RR!Built(by, i, conflict), Originals + made)
<1> DEFINE step == repo.plan[i]
           prior == RR!Last(repo.built)
           filled == IF ~RR!Melds(step) THEN step.commit.says ELSE IF RR!Squashes(i) THEN RR!Combined ELSE prior.says
           says == IF RR!Prompts(i, conflict) THEN RR!Edited(by, i, filled) ELSE filled
           melded == [of |-> prior.of \cup step.commit.of, says |-> says]
           kept == [of |-> step.commit.of, says |-> says]
           n == Originals + made
<1>1. step.commit \in RR!ToSet(b)
  BY ListedFacts DEF DirInv, PlanFor
<1>2. Of(step.commit, n)
  BY <1>1, OldFacts DEF CommitsInv
<1>3. Old(repo.built, n)
  BY DEF DirInv
<1>4. RR!Built(by, i, conflict) = IF RR!Melds(step) THEN RR!Front(repo.built) \o <<melded>>
                               ELSE IF step.action = "drop" THEN repo.built ELSE Append(repo.built, kept)
  BY DEF RR!Built
<1> HIDE DEF says
<1>5. Of(melded, n) /\ Of(kept, n)
  BY <1>2 DEF Of
<1>6. Old(RR!Front(repo.built) \o <<melded>>, n) /\ Old(Append(repo.built, kept), n)
  <2> HIDE DEF melded, kept, n
  <2> QED  BY <1>3, <1>5, OldAppends
<1> HIDE DEF melded, kept, step
<1> QED  BY <1>3, <1>4, <1>6

(* A plan made of a list of commits has a step for each, with that commit.  *)
LEMMA PlansAre ==
  ASSUME NEW s, Listed(s), NEW run, NEW p \in RR!Plans(s, run)
  PROVE  PlanFor(p, s)
<1> DEFINE L == Len(s)
           Ext(Q, n) == {Append(q, c) : q \in Q, c \in RR!Steps(s[n], run, n)}
           Rec(f) == f = [n \in 0 .. L |-> IF n = 0 THEN {<<>>} ELSE Ext(f[n - 1], n)]
           All == UNION {RR!Steps(s[i], run, i) : i \in 1 .. L}
           G(n) == {q \in [1 .. n -> All] : \A i \in 1 .. n : q[i] \in RR!Steps(s[i], run, i)}
           g == [n \in 0 .. L |-> G(n)]
<1>1. L \in Nat /\ DOMAIN s = 1 .. L
  BY ListedFacts
<1>2. G(0) = {<<>>}
  <2>1. ASSUME NEW q \in [1 .. 0 -> All] PROVE q = <<>>
    <3>1. q \in Seq(All) /\ Len(q) = 0
      OBVIOUS
    <3> QED  BY <3>1
  <2>2. <<>> \in [1 .. 0 -> All]
    <3>1. <<>> \in Seq(All) /\ Len(<<>>) = 0
      OBVIOUS
    <3> QED  BY <3>1
  <2> HIDE DEF All
  <2>3. [1 .. 0 -> All] = {<<>>}
    BY <2>1, <2>2
  <2> QED  BY <2>3
<1>3. ASSUME NEW n \in 1 .. L PROVE G(n) = Ext(G(n - 1), n)
  <2>1. n - 1 \in Nat /\ n \in Nat
    BY <1>1
  <2>2. ASSUME NEW q \in G(n - 1), NEW c \in RR!Steps(s[n], run, n) PROVE Append(q, c) \in G(n)
    <3>1. q \in Seq(All) /\ Len(q) = n - 1 /\ c \in All
      BY <1>1, <2>1
    <3>2. Append(q, c) \in Seq(All) /\ Len(Append(q, c)) = n
      BY <3>1, <2>1
    <3>3. \A i \in 1 .. n : Append(q, c)[i] \in RR!Steps(s[i], run, i)
      BY <3>1, <2>1
    <3> HIDE DEF All
    <3>4. Append(q, c) \in [1 .. n -> All]
      <4> DEFINE a == Append(q, c)
      <4>1. a \in Seq(All) /\ Len(a) = n
        BY <3>2
      <4> HIDE DEF a
      <4>2. a \in [1 .. n -> All]
        BY <4>1
      <4> QED  BY <4>2 DEF a
    <3> QED  BY <3>3, <3>4
  <2>3. ASSUME NEW r \in G(n)
        PROVE  \E q \in G(n - 1) : \E c \in RR!Steps(s[n], run, n) : r = Append(q, c)
    <3> DEFINE q == [i \in 1 .. n - 1 |-> r[i]]
    <3>1. q \in G(n - 1)
      BY <2>1
    <3>2. q \in Seq(All) /\ Len(q) = n - 1
      <4>1. q \in [1 .. n - 1 -> All]
        BY <3>1
      <4> HIDE DEF All, q
      <4> QED  BY <4>1, <2>1
    <3>3. r[n] \in RR!Steps(s[n], run, n) /\ r[n] \in All
      BY <2>1
    <3>4. r \in Seq(All) /\ Len(r) = n
      BY <2>1
    <3>5. r = Append(q, r[n])
      BY <3>2, <3>3, <3>4, <2>1
    <3> QED  BY <3>1, <3>3, <3>5
  <2> HIDE DEF G
  <2>4. ASSUME NEW r \in Ext(G(n - 1), n) PROVE r \in G(n)
    <3>1. PICK q \in G(n - 1), c \in RR!Steps(s[n], run, n) : r = Append(q, c)
      OBVIOUS
    <3> QED  BY <3>1, <2>2
  <2>5. ASSUME NEW r \in G(n) PROVE r \in Ext(G(n - 1), n)
    BY <2>3
  <2> HIDE DEF Ext
  <2> QED  BY <2>4, <2>5
<1>4. Rec(g)
  <2> HIDE DEF G, Ext
  <2>1. ASSUME NEW n \in 0 .. L PROVE g[n] = IF n = 0 THEN {<<>>} ELSE Ext(g[n - 1], n)
    <3>1. n # 0 => n \in 1 .. L /\ n - 1 \in 0 .. L
      BY <1>1
    <3>2. CASE n = 0
      <4>1. g[n] = G(0)
        BY <3>2
      <4> HIDE DEF g
      <4> QED  BY <4>1, <3>2, <1>2
    <3>3. CASE n # 0
      <4>1. g[n] = G(n) /\ g[n - 1] = G(n - 1)
        BY <3>1, <3>3
      <4> HIDE DEF g
      <4> QED  BY <4>1, <3>1, <3>3, <1>3
    <3> QED  BY <3>2, <3>3
  <2>2. g = [n \in 0 .. L |-> g[n]]
    OBVIOUS
  <2> HIDE DEF g
  <2>3. [n \in 0 .. L |-> g[n]] = [n \in 0 .. L |-> IF n = 0 THEN {<<>>} ELSE Ext(g[n - 1], n)]
    BY <2>1
  <2> QED  BY <2>2, <2>3
<1>5. ASSUME NEW f, Rec(f) PROVE \A n \in 0 .. L : f[n] = G(n)
  <2> HIDE DEF G, Ext
  <2> DEFINE T == {n \in 0 .. L : f[n] # G(n)}
  <2>1. ASSUME T # {} PROVE FALSE
    <3>1. PICK n \in T : \A m \in T : n <= m
      <4>1. T \in SUBSET Nat
        BY <1>1
      <4> HIDE DEF T
      <4> QED  BY <4>1, <2>1, Least
    <3>2. n \in 0 .. L /\ f[n] # G(n)
      BY <3>1
    <3>3. \A m \in 0 .. L : f[m] = IF m = 0 THEN {<<>>} ELSE Ext(f[m - 1], m)
      <4> DEFINE h == [m \in 0 .. L |-> IF m = 0 THEN {<<>>} ELSE Ext(f[m - 1], m)]
      <4>1. f = h
        BY <1>5
      <4>2. \A m \in 0 .. L : h[m] = IF m = 0 THEN {<<>>} ELSE Ext(f[m - 1], m)
        <5> HIDE DEF L
        <5> QED  OBVIOUS
      <4> HIDE DEF h
      <4> QED  BY <4>1, <4>2
    <3>4. n # 0
      BY <3>2, <3>3, <1>2, <1>1
    <3>5. n - 1 \in 0 .. L /\ n \in 1 .. L /\ ~(n <= n - 1)
      BY <3>2, <3>4, <1>1
    <3>6. f[n - 1] = G(n - 1)
      BY <3>1, <3>5
    <3> QED  BY <3>2, <3>3, <3>4, <3>5, <3>6, <1>3
  <2> QED  BY <2>1
<1>6. p \in (CHOOSE f : Rec(f))[L]
  BY DEF RR!Plans
<1>7. p \in G(L)
  <2> HIDE DEF Rec, G, g, Ext
  <2>1. Rec(CHOOSE f : Rec(f))
    BY <1>4
  <2> QED  BY <2>1, <1>1, <1>5, <1>6
<1>8. p \in Seq(All) /\ DOMAIN p = 1 .. L
  BY <1>7, <1>1
<1>9. ASSUME NEW i \in 1 .. L PROVE p[i].commit \in RR!ToSet(s)
  <2>1. p[i] \in RR!Steps(s[i], run, i)
    BY <1>7
  <2>2. p[i].commit = s[i]
    BY <2>1 DEF RR!Steps
  <2> QED  BY <2>2, <1>1 DEF RR!ToSet
<1> QED  BY <1>8, <1>9 DEF PlanFor, Listed

LEMMA Shapes ==
  ASSUME NEW r, Shape(r)
  PROVE  r.kind = "rebase" /\ r # RR!None
BY DEF Shape, RR!None

(* git takes a step, or goes on from where it stopped.                      *)
LEMMA SteppedDir ==
  ASSUME RR!ConstantsOK, NEW b, RunInv(b), NEW by, RR!GitSteps(by)
  PROVE  /\ repo # RR!None /\ repo.stop = "no" /\ repo.by = by
         /\ Shape(repo') /\ repo'.run = runs /\ repo'.orig = b /\ PlanFor(repo'.plan, b) /\ repo'.by = by
         /\ repo'.stop \in {"no", "edit", "conflict"} /\ repo'.at # 0 /\ repo'.at \in 0 .. Len(repo'.plan)
         /\ Old(repo'.built, Originals + made)
         /\ own' = IF repo'.stop = "no" \/ by # "pane" THEN own ELSE RR!Reply(own.to, RR!Stopped(own.session))
         /\ UNCHANGED <<branch, made, files, ranging, editor, probe, active, journal, ended, runs>>
<1>1. repo # RR!None /\ DirInv(b) /\ CommitsInv(b) /\ Shape(repo) /\ repo.stop = "no" /\ repo.by = by
      /\ repo.at < Len(repo.plan) /\ repo.at \in 0 .. Len(repo.plan) /\ Len(repo.plan) \in Nat
  BY ListedFacts DEF RunInv, DirInv, PlanFor, RR!GitSteps, RR!Runs
<1> DEFINE grown(stop) == IF stop = "conflict" THEN repo.built ELSE RR!Built(by, repo.at + 1, FALSE)
<1>2. PICK stop \in {"no", "edit", "conflict"} :
        /\ repo' = [repo EXCEPT !.at = repo.at + 1, !.stop = stop, !.built = grown(stop)]
        /\ own' = IF stop = "no" \/ by # "pane" THEN own ELSE RR!Reply(own.to, RR!Stopped(own.session))
  BY DEF RR!GitSteps
<1>3. repo.at + 1 \in 1 .. Len(repo.plan)
  BY <1>1
<1>4. Old(grown(stop), Originals + made)
  <2>1. Old(RR!Built(by, repo.at + 1, FALSE), Originals + made)
    BY <1>1, <1>3, BuiltIsOld
  <2> QED  BY <2>1, <1>1 DEF DirInv
<1> HIDE DEF grown
<1>5. /\ Shape(repo') /\ repo'.run = repo.run /\ repo'.orig = repo.orig /\ repo'.plan = repo.plan /\ repo'.by = repo.by
      /\ repo'.at = repo.at + 1 /\ repo'.stop = stop /\ repo'.built = grown(stop)
  BY <1>1, <1>2 DEF Shape
<1>6. UNCHANGED <<branch, made, files, ranging, editor, probe, active, journal, ended, runs>>
  BY DEF RR!GitSteps
<1> QED  BY <1>1, <1>2, <1>3, <1>4, <1>5, <1>6 DEF DirInv

LEMMA GoneDir ==
  ASSUME RR!ConstantsOK, NEW b, RunInv(b), NEW by, repo # RR!None, repo.stop \in {"edit", "resolved"}, RR!Goes(by)
  PROVE  /\ Shape(repo') /\ repo'.run = runs /\ repo'.orig = b /\ PlanFor(repo'.plan, b) /\ repo'.by = by
         /\ repo'.stop = "no" /\ repo'.at \in 0 .. Len(repo'.plan)
         /\ Old(repo'.built, Originals + made)
<1>1. DirInv(b) /\ CommitsInv(b) /\ Shape(repo)
      /\ repo.at \in 0 .. Len(repo.plan) /\ repo.at # 0 /\ Len(repo.plan) \in Nat
  BY ListedFacts DEF RunInv, DirInv, PlanFor
<1> DEFINE grown == IF repo.stop = "resolved" THEN RR!Built(by, repo.at, TRUE) ELSE repo.built
           helped == repo.helped /\ by = "pane"
<1>2. repo' = [repo EXCEPT !.stop = "no", !.by = by, !.helped = helped, !.built = grown]
  BY DEF RR!Goes
<1>3. repo.at \in 1 .. Len(repo.plan)
  BY <1>1
<1>4. Old(grown, Originals + made)
  <2>1. Old(RR!Built(by, repo.at, TRUE), Originals + made)
    BY <1>1, <1>3, BuiltIsOld
  <2> QED  BY <2>1, <1>1 DEF DirInv
<1> HIDE DEF grown, helped
<1>5. /\ Shape(repo') /\ repo'.run = repo.run /\ repo'.orig = repo.orig /\ repo'.plan = repo.plan /\ repo'.at = repo.at
      /\ repo'.by = by /\ repo'.stop = "no" /\ repo'.built = grown
  BY <1>1, <1>2 DEF Shape
<1> QED  BY <1>1, <1>4, <1>5 DEF DirInv

LEMMA ReadHeadKeeps ==
  ASSUME RR!ConstantsOK, NEW b, RunInv(b), Calm, RR!ReadHead
  PROVE  RunInv(b)'
<1> USE Kinds DEF RunInv
<1>1. CommitsInv(b)'
  BY DEF CommitsInv, RR!ReadHead, RR!Running
<1>2. PlanInv'
  BY DEF PlanInv, Quiet, OwnInv, RR!ReadHead, RR!Running
<1>3. OwnInv(b)'
  BY DEF OwnInv, StartInv, BeginInv, GitInv, ReplyInv, RR!ReadHead, RR!Running
<1>4. ProbeInv(b)'
  BY DEF ProbeInv, RR!ReadHead, RR!Running
<1>5. DirInv(b)'
  BY DEF DirInv, RR!ReadHead, RR!Running
<1>6. HeldInv'
  BY DEF HeldInv, OwnInv, GitInv, ReplyInv, DirInv, RR!ReadHead, RR!Running
<1>7. EndedInv(b)'
  BY DEF EndedInv, Recorded, Told, Untold, OwnInv, ReplyInv, ProbeInv, RR!ReadHead, RR!Running
<1>8. JournalInv'
  BY DEF JournalInv, OwnInv, ReplyInv, ProbeInv, RR!ReadHead, RR!Running
<1> QED  BY <1>1, <1>2, <1>3, <1>4, <1>5, <1>6, <1>7, <1>8 DEF RunInv

LEMMA OnRangeKeeps ==
  ASSUME RR!ConstantsOK, NEW b, RunInv(b), RR!OnRange
  PROVE  RunInv(b)'
<1> USE Kinds DEF RunInv
<1>1. CommitsInv(b)'
  BY DEF CommitsInv, RR!OnRange
<1>2. PlanInv'
  BY OldFacts DEF PlanInv, Quiet, OwnInv, RR!OnRange, CommitsInv
<1>3. OwnInv(b)'
  BY DEF OwnInv, StartInv, BeginInv, GitInv, ReplyInv, RR!OnRange
<1>4. ProbeInv(b)'
  BY DEF ProbeInv, RR!OnRange
<1>5. DirInv(b)'
  BY DEF DirInv, RR!OnRange
<1>6. HeldInv'
  BY DEF HeldInv, OwnInv, GitInv, ReplyInv, DirInv, RR!OnRange
<1>7. EndedInv(b)'
  BY DEF EndedInv, Recorded, Told, Untold, OwnInv, ReplyInv, ProbeInv, RR!OnRange
<1>8. JournalInv'
  BY DEF JournalInv, OwnInv, ReplyInv, ProbeInv, RR!OnRange
<1> QED  BY <1>1, <1>2, <1>3, <1>4, <1>5, <1>6, <1>7, <1>8 DEF RunInv

LEMMA CancelPlanKeeps ==
  ASSUME RR!ConstantsOK, NEW b, RunInv(b), RR!Cancel
  PROVE  RunInv(b)'
<1> USE Kinds DEF RunInv
<1>1. CommitsInv(b)'
  BY DEF CommitsInv, RR!Cancel
<1>2. PlanInv'
  BY DEF PlanInv, Quiet, OwnInv, RR!Cancel
<1>3. OwnInv(b)'
  BY DEF OwnInv, StartInv, BeginInv, GitInv, ReplyInv, RR!Cancel
<1>4. ProbeInv(b)'
  BY DEF ProbeInv, RR!Cancel
<1>5. DirInv(b)'
  BY DEF DirInv, RR!Cancel
<1>6. HeldInv'
  BY DEF HeldInv, OwnInv, GitInv, ReplyInv, DirInv, RR!Cancel
<1>7. EndedInv(b)'
  BY DEF EndedInv, Recorded, Told, Untold, OwnInv, ReplyInv, ProbeInv, RR!Cancel
<1>8. JournalInv'
  BY DEF JournalInv, OwnInv, ReplyInv, ProbeInv, RR!Cancel
<1> QED  BY <1>1, <1>2, <1>3, <1>4, <1>5, <1>6, <1>7, <1>8 DEF RunInv

LEMMA GitBeginsKeeps ==
  ASSUME RR!ConstantsOK, NEW b, RunInv(b), RR!GitBegins
  PROVE  RunInv(b)'
<1> USE Kinds DEF RunInv
<1>0. /\ own.kind = "begin" /\ probe = RR!None /\ active = RR!None /\ repo = RR!None /\ own.session = Session(runs, b)
      /\ runs \in files /\ PlanFor(own.plan, b) /\ (branch = b \/ \E c \in RR!ToSet(branch) : c \notin RR!ToSet(b))
      /\ UNCHANGED <<branch, made, ranging, editor, probe, active, journal, ended, runs>>
  BY DEF OwnInv, BeginInv, RR!GitBegins
<1>b. \/ own' = RR!Reply("start", RR!Failed) /\ UNCHANGED repo
      \/ /\ own' = [kind |-> "git", to |-> "start", session |-> own.session] /\ files' = files
         /\ repo'.kind = "rebase" /\ Shape(repo') /\ repo'.run = runs /\ repo'.orig = b /\ repo'.plan = own.plan
         /\ repo'.at = 0 /\ repo'.built = <<>> /\ repo'.stop = "no" /\ repo'.by = "pane" /\ repo' # RR!None
  <2>1. CASE RR!Missing(own.plan, branch) # {}
    BY <2>1 DEF RR!GitBegins
  <2>2. CASE RR!Missing(own.plan, branch) = {}
    <3>1. /\ own' = [kind |-> "git", to |-> "start", session |-> own.session] /\ files' = files
          /\ repo' = [kind |-> "rebase", run |-> own.session.run, orig |-> branch, plan |-> own.plan,
                      at |-> 0, built |-> <<>>, stop |-> "no", by |-> "pane", helped |-> TRUE]
      BY <2>2 DEF RR!GitBegins
    <3>2. RR!ToSet(branch) \subseteq {own.plan[i].commit : i \in DOMAIN own.plan}
      BY <2>2 DEF RR!Missing
    <3>3. branch = b
      BY <3>2, <1>0 DEF PlanFor
    <3>4. own.session.run = runs
      BY <1>0
    <3>5. Shape(repo') /\ repo'.kind = "rebase"
      BY <3>1 DEF Shape
    <3> QED  BY <3>1, <3>3, <3>4, <3>5, Shapes
  <2> QED  BY <2>1, <2>2
<1>c. Old(<<>>, Originals + made) /\ Len(own.plan) \in Nat
  <2>1. Old(<<>>, Originals + made)
    <3> DEFINE E == {}
    <3>1. <<>> \in Seq(E) /\ \A c \in E : Of(c, Originals + made)
      OBVIOUS
    <3> HIDE DEF E
    <3> QED  BY <3>1 DEF Old
  <2> QED  BY <2>1, <1>0, ListedFacts DEF PlanFor
<1>1. CommitsInv(b)'
  BY <1>0, <1>b, <1>c DEF CommitsInv, OwnInv
<1>2. PlanInv'
  BY <1>0, <1>b, <1>c DEF PlanInv, Quiet, OwnInv
<1>3. OwnInv(b)'
  BY <1>0, <1>b, <1>c DEF OwnInv, StartInv, BeginInv, GitInv, ReplyInv
<1>4. ProbeInv(b)'
  BY <1>0, <1>b, <1>c DEF ProbeInv, OwnInv
<1>5. DirInv(b)'
  BY <1>0, <1>b, <1>c DEF DirInv, OwnInv
<1>6. HeldInv'
  BY <1>0, <1>b, <1>c DEF HeldInv, OwnInv
<1>7. EndedInv(b)'
  BY <1>0, <1>b, <1>c DEF EndedInv, Recorded, Told, Untold, OwnInv
<1>8. JournalInv'
  BY <1>0, <1>b, <1>c DEF JournalInv, OwnInv
<1> QED  BY <1>1, <1>2, <1>3, <1>4, <1>5, <1>6, <1>7, <1>8 DEF RunInv

LEMMA GitStepsPaneKeeps ==
  ASSUME RR!ConstantsOK, NEW b, RunInv(b), RR!GitSteps("pane")
  PROVE  RunInv(b)'
<1> USE Kinds DEF RunInv
<1>0. /\ repo # RR!None /\ repo.stop = "no" /\ repo.by = "pane"
      /\ Shape(repo') /\ repo'.run = runs /\ repo'.orig = b /\ PlanFor(repo'.plan, b) /\ repo'.by = repo.by
      /\ repo'.stop \in {"no", "edit", "conflict"} /\ repo'.at # 0 /\ repo'.at \in 0 .. Len(repo'.plan)
      /\ Old(repo'.built, Originals + made)
      /\ own' = IF repo'.stop = "no" \/ repo.by # "pane" THEN own ELSE RR!Reply(own.to, RR!Stopped(own.session))
      /\ UNCHANGED <<branch, made, files, ranging, editor, probe, active, journal, ended, runs>>
  BY SteppedDir
<1>a. repo' # RR!None /\ OwnInv(b) /\ HeldInv
  BY <1>0, Shapes DEF RunInv
<1>1. CommitsInv(b)'
  BY <1>0, <1>a DEF CommitsInv, OwnInv, GitInv, ReplyInv, HeldInv
<1>2. PlanInv'
  BY <1>0, <1>a DEF PlanInv, Quiet, OwnInv, GitInv, ReplyInv, HeldInv
<1>3. OwnInv(b)'
  BY <1>0, <1>a DEF OwnInv, StartInv, BeginInv, GitInv, ReplyInv, HeldInv
<1>4. ProbeInv(b)'
  BY <1>0, <1>a DEF ProbeInv, OwnInv, GitInv, ReplyInv, HeldInv
<1>5. DirInv(b)'
  BY <1>0, <1>a DEF DirInv, OwnInv, GitInv, ReplyInv, HeldInv
<1>6. HeldInv'
  BY <1>0, <1>a DEF HeldInv, OwnInv, GitInv, ReplyInv
<1>7. EndedInv(b)'
  BY <1>0, <1>a DEF EndedInv, Recorded, Told, Untold, OwnInv, GitInv, ReplyInv, HeldInv
<1>8. JournalInv'
  BY <1>0, <1>a DEF JournalInv, OwnInv, GitInv, ReplyInv, HeldInv
<1> QED  BY <1>1, <1>2, <1>3, <1>4, <1>5, <1>6, <1>7, <1>8 DEF RunInv

LEMMA GitStepsTerminalKeeps ==
  ASSUME RR!ConstantsOK, NEW b, RunInv(b), RR!GitSteps("terminal")
  PROVE  RunInv(b)'
<1> USE Kinds DEF RunInv
<1>0. /\ repo # RR!None /\ repo.stop = "no" /\ repo.by = "terminal"
      /\ Shape(repo') /\ repo'.run = runs /\ repo'.orig = b /\ PlanFor(repo'.plan, b) /\ repo'.by = repo.by
      /\ repo'.stop \in {"no", "edit", "conflict"} /\ repo'.at # 0 /\ repo'.at \in 0 .. Len(repo'.plan)
      /\ Old(repo'.built, Originals + made)
      /\ own' = IF repo'.stop = "no" \/ repo.by # "pane" THEN own ELSE RR!Reply(own.to, RR!Stopped(own.session))
      /\ UNCHANGED <<branch, made, files, ranging, editor, probe, active, journal, ended, runs>>
  BY SteppedDir
<1>a. repo' # RR!None /\ OwnInv(b) /\ HeldInv
  BY <1>0, Shapes DEF RunInv
<1>1. CommitsInv(b)'
  BY <1>0, <1>a DEF CommitsInv, OwnInv, GitInv, ReplyInv, HeldInv
<1>2. PlanInv'
  BY <1>0, <1>a DEF PlanInv, Quiet, OwnInv, GitInv, ReplyInv, HeldInv
<1>3. OwnInv(b)'
  BY <1>0, <1>a DEF OwnInv, StartInv, BeginInv, GitInv, ReplyInv, HeldInv
<1>4. ProbeInv(b)'
  BY <1>0, <1>a DEF ProbeInv, OwnInv, GitInv, ReplyInv, HeldInv
<1>5. DirInv(b)'
  BY <1>0, <1>a DEF DirInv, OwnInv, GitInv, ReplyInv, HeldInv
<1>6. HeldInv'
  BY <1>0, <1>a DEF HeldInv, OwnInv, GitInv, ReplyInv
<1>7. EndedInv(b)'
  BY <1>0, <1>a DEF EndedInv, Recorded, Told, Untold, OwnInv, GitInv, ReplyInv, HeldInv
<1>8. JournalInv'
  BY <1>0, <1>a DEF JournalInv, OwnInv, GitInv, ReplyInv, HeldInv
<1> QED  BY <1>1, <1>2, <1>3, <1>4, <1>5, <1>6, <1>7, <1>8 DEF RunInv

LEMMA GitEndsPaneKeeps ==
  ASSUME RR!ConstantsOK, NEW b, RunInv(b), RR!GitEnds("pane")
  PROVE  RunInv(b)'
<1> USE Kinds DEF RunInv
<1>0. /\ repo # RR!None /\ repo.stop = "no" /\ repo.by = "pane" /\ branch' = repo.built /\ repo' = RR!None
      /\ own' = RR!Reply(own.to, RR!Done(RR!Entry(own.session, repo.built)))
      /\ UNCHANGED <<made, ranging, editor, probe, active, journal, runs>>
  BY DEF RR!GitEnds, RR!Runs
<1>z. own.kind = "git" /\ OwnInv(b) /\ HeldInv
  BY <1>0 DEF HeldInv
<1>a. /\ own.kind = "git" /\ own.session = Session(runs, b) /\ own.session.run = runs /\ own.session.before = b
      /\ ((own.to = "start" /\ active = RR!None /\ probe = RR!None) \/ (own.to = "continue" /\ active # RR!None))
      /\ repo.run = runs /\ repo.orig = b /\ Old(repo.built, Originals + made)
  <2>1. GitInv(b)
    BY <1>z DEF OwnInv
  <2>2. own.session = Session(runs, b) /\ ((own.to = "start" /\ active = RR!None /\ probe = RR!None) \/ (own.to = "continue" /\ active # RR!None))
    BY <2>1, <1>z DEF GitInv
  <2>3. repo.run = runs /\ repo.orig = b /\ Old(repo.built, Originals + made)
    BY <1>0 DEF DirInv
  <2> QED  BY <1>z, <2>2, <2>3
<1>b. PICK now : /\ now.run = runs /\ now.before = b /\ now.after = repo.built /\ ended' = ended \cup {now}
  <2> DEFINE meant == IF repo.helped THEN RR!Meant(repo.plan) ELSE branch'
             now == [run |-> repo.run, before |-> repo.orig, after |-> branch', meant |-> meant]
  <2>1. ended' = ended \cup {now}
    BY DEF RR!GitEnds
  <2> HIDE DEF meant
  <2> QED  BY <2>1, <1>0, <1>a
<1> DEFINE entry == RR!Entry(own.session, repo.built)
<1>c. /\ repo.built = b => entry = RR!None
      /\ repo.built # b => entry # RR!None /\ entry.kind = "entry" /\ entry.run = runs /\ entry.before = b
  BY <1>a DEF RR!Entry, RR!None
<1> HIDE DEF entry
<1>d. /\ own'.kind = "reply" /\ own'.to = own.to /\ own'.stop = RR!Done(entry) /\ own'.stop.kind = "done" /\ own'.stop.entry = entry
      /\ Ends(runs, b, own'.stop) /\ own'.stop # RR!Failed
  BY <1>0, <1>c DEF Ends, entry
<1>1. CommitsInv(b)'
  BY <1>0, <1>z, <1>a, <1>b, <1>c, <1>d DEF CommitsInv, OwnInv, GitInv
<1>2. PlanInv'
  BY <1>0, <1>z, <1>a, <1>b, <1>c, <1>d DEF PlanInv, Quiet, OwnInv, GitInv
<1>3. OwnInv(b)'
  BY <1>0, <1>z, <1>a, <1>b, <1>c, <1>d DEF OwnInv, StartInv, BeginInv, GitInv, ReplyInv
<1>4. ProbeInv(b)'
  BY <1>0, <1>z, <1>a, <1>b, <1>c, <1>d DEF ProbeInv, OwnInv, GitInv
<1>5. DirInv(b)'
  BY <1>0, <1>z, <1>a, <1>b, <1>c, <1>d DEF DirInv, OwnInv, GitInv
<1>6. HeldInv'
  BY <1>0, <1>z, <1>a, <1>b, <1>c, <1>d DEF HeldInv, OwnInv, GitInv
<1>7. EndedInv(b)'
  <2>1. \A e : Recorded(e)' = Recorded(e)
    BY <1>0 DEF Recorded
  <2>2. \A e \in ended : e.run \in Nat /\ e.run <= runs /\ e.run # runs /\ (e.after # e.before => Recorded(e))
    BY <1>0 DEF EndedInv
  <2>3. repo.built # b => Told'
    BY <1>a, <1>c, <1>d DEF Told
  <2>4. runs' = runs /\ runs \in Nat /\ repo' = RR!None /\ own'.kind \notin {"start", "begin", "git"}
    BY <1>0, <1>a, <1>d DEF CommitsInv, OwnInv, StartInv, BeginInv
  <2> QED  BY <2>1, <2>2, <2>3, <2>4, <1>b DEF EndedInv
<1>8. JournalInv'
  BY <1>0, <1>z, <1>a, <1>b, <1>c, <1>d DEF JournalInv, OwnInv, GitInv
<1> QED  BY <1>1, <1>2, <1>3, <1>4, <1>5, <1>6, <1>7, <1>8 DEF RunInv

LEMMA GitEndsTerminalKeeps ==
  ASSUME RR!ConstantsOK, NEW b, RunInv(b), RR!GitEnds("terminal")
  PROVE  RunInv(b)'
<1> USE Kinds DEF RunInv
<1>0. /\ repo # RR!None /\ repo.stop = "no" /\ repo.by = "terminal" /\ branch' = repo.built /\ repo' = RR!None
      /\ UNCHANGED <<made, files, own, ranging, editor, probe, active, journal, runs>>
  BY DEF RR!GitEnds, RR!Runs
<1>a. OwnInv(b) /\ HeldInv /\ own.kind # "git"
      /\ repo.run = runs /\ repo.orig = b /\ Old(repo.built, Originals + made)
  BY <1>0 DEF HeldInv, OwnInv, GitInv, DirInv
<1>b. PICK now : /\ now.run = runs /\ now.before = b /\ now.after = repo.built /\ ended' = ended \cup {now}
  <2> DEFINE meant == IF repo.helped THEN RR!Meant(repo.plan) ELSE branch'
             now == [run |-> repo.run, before |-> repo.orig, after |-> branch', meant |-> meant]
  <2>1. ended' = ended \cup {now}
    BY DEF RR!GitEnds
  <2> HIDE DEF meant
  <2> QED  BY <2>1, <1>0, <1>a
<1>1. CommitsInv(b)'
  BY <1>0, <1>a, <1>b DEF CommitsInv, OwnInv, StartInv, BeginInv, ReplyInv, ProbeInv, HeldInv
<1>2. PlanInv'
  BY <1>0, <1>a, <1>b DEF PlanInv, Quiet, OwnInv, StartInv, BeginInv, ReplyInv, ProbeInv, HeldInv
<1>3. OwnInv(b)'
  BY <1>0, <1>a, <1>b DEF OwnInv, StartInv, BeginInv, GitInv, ReplyInv, ProbeInv, HeldInv
<1>4. ProbeInv(b)'
  BY <1>0, <1>a, <1>b DEF ProbeInv, OwnInv, StartInv, BeginInv, ReplyInv, HeldInv
<1>5. DirInv(b)'
  BY <1>0, <1>a, <1>b DEF DirInv, OwnInv, StartInv, BeginInv, ReplyInv, ProbeInv, HeldInv
<1>6. HeldInv'
  BY <1>0, <1>a, <1>b DEF HeldInv, OwnInv, StartInv, BeginInv, ReplyInv, ProbeInv
<1>7. EndedInv(b)'
  <2>1. \A e : Recorded(e)' = Recorded(e)
    BY <1>0 DEF Recorded
  <2>2. \A e \in ended : e.run \in Nat /\ e.run <= runs /\ e.run # runs /\ (e.after # e.before => Recorded(e))
    BY <1>0 DEF EndedInv
  <2>3. repo.built # b => Untold(b)'
    BY <1>0, <1>a DEF Untold, OwnInv, ReplyInv, ProbeInv, HeldInv
  <2>4. runs' = runs /\ runs \in Nat /\ repo' = RR!None /\ own'.kind \notin {"start", "begin", "git"}
    BY <1>0, <1>a DEF CommitsInv, OwnInv, StartInv, BeginInv
  <2> QED  BY <2>1, <2>2, <2>3, <2>4, <1>b DEF EndedInv
<1>8. JournalInv'
  BY <1>0, <1>a, <1>b DEF JournalInv, OwnInv, StartInv, BeginInv, ReplyInv, ProbeInv, HeldInv
<1> QED  BY <1>1, <1>2, <1>3, <1>4, <1>5, <1>6, <1>7, <1>8 DEF RunInv

LEMMA ResolveKeeps ==
  ASSUME RR!ConstantsOK, NEW b, RunInv(b), RR!Resolve
  PROVE  RunInv(b)'
<1> USE Kinds DEF RunInv
<1>0. /\ repo # RR!None /\ repo.stop = "conflict" /\ repo' = [repo EXCEPT !.stop = "resolved"]
      /\ UNCHANGED <<branch, made, files, ranging, editor, own, probe, active, journal, ended, runs>>
  BY DEF RR!Resolve
<1>a. /\ Shape(repo') /\ repo'.run = repo.run /\ repo'.orig = repo.orig /\ repo'.plan = repo.plan
      /\ repo'.at = repo.at /\ repo'.stop = "resolved" /\ repo'.built = repo.built /\ repo' # RR!None
  <2>1. Shape(repo)
    BY <1>0 DEF DirInv
  <2>2. Shape(repo') /\ repo'.run = repo.run /\ repo'.orig = repo.orig /\ repo'.plan = repo.plan
    BY <1>0, <2>1 DEF Shape
  <2>3. repo'.at = repo.at /\ repo'.stop = "resolved" /\ repo'.built = repo.built
    BY <1>0, <2>1 DEF Shape
  <2> QED  BY <2>2, <2>3, Shapes
<1>1. CommitsInv(b)'
  BY <1>0, <1>a DEF CommitsInv, OwnInv, GitInv, ReplyInv, HeldInv
<1>2. PlanInv'
  BY <1>0, <1>a DEF PlanInv, Quiet, OwnInv, GitInv, ReplyInv, HeldInv
<1>3. OwnInv(b)'
  BY <1>0, <1>a DEF OwnInv, StartInv, BeginInv, GitInv, ReplyInv, HeldInv
<1>4. ProbeInv(b)'
  BY <1>0, <1>a DEF ProbeInv, OwnInv, GitInv, ReplyInv, HeldInv
<1>5. DirInv(b)'
  BY <1>0, <1>a DEF DirInv, OwnInv, GitInv, ReplyInv, HeldInv
<1>6. HeldInv'
  BY <1>0, <1>a DEF HeldInv, OwnInv, GitInv, ReplyInv
<1>7. EndedInv(b)'
  BY <1>0, <1>a DEF EndedInv, Recorded, Told, Untold, OwnInv, GitInv, ReplyInv, HeldInv
<1>8. JournalInv'
  BY <1>0, <1>a DEF JournalInv, OwnInv, GitInv, ReplyInv, HeldInv
<1> QED  BY <1>1, <1>2, <1>3, <1>4, <1>5, <1>6, <1>7, <1>8 DEF RunInv

LEMMA ContinueKeeps ==
  ASSUME RR!ConstantsOK, NEW b, RunInv(b), RR!Continue
  PROVE  RunInv(b)'
<1> USE Kinds DEF RunInv
<1>0. /\ active # RR!None /\ own = RR!None /\ active = Session(runs, b)
      /\ UNCHANGED <<branch, made, ranging, editor, probe, active, journal, ended, runs>>
  BY DEF RR!Continue, RR!Running, ProbeInv
<1>a. \/ /\ repo # RR!None /\ files' = files
         /\ own' = [kind |-> "git", to |-> "continue", session |-> Session(runs, b)]
         /\ Shape(repo') /\ repo'.run = runs /\ repo'.orig = b /\ PlanFor(repo'.plan, b) /\ repo'.by = "pane"
         /\ repo'.stop = "no" /\ repo'.at \in 0 .. Len(repo'.plan) /\ Old(repo'.built, Originals + made) /\ repo' # RR!None
      \/ /\ repo' = repo /\ (repo # RR!None => files' = files)
         /\ own' = RR!Reply("continue", RR!Failed) \/ (repo # RR!None /\ own' = RR!Reply("continue", RR!Stopped(Session(runs, b))))
  <2>1. CASE RR!Waits
    <3>1. repo # RR!None /\ repo.stop \in {"edit", "resolved"} /\ RR!Goes("pane")
          /\ own' = [kind |-> "git", to |-> "continue", session |-> active] /\ files' = files
      BY <2>1 DEF RR!Continue, RR!Waits
    <3>2. /\ Shape(repo') /\ repo'.run = runs /\ repo'.orig = b /\ PlanFor(repo'.plan, b) /\ repo'.by = "pane"
          /\ repo'.stop = "no" /\ repo'.at \in 0 .. Len(repo'.plan) /\ Old(repo'.built, Originals + made)
      BY <3>1, GoneDir
    <3>3. repo' # RR!None
      BY <3>2, Shapes
    <3> QED  BY <3>1, <3>2, <3>3, <1>0
  <2>2. CASE ~RR!Waits
    BY <2>2, <1>0 DEF RR!Continue, RR!Settled
  <2> QED  BY <2>1, <2>2
<1>1. CommitsInv(b)'
  BY <1>0, <1>a DEF CommitsInv, OwnInv
<1>2. PlanInv'
  BY <1>0, <1>a DEF PlanInv, Quiet, OwnInv
<1>3. OwnInv(b)'
  BY <1>0, <1>a DEF OwnInv, StartInv, BeginInv, GitInv, ReplyInv
<1>4. ProbeInv(b)'
  BY <1>0, <1>a DEF ProbeInv, OwnInv
<1>5. DirInv(b)'
  BY <1>0, <1>a DEF DirInv, OwnInv
<1>6. HeldInv'
  BY <1>0, <1>a DEF HeldInv, OwnInv
<1>7. EndedInv(b)'
  BY <1>0, <1>a DEF EndedInv, Recorded, Told, Untold, OwnInv
<1>8. JournalInv'
  BY <1>0, <1>a DEF JournalInv, OwnInv
<1> QED  BY <1>1, <1>2, <1>3, <1>4, <1>5, <1>6, <1>7, <1>8 DEF RunInv

LEMMA AbortKeeps ==
  ASSUME RR!ConstantsOK, NEW b, RunInv(b), RR!Abort
  PROVE  RunInv(b)'
<1> USE Kinds DEF RunInv
<1>0. /\ active # RR!None /\ own = RR!None
      /\ \/ repo' = RR!None /\ repo # RR!None /\ own' = RR!Reply("abort", RR!Done(RR!None))
         \/ repo' = repo /\ files' = files /\ own' = RR!Reply("abort", RR!Failed)
      /\ UNCHANGED <<branch, made, ranging, editor, probe, active, journal, ended, runs>>
  BY DEF RR!Abort, RR!Running
<1>1. CommitsInv(b)'
  BY <1>0 DEF CommitsInv, OwnInv
<1>2. PlanInv'
  BY <1>0 DEF PlanInv, Quiet, OwnInv
<1>3. OwnInv(b)'
  BY <1>0 DEF OwnInv, StartInv, BeginInv, GitInv, ReplyInv, Ends
<1>4. ProbeInv(b)'
  BY <1>0 DEF ProbeInv, OwnInv
<1>5. DirInv(b)'
  BY <1>0 DEF DirInv, OwnInv
<1>6. HeldInv'
  BY <1>0 DEF HeldInv, OwnInv
<1>7. EndedInv(b)'
  BY <1>0 DEF EndedInv, Recorded, Told, Untold, OwnInv
<1>8. JournalInv'
  BY <1>0 DEF JournalInv, OwnInv
<1> QED  BY <1>1, <1>2, <1>3, <1>4, <1>5, <1>6, <1>7, <1>8 DEF RunInv

LEMMA OnReplyKeeps ==
  ASSUME RR!ConstantsOK, NEW b, RunInv(b), RR!OnReply
  PROVE  RunInv(b)'
<1> USE Kinds DEF RunInv
<1>0. /\ own.kind = "reply" /\ own' = RR!None /\ ReplyInv(b)
      /\ UNCHANGED <<branch, made, repo, files, ranging, editor, probe, ended, runs>>
  BY DEF RR!OnReply, OwnInv
<1>a. \/ own.to = "abort" /\ own.stop = RR!Failed /\ UNCHANGED <<active, journal>>
      \/ own.to = "abort" /\ own.stop = RR!Done(RR!None) /\ active' = RR!None /\ UNCHANGED journal
      \/ own.to # "abort" /\ own.stop = RR!Failed /\ UNCHANGED <<active, journal>>
      \/ own.to # "abort" /\ own.stop # RR!Failed /\ RR!OnStop(own.stop)
  BY <1>0 DEF RR!OnReply, ReplyInv
<1>b. \/ own.to = "abort" /\ own.stop = RR!Failed /\ UNCHANGED <<active, journal>>
      \/ own.to = "abort" /\ own.stop.kind = "done" /\ active' = RR!None /\ UNCHANGED journal
      \/ own.to # "abort" /\ own.stop = RR!Failed /\ UNCHANGED <<active, journal>>
      \/ own.to # "abort" /\ own.stop.kind = "stopped" /\ active' = Session(runs, b) /\ UNCHANGED journal
      \/ own.to # "abort" /\ own.stop.kind = "done" /\ own.stop.entry = RR!None /\ active' = RR!None /\ UNCHANGED journal
      \/ /\ own.to # "abort" /\ own.stop.kind = "done" /\ own.stop.entry # RR!None /\ active' = RR!None
         /\ own.stop.entry.run = runs /\ own.stop.entry.before = b
         /\ journal' = Append(journal, own.stop.entry)
  <2>1. CASE own.to # "abort" /\ own.stop # RR!Failed /\ RR!OnStop(own.stop)
    <3>1. own.stop = RR!Stopped(Session(runs, b)) \/ Ends(runs, b, own.stop)
      BY <1>0, <2>1 DEF ReplyInv
    <3>2. CASE own.stop = RR!Stopped(Session(runs, b))
      BY <2>1, <3>2 DEF RR!OnStop
    <3>3. CASE Ends(runs, b, own.stop)
      BY <2>1, <3>3 DEF RR!OnStop, Ends
    <3> QED  BY <3>1, <3>2, <3>3
  <2> QED  BY <2>1, <1>a
<1>c. /\ Listed(journal) /\ Len(journal) \in Nat /\ DOMAIN journal = 1 .. Len(journal)
      /\ \A i \in DOMAIN journal : journal[i].run # runs
  BY <1>0, ListedFacts DEF JournalInv
<1>d. ASSUME NEW e, journal' = Append(journal, e)
      PROVE  /\ Listed(journal') /\ DOMAIN journal' = 1 .. Len(journal) + 1 /\ journal'[Len(journal) + 1] = e
             /\ \A i \in DOMAIN journal : journal'[i] = journal[i]
  BY <1>c, <1>d, ListedFacts
<1>1. CommitsInv(b)'
  BY <1>0, <1>b DEF CommitsInv, ReplyInv
<1>2. PlanInv'
  BY <1>0, <1>b DEF PlanInv, Quiet, ReplyInv
<1>3. OwnInv(b)'
  BY <1>0, <1>b DEF OwnInv, StartInv, BeginInv, GitInv, ReplyInv
<1>4. ProbeInv(b)'
  BY <1>0, <1>b DEF ProbeInv, ReplyInv
<1>5. DirInv(b)'
  BY <1>0, <1>b DEF DirInv, ReplyInv
<1>6. HeldInv'
  BY <1>0, <1>b DEF HeldInv, ReplyInv
<1>7. EndedInv(b)'
  <2>1. ASSUME NEW e, Recorded(e) PROVE Recorded(e)'
    <3>1. CASE UNCHANGED journal
      BY <2>1, <3>1 DEF Recorded
    <3>2. CASE ~UNCHANGED journal
      BY <2>1, <3>2, <1>b, <1>c, <1>d DEF Recorded
    <3> QED  BY <3>1, <3>2
  <2>2. ASSUME NEW e \in ended, e.run = runs, Told PROVE Recorded(e)'
    <3>1. e.before = b
      BY <2>2 DEF EndedInv
    <3>2. journal' = Append(journal, own.stop.entry) /\ own.stop.entry.run = runs /\ own.stop.entry.before = b
      BY <2>2, <1>b DEF Told
    <3>3. DOMAIN journal' = 1 .. Len(journal) + 1 /\ journal'[Len(journal) + 1] = own.stop.entry
      BY <3>2, <1>d
    <3>4. Len(journal) + 1 \in DOMAIN journal'
      BY <3>3, <1>c
    <3> QED  BY <3>1, <3>2, <3>3, <3>4, <2>2 DEF Recorded
  <2>3. Untold(b) => Untold(b)'
    BY <1>0, <1>b DEF Untold, ReplyInv
  <2>4. own'.kind = "none" /\ UNCHANGED <<ended, runs, repo>>
    BY <1>0
  <2> QED  BY <2>1, <2>2, <2>3, <2>4 DEF EndedInv
<1>8. JournalInv'
  <2>1. CASE UNCHANGED journal
    BY <2>1, <1>0, <1>c DEF JournalInv
  <2>2. CASE ~UNCHANGED journal
    <3>1. /\ own.stop.kind = "done" /\ own.stop.entry.run = runs /\ active' = RR!None
          /\ journal' = Append(journal, own.stop.entry)
      BY <2>2, <1>b
    <3>2. own' = RR!None /\ active' = RR!None /\ repo' = RR!None /\ runs \in Nat /\ runs' = runs
      BY <3>1, <1>0 DEF ReplyInv, CommitsInv
    <3>3. /\ Listed(journal') /\ DOMAIN journal' = 1 .. Len(journal) + 1 /\ journal'[Len(journal) + 1].run = runs
          /\ \A i \in DOMAIN journal : journal'[i] = journal[i]
      BY <3>1, <1>d
    <3>4. \A i \in DOMAIN journal' : i \in DOMAIN journal \/ i = Len(journal) + 1
      BY <3>3, <1>c
    <3> QED  BY <3>2, <3>3, <3>4, <1>c DEF JournalInv
  <2> QED  BY <2>1, <2>2
<1> QED  BY <1>1, <1>2, <1>3, <1>4, <1>5, <1>6, <1>7, <1>8 DEF RunInv

LEMMA ProbeKeeps ==
  ASSUME RR!ConstantsOK, NEW b, RunInv(b), RR!Probe
  PROVE  RunInv(b)'
<1> USE Kinds DEF RunInv
<1>1. CommitsInv(b)'
  BY DEF CommitsInv, RR!Probe, RR!Running
<1>2. PlanInv'
  BY DEF PlanInv, Quiet, OwnInv, RR!Probe, RR!Running
<1>3. OwnInv(b)'
  BY DEF OwnInv, StartInv, BeginInv, GitInv, ReplyInv, RR!Probe, RR!Running
<1>4. ProbeInv(b)'
  BY DEF ProbeInv, RR!Probe, RR!Running
<1>5. DirInv(b)'
  BY DEF DirInv, RR!Probe, RR!Running
<1>6. HeldInv'
  BY DEF HeldInv, OwnInv, GitInv, ReplyInv, DirInv, RR!Probe, RR!Running
<1>7. EndedInv(b)'
  BY DEF EndedInv, Recorded, Told, Untold, OwnInv, ReplyInv, ProbeInv, RR!Probe, RR!Running
<1>8. JournalInv'
  BY DEF JournalInv, OwnInv, ReplyInv, ProbeInv, RR!Probe, RR!Running
<1> QED  BY <1>1, <1>2, <1>3, <1>4, <1>5, <1>6, <1>7, <1>8 DEF RunInv

LEMMA ProbeReadsKeeps ==
  ASSUME RR!ConstantsOK, NEW b, RunInv(b), RR!ProbeReads
  PROVE  RunInv(b)'
<1> USE Kinds DEF RunInv
<1>0. /\ probe.kind = "probe" /\ probe = [kind |-> "probe", session |-> Session(runs, b)]
      /\ (repo # RR!None => files' = files) /\ probe' = [kind |-> "probed", stop |-> RR!Settled(probe.session, TRUE)]
      /\ UNCHANGED <<branch, made, repo, ranging, editor, own, active, journal, ended, runs>>
  BY DEF RR!ProbeReads, ProbeInv
<1>a. probe.session = Session(runs, b) /\ probe'.kind = "probed" /\ probe' # RR!None
  <2>1. probe.session = Session(runs, b)
    BY <1>0
  <2>2. probe'.kind = "probed"
    BY <1>0
  <2> QED  BY <2>1, <2>2
<1> DEFINE entry == RR!Entry(Session(runs, b), branch)
<1>b. /\ branch = b => entry = RR!None
      /\ branch # b => entry # RR!None /\ entry.kind = "entry" /\ entry.run = runs /\ entry.before = b
  BY DEF RR!Entry, RR!None
<1>c. probe'.stop = IF repo # RR!None THEN RR!Stopped(Session(runs, b)) ELSE RR!Done(entry)
  BY <1>0, <1>a DEF RR!Settled
<1> HIDE DEF entry
<1>d. /\ probe'.stop = RR!Stopped(Session(runs, b)) \/ Ends(runs, b, probe'.stop)
      /\ repo # RR!None => probe'.stop.kind = "stopped"
      /\ repo = RR!None => probe'.stop.kind = "done" /\ probe'.stop.entry = entry
  BY <1>b, <1>c DEF Ends
<1>1. CommitsInv(b)'
  BY <1>0, <1>a, <1>b, <1>d DEF CommitsInv
<1>2. PlanInv'
  BY <1>0, <1>a, <1>b, <1>d DEF PlanInv, Quiet
<1>3. OwnInv(b)'
  BY <1>0, <1>a, <1>b, <1>d DEF OwnInv, StartInv, BeginInv, GitInv, ReplyInv
<1>4. ProbeInv(b)'
  BY <1>0, <1>a, <1>b, <1>d DEF ProbeInv
<1>5. DirInv(b)'
  BY <1>0, <1>a, <1>b, <1>d DEF DirInv
<1>6. HeldInv'
  BY <1>0, <1>a, <1>b, <1>d DEF HeldInv
<1>7. EndedInv(b)'
  BY <1>0, <1>a, <1>b, <1>d DEF EndedInv, Recorded, Told, Untold
<1>8. JournalInv'
  BY <1>0, <1>a, <1>b, <1>d DEF JournalInv
<1> QED  BY <1>1, <1>2, <1>3, <1>4, <1>5, <1>6, <1>7, <1>8 DEF RunInv

LEMMA OnProbeKeeps ==
  ASSUME RR!ConstantsOK, NEW b, RunInv(b), RR!OnProbe
  PROVE  RunInv(b)'
<1> USE Kinds DEF RunInv
<1>0. /\ probe.kind = "probed" /\ probe' = RR!None
      /\ UNCHANGED <<branch, made, repo, files, ranging, editor, own, ended, runs>>
  BY DEF RR!OnProbe
<1>b. \/ UNCHANGED <<active, journal>> /\ (own # RR!None \/ active = RR!None \/ probe.stop.kind # "done")
      \/ /\ probe.stop.kind = "done" /\ own = RR!None /\ active # RR!None /\ repo = RR!None /\ active' = RR!None
         /\ \/ probe.stop.entry = RR!None /\ UNCHANGED journal
            \/ /\ probe.stop.entry # RR!None /\ probe.stop.entry.run = runs /\ probe.stop.entry.before = b
               /\ journal' = Append(journal, probe.stop.entry)
  <2>1. CASE RR!Heeds(probe.stop)
    <3>1. probe.stop.kind = "done" /\ own = RR!None /\ active # RR!None /\ RR!OnStop(probe.stop)
      BY <2>1 DEF RR!OnProbe, RR!Heeds, RR!Running
    <3>2. Ends(runs, b, probe.stop) /\ repo = RR!None
      BY <1>0, <3>1 DEF ProbeInv
    <3>3. active' = RR!None /\ journal' = IF probe.stop.entry # RR!None THEN Append(journal, probe.stop.entry) ELSE journal
      BY <3>1 DEF RR!OnStop
    <3> QED  BY <3>1, <3>2, <3>3 DEF Ends
  <2>2. CASE ~RR!Heeds(probe.stop)
    BY <2>2 DEF RR!OnProbe, RR!Heeds, RR!Running
  <2> QED  BY <2>1, <2>2
<1>c. /\ Listed(journal) /\ Len(journal) \in Nat /\ DOMAIN journal = 1 .. Len(journal)
      /\ active # RR!None => \A i \in DOMAIN journal : journal[i].run # runs
  BY ListedFacts DEF JournalInv
<1>d. ASSUME NEW e, journal' = Append(journal, e)
      PROVE  /\ Listed(journal') /\ DOMAIN journal' = 1 .. Len(journal) + 1 /\ journal'[Len(journal) + 1] = e
             /\ \A i \in DOMAIN journal : journal'[i] = journal[i]
  BY <1>c, <1>d, ListedFacts
<1>1. CommitsInv(b)'
  BY <1>0, <1>b DEF CommitsInv
<1>2. PlanInv'
  BY <1>0, <1>b DEF PlanInv, Quiet
<1>3. OwnInv(b)'
  <2>1. UNCHANGED <<own, runs, repo, files, branch>> /\ probe' = RR!None /\ (own # RR!None => UNCHANGED active)
    BY <1>0, <1>b
  <2> QED  BY <2>1 DEF OwnInv, StartInv, BeginInv, GitInv, ReplyInv
<1>4. ProbeInv(b)'
  BY <1>0, <1>b DEF ProbeInv
<1>5. DirInv(b)'
  BY <1>0, <1>b DEF DirInv
<1>6. HeldInv'
  BY <1>0, <1>b DEF HeldInv
<1>7. EndedInv(b)'
  <2>1. ASSUME NEW e, Recorded(e) PROVE Recorded(e)'
    <3>1. CASE UNCHANGED journal
      BY <2>1, <3>1 DEF Recorded
    <3>2. CASE ~UNCHANGED journal
      BY <2>1, <3>2, <1>b, <1>c, <1>d DEF Recorded
    <3> QED  BY <3>1, <3>2
  <2>2. ASSUME NEW e \in ended, e.run = runs, Untold(b), ~Untold(b)' PROVE Recorded(e)'
    <3>1. e.before = b
      BY <2>2 DEF EndedInv
    <3>2. active # RR!None /\ own = RR!None /\ probe.stop.kind = "done" /\ probe.stop.entry # RR!None
      BY <2>2, <1>0, <1>b DEF Untold
    <3>3. journal' = Append(journal, probe.stop.entry) /\ probe.stop.entry.run = runs /\ probe.stop.entry.before = b
      BY <3>2, <1>b
    <3>4. DOMAIN journal' = 1 .. Len(journal) + 1 /\ journal'[Len(journal) + 1] = probe.stop.entry
      BY <3>3, <1>d
    <3>5. Len(journal) + 1 \in DOMAIN journal'
      BY <3>4, <1>c
    <3> QED  BY <3>1, <3>3, <3>4, <3>5, <2>2 DEF Recorded
  <2>3. Told => Told'
    BY <1>0 DEF Told
  <2> QED  BY <2>1, <2>2, <2>3, <1>0 DEF EndedInv
<1>8. JournalInv'
  <2>1. CASE UNCHANGED journal
    BY <2>1, <1>0, <1>b DEF JournalInv
  <2>2. CASE ~UNCHANGED journal
    <3>1. /\ probe.stop.entry.run = runs /\ own = RR!None /\ active' = RR!None /\ repo = RR!None /\ active # RR!None
          /\ journal' = Append(journal, probe.stop.entry)
      BY <2>2, <1>b
    <3>2. own' = RR!None /\ active' = RR!None /\ repo' = RR!None /\ runs \in Nat /\ runs' = runs
      BY <3>1, <1>0 DEF CommitsInv
    <3>3. /\ Listed(journal') /\ DOMAIN journal' = 1 .. Len(journal) + 1 /\ journal'[Len(journal) + 1].run = runs
          /\ \A i \in DOMAIN journal : journal'[i] = journal[i]
      BY <3>1, <1>d
    <3>4. \A i \in DOMAIN journal' : i \in DOMAIN journal \/ i = Len(journal) + 1
      BY <3>3, <1>c
    <3>5. \A i \in DOMAIN journal : journal[i].run # runs
      BY <3>1, <1>c
    <3> QED  BY <3>2, <3>3, <3>4, <3>5, <1>c DEF JournalInv
  <2> QED  BY <2>1, <2>2
<1> QED  BY <1>1, <1>2, <1>3, <1>4, <1>5, <1>6, <1>7, <1>8 DEF RunInv

LEMMA TerminalCommitsKeeps ==
  ASSUME RR!ConstantsOK, NEW b, RunInv(b), RR!TerminalCommits
  PROVE  RunInv(b)'
<1> USE Kinds DEF RunInv
<1> DEFINE new == [of |-> {Originals + made'}, says |-> RR!Own]
           n == Originals + made
<1>0. /\ repo = RR!None /\ made' = made + 1 /\ branch' = Append(branch, new)
      /\ UNCHANGED <<repo, files, ranging, editor, own, probe, active, journal, ended, runs>>
  BY DEF RR!TerminalCommits
<1>a. n \in Nat /\ Originals + made' = n + 1 /\ n + 1 \in Nat /\ n <= n + 1 /\ Old(branch, n) /\ Old(b, n)
      /\ runs \in Nat /\ made + 1 \in Nat
  BY <1>0 DEF CommitsInv, RR!ConstantsOK
<1>b. Of(new, n + 1) /\ ~Of(new, n)
  <2>1. new.of = {n + 1}
    BY <1>a
  <2>2. \A k \in new.of : k = n + 1
    BY <2>1
  <2> HIDE DEF new, n
  <2> QED  BY <2>1, <2>2, <1>a DEF Of
<1> HIDE DEF new
<1>c. Old(branch, n + 1) /\ Old(b, n + 1)
  BY <1>a, OldGrows
<1>d. Old(branch', n + 1)
  <2>1. Old(Append(branch, new), n + 1)
    BY <1>b, <1>c, OldAppends
  <2> QED  BY <2>1, <1>0
<1>e. /\ RR!ToSet(branch) \subseteq RR!ToSet(branch') /\ new \in RR!ToSet(branch')
  <2>1. Listed(branch)
    BY <1>a, OldFacts
  <2>2. /\ DOMAIN branch = 1 .. Len(branch) /\ Len(branch) \in Nat /\ Listed(branch') /\ Len(branch') = Len(branch) + 1
        /\ branch'[Len(branch) + 1] = new /\ \A i \in 1 .. Len(branch) : branch'[i] = branch[i]
    BY <2>1, <1>0, ListedFacts
  <2>3. DOMAIN branch' = 1 .. Len(branch) + 1
    BY <2>2, ListedFacts
  <2> QED  BY <2>2, <2>3 DEF RR!ToSet
<1>f. new \notin RR!ToSet(b)
  BY <1>a, <1>b, OldFacts
<1>g. branch' # b /\ \E c \in RR!ToSet(branch') : c \notin RR!ToSet(b)
  BY <1>e, <1>f
<1>1. CommitsInv(b)'
  BY <1>0, <1>a, <1>c, <1>d DEF CommitsInv
<1>2. PlanInv'
  BY <1>0, <1>e DEF PlanInv, Quiet
<1>3. OwnInv(b)'
  <2>1. own.kind = "start" => PlanFor(own.plan, branch')
    BY <1>e DEF OwnInv, StartInv, PlanFor
  <2> QED  BY <1>0, <1>g, <2>1 DEF OwnInv, StartInv, BeginInv, GitInv, ReplyInv
<1>4. ProbeInv(b)'
  BY <1>0, <1>a DEF ProbeInv
<1>5. DirInv(b)'
  BY <1>0, <1>a DEF DirInv
<1>6. HeldInv'
  BY <1>0, <1>a DEF HeldInv
<1>7. EndedInv(b)'
  BY <1>0, <1>g DEF EndedInv, Recorded, Told, Untold
<1>8. JournalInv'
  BY <1>0, <1>a DEF JournalInv
<1> QED  BY <1>1, <1>2, <1>3, <1>4, <1>5, <1>6, <1>7, <1>8 DEF RunInv

LEMMA TerminalContinuesKeeps ==
  ASSUME RR!ConstantsOK, NEW b, RunInv(b), RR!TerminalContinues
  PROVE  RunInv(b)'
<1> USE Kinds DEF RunInv
<1>0. /\ repo # RR!None /\ repo.stop \in {"edit", "resolved"} /\ RR!Goes("terminal")
      /\ UNCHANGED <<branch, made, files, ranging, editor, own, probe, active, journal, ended, runs>>
  BY DEF RR!TerminalContinues, RR!Waits
<1>a. /\ Shape(repo') /\ repo'.run = runs /\ repo'.orig = b /\ PlanFor(repo'.plan, b) /\ repo'.by = "terminal"
      /\ repo'.stop = "no" /\ repo'.at \in 0 .. Len(repo'.plan)
      /\ Old(repo'.built, Originals + made)
  BY <1>0, GoneDir
<1>b. repo' # RR!None
  BY <1>a, Shapes
<1>1. CommitsInv(b)'
  BY <1>0, <1>a, <1>b DEF CommitsInv, OwnInv, GitInv, ReplyInv, HeldInv
<1>2. PlanInv'
  BY <1>0, <1>a, <1>b DEF PlanInv, Quiet, OwnInv, GitInv, ReplyInv, HeldInv
<1>3. OwnInv(b)'
  BY <1>0, <1>a, <1>b DEF OwnInv, StartInv, BeginInv, GitInv, ReplyInv, HeldInv
<1>4. ProbeInv(b)'
  BY <1>0, <1>a, <1>b DEF ProbeInv, OwnInv, GitInv, ReplyInv, HeldInv
<1>5. DirInv(b)'
  BY <1>0, <1>a, <1>b DEF DirInv, OwnInv, GitInv, ReplyInv, HeldInv
<1>6. HeldInv'
  BY <1>0, <1>a, <1>b DEF HeldInv, OwnInv, GitInv, ReplyInv
<1>7. EndedInv(b)'
  BY <1>0, <1>a, <1>b DEF EndedInv, Recorded, Told, Untold, OwnInv, GitInv, ReplyInv, HeldInv
<1>8. JournalInv'
  BY <1>0, <1>a, <1>b DEF JournalInv, OwnInv, GitInv, ReplyInv, HeldInv
<1> QED  BY <1>1, <1>2, <1>3, <1>4, <1>5, <1>6, <1>7, <1>8 DEF RunInv

LEMMA TerminalAbortsKeeps ==
  ASSUME RR!ConstantsOK, NEW b, RunInv(b), RR!TerminalAborts
  PROVE  RunInv(b)'
<1> USE Kinds DEF RunInv
<1>0. /\ repo # RR!None /\ repo' = RR!None
      /\ UNCHANGED <<branch, made, files, ranging, editor, own, probe, active, journal, ended, runs>>
  BY DEF RR!TerminalAborts
<1>1. CommitsInv(b)'
  BY <1>0 DEF CommitsInv
<1>2. PlanInv'
  BY <1>0 DEF PlanInv, Quiet
<1>3. OwnInv(b)'
  BY <1>0 DEF OwnInv, StartInv, BeginInv, GitInv, ReplyInv, RR!TerminalAborts
<1>4. ProbeInv(b)'
  BY <1>0 DEF ProbeInv
<1>5. DirInv(b)'
  BY <1>0 DEF DirInv
<1>6. HeldInv'
  BY <1>0 DEF HeldInv
<1>7. EndedInv(b)'
  BY <1>0 DEF EndedInv, Recorded, Told, Untold
<1>8. JournalInv'
  BY <1>0 DEF JournalInv
<1> QED  BY <1>1, <1>2, <1>3, <1>4, <1>5, <1>6, <1>7, <1>8 DEF RunInv

LEMMA StartKeeps ==
  ASSUME RR!ConstantsOK, NEW b, RunInv(b), editor # RR!None, NEW plan \in RR!Plans(editor.commits, runs + 1), RR!Start(plan)
  PROVE  \E c : RunInv(c)'
<1> USE Kinds DEF RunInv
<1>0. PICK c : c = branch
  OBVIOUS
<1>1. /\ own = RR!None /\ probe = RR!None /\ active = RR!None /\ repo = RR!None /\ ranging = RR!None
      /\ Listed(editor.commits) /\ RR!ToSet(editor.commits) \subseteq RR!ToSet(branch)
  BY DEF PlanInv, Quiet
<1>2. /\ own' = [kind |-> "start", run |-> runs + 1, head |-> editor.head, plan |-> plan]
      /\ editor' = RR!None /\ runs' = runs + 1 /\ runs \in Nat /\ runs + 1 \in Nat
      /\ UNCHANGED <<branch, made, repo, files, ranging, probe, active, journal, ended, dropped>>
  BY DEF RR!Start, CommitsInv
<1>3. PlanFor(plan, branch)
  <2>1. PlanFor(plan, editor.commits)
    BY <1>1, PlansAre
  <2> QED  BY <2>1, <1>1 DEF PlanFor
<1>4. own'.kind = "start" /\ own'.run = runs' /\ own'.plan = plan
  BY <1>2
<1>5. CommitsInv(c)'
  BY <1>0, <1>2 DEF CommitsInv
<1>6. PlanInv'
  BY <1>1, <1>2 DEF PlanInv
<1>7. OwnInv(c)'
  BY <1>1, <1>2, <1>3, <1>4 DEF OwnInv, StartInv, BeginInv, GitInv, ReplyInv
<1>8. ProbeInv(c)' /\ DirInv(c)' /\ HeldInv'
  BY <1>1, <1>2 DEF ProbeInv, DirInv, HeldInv
<1>9. EndedInv(c)'
  <2>1. \A e : Recorded(e)' = Recorded(e)
    BY <1>2 DEF Recorded
  <2>2. ~Told /\ ~Untold(b)
    BY <1>1 DEF Told, Untold
  <2>3. \A e \in ended : e.run \in Nat /\ e.run <= runs /\ (e.after # e.before => Recorded(e))
    BY <2>2 DEF EndedInv
  <2>4. \A e \in ended' : e.run \in Nat /\ e.run <= runs + 1 /\ e.run # runs + 1 /\ (e.after # e.before => Recorded(e)')
    BY <2>1, <2>3, <1>2
  <2> QED  BY <2>4, <1>2 DEF EndedInv
<1>10. JournalInv'
  <2>1. \A i \in DOMAIN journal : journal[i].run \in Nat /\ journal[i].run <= runs + 1 /\ journal[i].run # runs + 1
    BY <1>2 DEF JournalInv
  <2> QED  BY <2>1, <1>2 DEF JournalInv
<1>11. RunInv(c)'
  BY <1>5, <1>6, <1>7, <1>8, <1>9, <1>10 DEF RunInv
<1> QED  BY <1>11

LEMMA StartChecksKeeps ==
  ASSUME RR!ConstantsOK, NEW b, RunInv(b), RR!StartChecks
  PROVE  \E c : RunInv(c)'
<1> USE Kinds DEF RunInv
<1>0. PICK c : c = branch
  OBVIOUS
<1>1. /\ own.kind = "start" /\ probe = RR!None /\ active = RR!None /\ repo = RR!None /\ own.run = runs
      /\ PlanFor(own.plan, c) /\ Old(c, Originals + made)
      /\ UNCHANGED <<branch, made, repo, ranging, editor, probe, active, journal, ended, dropped, runs>>
  BY <1>0 DEF RR!StartChecks, OwnInv, StartInv, CommitsInv
<1>2. \/ own' = RR!Reply("start", RR!Failed) /\ UNCHANGED files
      \/ /\ own' = [kind |-> "begin", session |-> Session(runs, c), plan |-> own.plan]
         /\ files' = files \cup {runs}
  BY <1>0, <1>1 DEF RR!StartChecks, Session
<1>3. CommitsInv(c)'
  BY <1>1 DEF CommitsInv
<1>4. PlanInv'
  BY <1>1, <1>2 DEF PlanInv, Quiet
<1>5. OwnInv(c)'
  BY <1>0, <1>1, <1>2 DEF OwnInv, StartInv, BeginInv, GitInv, ReplyInv
<1>6. ProbeInv(c)' /\ DirInv(c)' /\ HeldInv'
  BY <1>1 DEF ProbeInv, DirInv, HeldInv
<1>7. EndedInv(c)'
  <2>1. \A e : Recorded(e)' = Recorded(e)
    BY <1>1 DEF Recorded
  <2>2. \A e \in ended : e.run \in Nat /\ e.run <= runs /\ e.run # runs /\ (e.after # e.before => Recorded(e))
    BY <1>1 DEF EndedInv
  <2> QED  BY <2>1, <2>2, <1>1 DEF EndedInv
<1>8. JournalInv'
  BY <1>1 DEF JournalInv
<1>9. RunInv(c)'
  BY <1>3, <1>4, <1>5, <1>6, <1>7, <1>8 DEF RunInv
<1> QED  BY <1>9

LEMMA InitRuns ==
  ASSUME RR!ConstantsOK, RR!Init
  PROVE  \E b : RunInv(b)
<1> USE Kinds
<1>0. PICK c : c = branch
  OBVIOUS
<1>1. Old(branch, Originals)
  <2> DEFINE C == {[of |-> {i}, says |-> RR!Own] : i \in 1 .. Originals}
  <2>1. branch \in Seq(C)
    <3>1. branch \in [1 .. Originals -> C]
      BY DEF RR!Init
    <3> HIDE DEF C
    <3> QED  BY <3>1 DEF RR!ConstantsOK
  <2>2. ASSUME NEW d \in C PROVE Of(d, Originals)
    <3>1. PICK i \in 1 .. Originals : d = [of |-> {i}, says |-> RR!Own]
      OBVIOUS
    <3>2. i \in d.of /\ i \in Nat /\ i <= Originals
      BY <3>1 DEF RR!ConstantsOK
    <3> QED  BY <3>2 DEF Of
  <2> HIDE DEF C
  <2> QED  BY <2>1, <2>2 DEF Old
<1>2. CommitsInv(c)
  <2>1. Originals + made = Originals
    BY DEF RR!Init, RR!ConstantsOK
  <2> QED  BY <2>1, <1>0, <1>1 DEF CommitsInv, RR!Init
<1>3. PlanInv /\ OwnInv(c) /\ ProbeInv(c) /\ DirInv(c) /\ HeldInv /\ EndedInv(c)
  BY DEF RR!Init, PlanInv, OwnInv, StartInv, BeginInv, GitInv, ReplyInv, ProbeInv, DirInv, HeldInv, EndedInv
<1>4. JournalInv
  <2>1. journal \in Seq({}) /\ DOMAIN journal = {}
    BY DEF RR!Init
  <2> QED  BY <2>1 DEF JournalInv, Listed
<1> QED  BY <1>2, <1>3, <1>4 DEF RunInv

LEMMA RunsStill ==
  ASSUME NEW b, RunInv(b), UNCHANGED RR!vars
  PROVE  RunInv(b)'
BY DEF RR!vars, RunInv, CommitsInv, PlanInv, Quiet, OwnInv, StartInv, BeginInv, GitInv, ReplyInv, ProbeInv,
   DirInv,
       HeldInv, EndedInv, Recorded, Told, Untold, JournalInv

(* A step of the rebase, one case for each action.                          *)
LEMMA RunsStep ==
  ASSUME RR!ConstantsOK, Calm, NEW b, RunInv(b), [RR!Next]_RR!vars
  PROVE  \E c : RunInv(c)'
<1>1. CASE RR!ReadHead  BY <1>1, ReadHeadKeeps
<1>2. CASE RR!OnRange  BY <1>2, OnRangeKeeps
<1>3. CASE RR!Cancel  BY <1>3, CancelPlanKeeps
<1>4. CASE editor # RR!None /\ ~RR!Running /\ \E plan \in RR!Plans(editor.commits, runs + 1) : RR!Start(plan)
  BY <1>4, StartKeeps
<1>5. CASE RR!StartChecks  BY <1>5, StartChecksKeeps
<1>6. CASE RR!GitBegins  BY <1>6, GitBeginsKeeps
<1>7. CASE RR!Continue  BY <1>7, ContinueKeeps
<1>8. CASE RR!Abort  BY <1>8, AbortKeeps
<1>9. CASE RR!OnReply  BY <1>9, OnReplyKeeps
<1>10. CASE RR!GitSteps("pane")  BY <1>10, GitStepsPaneKeeps
<1>11. CASE RR!GitEnds("pane")  BY <1>11, GitEndsPaneKeeps
<1>12. CASE RR!GitSteps("terminal")  BY <1>12, GitStepsTerminalKeeps
<1>13. CASE RR!GitEnds("terminal")  BY <1>13, GitEndsTerminalKeeps
<1>14. CASE RR!Resolve  BY <1>14, ResolveKeeps
<1>15. CASE RR!Probe  BY <1>15, ProbeKeeps
<1>16. CASE RR!ProbeReads  BY <1>16, ProbeReadsKeeps
<1>17. CASE RR!OnProbe  BY <1>17, OnProbeKeeps
<1>18. CASE RR!TerminalCommits  BY <1>18, TerminalCommitsKeeps
<1>19. CASE RR!TerminalContinues  BY <1>19, TerminalContinuesKeeps
<1>20. CASE RR!TerminalAborts  BY <1>20, TerminalAbortsKeeps
<1>21. CASE UNCHANGED RR!vars  BY <1>21, RunsStill
<1> QED  BY <1>1, <1>2, <1>3, <1>4, <1>5, <1>6, <1>7, <1>8, <1>9, <1>10, <1>11, <1>12, <1>13, <1>14,
            <1>15, <1>16, <1>17, <1>18, <1>19, <1>20, <1>21 DEF RR!Next

LEMMA RunInvTracks ==
  ASSUME NEW b, RunInv(b)
  PROVE  RR!RunsAreTracked
<1> USE Kinds DEF RunInv
<1>1. repo # RR!None /\ own = RR!None => active # RR!None /\ active.run = repo.run
  <2>1. repo # RR!None /\ own = RR!None => active # RR!None
    BY DEF HeldInv
  <2>2. active # RR!None => active.run = runs
    BY DEF ProbeInv
  <2>3. repo # RR!None => repo.run = runs
    BY DEF DirInv
  <2> QED  BY <2>1, <2>2, <2>3
<1>2. repo # RR!None => repo.run \in files
  BY DEF DirInv, HeldInv
<1>3. \A i, k \in DOMAIN journal : journal[i].run = journal[k].run => i = k
  BY DEF JournalInv
<1>4. active = RR!None /\ ~RR!Running => \A e \in ended : e.after # e.before => Recorded(e)
  BY DEF EndedInv, Told, Untold, RR!Running
<1> QED  BY <1>1, <1>2, <1>3, <1>4 DEF RR!RunsAreTracked, Recorded

(* A behaviour of the whole is one of the rebase that stutters.             *)
LEMMA Rebasing == Spec => RR!Init /\ [][RR!Next]_RR!vars
<1>1. Init => RR!Init
  BY DEF Init
<1>2. [Next]_vars => [RR!Next]_RR!vars
  BY DEF Next, vars, rebaseVars, RR!vars
<1> QED  BY <1>1, <1>2, PTL DEF Spec

(* Some list of commits is where the last rebase started: the session, git's *)
(* directory, the replies on their way and what is journaled all have it.   *)
THEOREM RunInvariance == ASSUME Calm PROVE Spec => [](\E b : RunInv(b))
<1> DEFINE I == \E b : RunInv(b)
<1>1. RR!ConstantsOK
  BY ConstantsAssumption
<1>2. RR!Init => I
  BY <1>1, InitRuns
<1>3. I /\ [RR!Next]_RR!vars => I'
  <2> SUFFICES ASSUME I, [RR!Next]_RR!vars PROVE I'
    OBVIOUS
  <2>1. PICK b : RunInv(b)
    OBVIOUS
  <2>2. \E c : RunInv(c)'
    BY <1>1, <2>1, RunsStep
  <2> QED  BY <2>2
<1> HIDE DEF I
<1>4. Spec => []I
  BY <1>2, <1>3, Rebasing, PTL
<1> QED  BY <1>4 DEF I

(* A stopped rebase is held with its files, and one that went to its end is *)
(* journaled once, from the branch it started on (on_stop, settle,          *)
(* apply_rebase_reply), whoever commits, continues or aborts in a terminal, *)
(* for a user who makes a plan only once the last rebase is done with.      *)
THEOREM RunsTracked == ASSUME Calm PROVE Spec => []RunsAreTracked
<1>1. (\E b : RunInv(b)) => RunsAreTracked
  BY RunInvTracks DEF RunsAreTracked
<1> QED  BY <1>1, RunInvariance, PTL

-----------------------------------------------------------------------------
(* The lanes of the commit graph.                                           *)
Lane == [wait : Nat, color : Nat]
LanesOK(ls) == ls \in Seq(Lane) /\ \A i \in DOMAIN ls : ls[i].wait = 0 => ls[i] = GL!Free

LEMMA LanesFacts ==
  ASSUME NEW ls, LanesOK(ls)
  PROVE  /\ ls \in Seq(Lane) /\ Len(ls) \in Nat /\ DOMAIN ls = 1 .. Len(ls)
         /\ \A i \in DOMAIN ls : /\ i \in Nat /\ ls[i] \in Lane /\ ls[i].wait \in Nat
                                 /\ ls[i].wait # 0 <=> i \in GL!Active(ls)
         /\ GL!Active(ls) \subseteq DOMAIN ls
         /\ \A p : GL!Waits(ls, p) \subseteq DOMAIN ls
         /\ \A p \in Nat \ {0} : GL!Waits(ls, p) \subseteq GL!Active(ls)
<1>1. ls \in Seq(Lane) /\ Len(ls) \in Nat /\ DOMAIN ls = 1 .. Len(ls)
  BY DEF LanesOK
<1>2. ASSUME NEW i \in DOMAIN ls
      PROVE  /\ i \in Nat /\ ls[i] \in Lane /\ ls[i].wait \in Nat
             /\ ls[i].wait # 0 <=> i \in GL!Active(ls)
  <2>1. i \in Nat /\ ls[i] \in Lane
    BY <1>1
  <2>2. ls[i].wait \in Nat
    BY <2>1 DEF Lane
  <2>3. GL!Free.wait = 0
    BY DEF GL!Free
  <2>4. ls[i].wait # 0 <=> ls[i] # GL!Free
    BY <2>3 DEF LanesOK
  <2> QED  BY <2>1, <2>2, <2>4 DEF GL!Active
<1>3. GL!Active(ls) \subseteq DOMAIN ls /\ \A p : GL!Waits(ls, p) \subseteq DOMAIN ls
  BY DEF GL!Active, GL!Waits
<1>4. \A p \in Nat \ {0} : GL!Waits(ls, p) \subseteq GL!Active(ls)
  BY <1>2 DEF GL!Waits
<1> QED  BY <1>1, <1>2, <1>3, <1>4

LEMMA LeastOf ==
  ASSUME NEW S \in SUBSET Nat, S # {}
  PROVE  GL!Least(S) \in S
BY Least DEF GL!Least

LEMMA LeftmostIs ==
  ASSUME NEW ls, LanesOK(ls), NEW S, S \subseteq DOMAIN ls
  PROVE  /\ GL!Leftmost(ls, S) \in 1 .. Len(ls) + 1
         /\ S # {} => GL!Leftmost(ls, S) \in S
         /\ S = {} => GL!Leftmost(ls, S) \notin GL!Active(ls)
<1>1. DOMAIN ls = 1 .. Len(ls) /\ Len(ls) \in Nat /\ GL!Active(ls) \subseteq DOMAIN ls
  BY LanesFacts
<1>2. CASE S # {}
  BY <1>1, <1>2, LeastOf DEF GL!Leftmost
<1>3. CASE S = {} /\ GL!Active(ls) # DOMAIN ls
  <2> DEFINE F == DOMAIN ls \ GL!Active(ls)
  <2>1. F \in SUBSET Nat /\ F # {}
    <3>1. DOMAIN ls \subseteq Nat
      BY <1>1
    <3> QED  BY <1>1, <1>3, <3>1
  <2>2. GL!Leftmost(ls, S) = GL!Least(F)
    BY <1>3 DEF GL!Leftmost
  <2>3. GL!Least(F) \in F
    <3> HIDE DEF F
    <3> QED  BY <2>1, LeastOf
  <2> QED  BY <1>1, <1>3, <2>2, <2>3
<1>4. CASE S = {} /\ GL!Active(ls) = DOMAIN ls
  <2>1. GL!Leftmost(ls, S) = Len(ls) + 1
    BY <1>4 DEF GL!Leftmost
  <2> QED  BY <1>1, <1>4, <2>1
<1> QED  BY <1>2, <1>3, <1>4

Placed(q, ls, i, l) ==
  /\ LanesOK(q) /\ Len(q) >= Len(ls) /\ i \in DOMAIN q /\ q[i] = l
  /\ \A j \in DOMAIN ls : j \in DOMAIN q /\ (j # i => q[j] = ls[j])
  /\ DOMAIN q = DOMAIN ls \cup {i}

LEMMA PutIs ==
  ASSUME NEW ls, LanesOK(ls), NEW i, i \in 1 .. Len(ls) + 1, NEW l, l \in Lane,
         l.wait # 0 \/ l = GL!Free
  PROVE  Placed(GL!Put(ls, i, l), ls, i, l)
<1> DEFINE q == GL!Put(ls, i, l)
<1>1. Len(ls) \in Nat /\ DOMAIN ls = 1 .. Len(ls) /\ \A j \in 1 .. Len(ls) : ls[j] \in Lane
  BY LanesFacts
<1>2. GL!Free \in Lane
  BY DEF GL!Free, Lane
<1> DEFINE n == IF i > Len(ls) THEN i ELSE Len(ls)
<1>3. n \in Nat /\ n >= Len(ls) /\ 1 .. n = 1 .. Len(ls) \cup {i}
  BY <1>1
<1>4. q = [j \in 1 .. n |-> IF j = i THEN l ELSE IF j <= Len(ls) THEN ls[j] ELSE GL!Free]
  BY DEF GL!Put
<1> HIDE DEF n, q
<1>5. q \in [1 .. n -> Lane]
  BY <1>1, <1>2, <1>3, <1>4
<1>6. q \in Seq(Lane) /\ Len(q) = n /\ DOMAIN q = 1 .. n
  BY <1>3, <1>5
<1>7. q[i] = l /\ \A j \in 1 .. Len(ls) : j # i => q[j] = ls[j]
  BY <1>1, <1>3, <1>4
<1>8. ASSUME NEW j \in DOMAIN q, q[j].wait = 0 PROVE q[j] = GL!Free
  <2>1. CASE j = i
    BY <1>7, <1>8, <2>1
  <2>2. CASE j \in 1 .. Len(ls) /\ j # i
    BY <1>1, <1>7, <1>8, <2>2 DEF LanesOK
  <2> QED  BY <1>3, <1>6, <2>1, <2>2
<1>9. Placed(q, ls, i, l)
  BY <1>1, <1>3, <1>6, <1>7, <1>8 DEF LanesOK, Placed
<1> QED  BY <1>9 DEF q

(* What stays of the lanes of the row before: those that wait for another.  *)
Stay(old, c) == GL!Active(old) \ GL!Waits(old, c)
Tops(old, c, node) ==
  {GL!Top(i, IF i \in GL!Waits(old, c) THEN node ELSE i, old[i].color) : i \in GL!Active(old)}
Bottoms(segments) == {s \in segments : s.half = "bottom"}

(* A row with its lines to the parents in P.                                *)
LinesTo(old, c, node, P, a) ==
  /\ LanesOK(a.lanes) /\ Len(a.lanes) >= Len(old) /\ node \in DOMAIN a.lanes
  /\ \A i \in Stay(old, c) : i \in DOMAIN a.lanes /\ a.lanes[i] = old[i]
  /\ a.touched \subseteq DOMAIN a.lanes /\ node \in a.touched
  /\ Tops(old, c, node) \subseteq a.segments
  /\ \A s \in a.segments : s.half = "bottom" \/ s \in Tops(old, c, node)
  /\ \A s \in Bottoms(a.segments) :
       /\ s.from \in DOMAIN a.lanes /\ s.to \in GL!Active(a.lanes)
       /\ s.color = a.lanes[s.to].color
       /\ s.from = node \/ s.from = s.to
  /\ \A i \in a.touched \cap GL!Active(a.lanes) : \E s \in Bottoms(a.segments) : s.to = i
  /\ \A i \in a.touched \cap Stay(old, c) : \E s \in Bottoms(a.segments) : s.from = i /\ s.to = i
  /\ {a.lanes[s.to].wait : s \in {t \in Bottoms(a.segments) : t.from = node}} = P

LEMMA SegmentFields ==
  \A f, t, k :
    /\ GL!Bottom(f, t, k).half = "bottom" /\ GL!Bottom(f, t, k).from = f
    /\ GL!Bottom(f, t, k).to = t /\ GL!Bottom(f, t, k).color = k
    /\ GL!Top(f, t, k).half = "top" /\ GL!Top(f, t, k).from = f
    /\ GL!Top(f, t, k).to = t /\ GL!Top(f, t, k).color = k
BY DEF GL!Bottom, GL!Top

LEMMA HueIs ==
  ASSUME NEW i \in Nat \ {0}
  PROVE  GL!Hue(i) \in Nat
<1>1. Colors \in Nat \ {0} /\ i - 1 \in Nat
  BY ConstantsAssumption DEF GL!ConstantsOK
<1> QED  BY <1>1 DEF GL!Hue

(* A further parent adds its line and takes nothing away.                   *)
LEMMA JoinKeeps ==
  ASSUME NEW old, LanesOK(old), NEW c, NEW node, NEW P, NEW a, LinesTo(old, c, node, P, a),
         NEW p \in Nat \ {0}
  PROVE  LinesTo(old, c, node, P \cup {p}, GL!Join(old, node, a, p))
<1> DEFINE there == GL!Waits(a.lanes, p)
           i == GL!Leftmost(a.lanes, there)
           ls == IF there # {} THEN a.lanes ELSE GL!Put(a.lanes, i, [wait |-> p, color |-> GL!Hue(i)])
           vertical == IF there # {} /\ i \in GL!Active(old) THEN {GL!Bottom(i, i, ls[i].color)} ELSE {}
           line == GL!Bottom(node, i, ls[i].color)
           segs == a.segments \cup vertical \cup {line}
           j == GL!Join(old, node, a, p)
<1>1. j = [lanes |-> ls, touched |-> a.touched \cup {i}, segments |-> segs]
  BY DEF GL!Join
<1>2. j.lanes = ls /\ j.touched = a.touched \cup {i} /\ j.segments = segs
  BY <1>1
<1>3. LanesOK(a.lanes) /\ Len(a.lanes) \in Nat /\ Len(old) \in Nat /\ DOMAIN a.lanes = 1 .. Len(a.lanes)
  BY LanesFacts DEF LinesTo
<1>4. i \in 1 .. Len(a.lanes) + 1
  BY <1>3, LeftmostIs, LanesFacts
<1> HIDE DEF j
<1>5. /\ LanesOK(ls) /\ Len(ls) >= Len(a.lanes) /\ Len(ls) \in Nat /\ i \in DOMAIN ls /\ ls[i].wait = p
      /\ DOMAIN a.lanes \subseteq DOMAIN ls
      /\ \A k \in DOMAIN a.lanes : k # i => ls[k] = a.lanes[k]
      /\ \A k \in GL!Active(a.lanes) : k \in DOMAIN ls /\ ls[k] = a.lanes[k]
  <2>1. CASE there # {}
    <3>1. i \in there
      BY <1>3, <2>1, LeftmostIs, LanesFacts
    <3> QED  BY <1>3, <2>1, <3>1, LanesFacts DEF GL!Waits
  <2>2. CASE there = {}
    <3> DEFINE l == [wait |-> p, color |-> GL!Hue(i)]
    <3>1. i \notin GL!Active(a.lanes)
      BY <1>3, <2>2, LeftmostIs, LanesFacts
    <3>2. l \in Lane /\ l.wait = p
      BY <1>3, <1>4, HueIs DEF Lane
    <3>3. ls = GL!Put(a.lanes, i, l)
      BY <2>2
    <3>4. ASSUME NEW n, n \in 1 .. Len(a.lanes) + 1, NEW k, k \in Lane, k.wait # 0
          PROVE  Placed(GL!Put(a.lanes, n, k), a.lanes, n, k)
      BY <1>3, <3>4, PutIs
    <3> HIDE DEF l, i, ls
    <3>5. l \in Lane /\ l.wait # 0
      BY <3>2
    <3>6. Placed(ls, a.lanes, i, l)
      BY ONLY <1>4, <3>3, <3>4, <3>5
    <3>7. /\ LanesOK(ls) /\ Len(ls) >= Len(a.lanes) /\ i \in DOMAIN ls /\ ls[i] = l
          /\ \A k \in DOMAIN a.lanes : k \in DOMAIN ls /\ (k # i => ls[k] = a.lanes[k])
      BY ONLY <3>6 DEF Placed
    <3> QED  BY <1>3, <3>1, <3>2, <3>7, LanesFacts
  <2> QED  BY <2>1, <2>2
<1> HIDE DEF ls
<1>6. GL!Active(a.lanes) \subseteq GL!Active(ls) /\ i \in GL!Active(ls)
  <2>1. i \in GL!Active(ls)
    <3> HIDE DEF i
    <3> QED  BY <1>5, LanesFacts
  <2>2. \A k \in GL!Active(a.lanes) : k \in GL!Active(ls)
    BY <1>5 DEF GL!Active
  <2> QED  BY <2>1, <2>2
<1>7. Stay(old, c) \subseteq GL!Active(a.lanes)
  BY DEF LinesTo, Stay, GL!Active
<1>t. there # {} => i \in there
  BY <1>3, LeftmostIs, LanesFacts
<1> HIDE DEF there, i
<1>8. /\ vertical \subseteq {GL!Bottom(i, i, ls[i].color)}
      /\ line.half = "bottom" /\ line.from = node /\ line.to = i /\ line.color = ls[i].color
      /\ \A s \in vertical : s.half = "bottom" /\ s.from = i /\ s.to = i /\ s.color = ls[i].color
  BY SegmentFields
<1>9. i \in Stay(old, c) => GL!Bottom(i, i, ls[i].color) \in segs
  <2> SUFFICES ASSUME i \in Stay(old, c) PROVE there # {} /\ i \in GL!Active(old)
    OBVIOUS
  <2>1. i \in GL!Active(a.lanes) /\ i \in GL!Active(old) /\ ls[i] = a.lanes[i]
    BY <1>5, <1>7 DEF Stay
  <2>2. i \in there
    BY <1>3, <1>5, <2>1, LanesFacts DEF there, GL!Waits
  <2> QED  BY <2>1, <2>2
<1> HIDE DEF line, vertical
<1>10. Bottoms(segs) = Bottoms(a.segments) \cup vertical \cup {line}
  BY <1>8 DEF Bottoms
<1> HIDE DEF segs
<1>11. \A s \in Bottoms(a.segments) :
         /\ s.from \in DOMAIN a.lanes /\ s.to \in GL!Active(a.lanes)
         /\ s.color = a.lanes[s.to].color
         /\ s.from = node \/ s.from = s.to
  BY DEF LinesTo
<1>12. \A s \in Bottoms(segs) :
         /\ s.from \in DOMAIN ls /\ s.to \in GL!Active(ls)
         /\ s.color = ls[s.to].color
         /\ s.from = node \/ s.from = s.to
  <2>1. node \in DOMAIN ls
    BY <1>5 DEF LinesTo
  <2> QED  BY <1>5, <1>6, <1>8, <1>10, <1>11, <2>1
<1>13. \A k \in (a.touched \cup {i}) \cap GL!Active(ls) : \E s \in Bottoms(segs) : s.to = k
  <2>1. ASSUME NEW k \in a.touched \cap GL!Active(ls), k # i PROVE \E s \in Bottoms(segs) : s.to = k
    <3>1. k \in GL!Active(a.lanes)
      <4>1. k \in DOMAIN a.lanes
        BY DEF LinesTo
      <4> QED  BY <1>5, <2>1, <4>1 DEF GL!Active
    <3> QED  BY <1>10, <3>1 DEF LinesTo
  <2> QED  BY <1>8, <1>10, <2>1
<1>14. \A k \in (a.touched \cup {i}) \cap Stay(old, c) : \E s \in Bottoms(segs) : s.from = k /\ s.to = k
  <2>1. ASSUME NEW k \in a.touched \cap Stay(old, c) PROVE \E s \in Bottoms(segs) : s.from = k /\ s.to = k
    BY <1>10 DEF LinesTo
  <2>2. i \in Stay(old, c) => \E s \in Bottoms(segs) : s.from = i /\ s.to = i
    BY <1>9, SegmentFields DEF Bottoms
  <2> QED  BY <2>1, <2>2
<1>15. {ls[s.to].wait : s \in {t \in Bottoms(segs) : t.from = node}} = P \cup {p}
  <2>1. \A s \in Bottoms(a.segments) : ls[s.to] = a.lanes[s.to]
    BY <1>5, <1>11
  <2>2. {a.lanes[s.to].wait : s \in {t \in Bottoms(a.segments) : t.from = node}} = P
    BY DEF LinesTo
  <2>3. ls[line.to].wait = p /\ \A s \in vertical : ls[s.to].wait = p
    BY <1>5, <1>8
  <2>4. ASSUME NEW s \in Bottoms(segs), s.from = node PROVE ls[s.to].wait \in P \cup {p}
    BY <1>10, <2>1, <2>2, <2>3, <2>4
  <2>5. ASSUME NEW w \in P \cup {p} PROVE \E s \in Bottoms(segs) : s.from = node /\ ls[s.to].wait = w
    <3>1. CASE w = p
      BY <1>8, <1>10, <2>3, <3>1
    <3>2. CASE w \in P
      <4>1. PICK s \in Bottoms(a.segments) : s.from = node /\ a.lanes[s.to].wait = w
        BY <2>2, <3>2
      <4> QED  BY <1>10, <2>1, <4>1
    <3> QED  BY <3>1, <3>2
  <2> QED  BY <2>4, <2>5
<1>16. /\ Tops(old, c, node) \subseteq segs
       /\ \A s \in segs : s.half = "bottom" \/ s \in Tops(old, c, node)
  BY <1>8 DEF LinesTo, segs
<1>17. /\ LanesOK(ls) /\ Len(ls) >= Len(old) /\ node \in DOMAIN ls
       /\ \A k \in Stay(old, c) : k \in DOMAIN ls /\ ls[k] = old[k]
       /\ a.touched \cup {i} \subseteq DOMAIN ls /\ node \in a.touched \cup {i}
  <2>1. Len(a.lanes) >= Len(old) /\ node \in DOMAIN a.lanes /\ a.touched \subseteq DOMAIN a.lanes /\ node \in a.touched
    BY DEF LinesTo
  <2>2. \A k \in Stay(old, c) : a.lanes[k] = old[k]
    BY DEF LinesTo
  <2> QED  BY <1>3, <1>5, <1>7, <2>1, <2>2
<1>18. LinesTo(old, c, node, P \cup {p}, j)
  BY <1>2, <1>12, <1>13, <1>14, <1>15, <1>16, <1>17 DEF LinesTo
<1> QED  BY <1>18 DEF j

(* The rows as the further parents join, one after the other.               *)
After(f, n, old, node, first, ps) ==
  f = [k \in 0 .. n |-> IF k <= 1 THEN first ELSE GL!Join(old, node, f[k - 1], ps[k])]

LEMMA AfterExists ==
  ASSUME NEW old, NEW node, NEW first, NEW ps \in Seq(Nat)
  PROVE  \E f : After(f, Len(ps), old, node, first, ps)
<1> DEFINE J(v, k) == GL!Join(old, node, v, ps[k])
           Rec(f, n) == f = [k \in 0 .. n |-> IF k <= 1 THEN first ELSE J(f[k - 1], k)]
           N == {n \in 0 .. Len(ps) : ~ \E f : Rec(f, n)}
<1>1. Len(ps) \in Nat
  OBVIOUS
<1> HIDE DEF J
<1>2. ASSUME N # {} PROVE FALSE
  <2>1. PICK n \in N : \A m \in N : n <= m
    <3>1. N \in SUBSET Nat
      BY <1>1
    <3> HIDE DEF N
    <3> QED  BY <3>1, <1>2, Least
  <2>2. n \in 0 .. Len(ps) /\ n \in Nat /\ ~ \E f : Rec(f, n)
    BY <1>1, <2>1
  <2>3. CASE n = 0
    <3> DEFINE f == [k \in 0 .. 0 |-> first]
    <3>1. Rec(f, 0)
      OBVIOUS
    <3> HIDE DEF f, Rec
    <3> QED  BY <2>2, <2>3, <3>1
  <2>4. CASE n # 0
    <3>1. n - 1 \in 0 .. Len(ps) /\ ~(n <= n - 1)
      BY <2>2, <2>4, <1>1
    <3>2. PICK f : Rec(f, n - 1)
      <4>1. n - 1 \notin N
        BY <2>1, <3>1
      <4> QED  BY <4>1, <3>1
    <3> DEFINE g == [k \in 0 .. n |-> IF k = n THEN IF k <= 1 THEN first ELSE J(f[k - 1], k) ELSE f[k]]
    <3>3. \A k \in 0 .. n - 1 : g[k] = f[k]
      BY <2>2
    <3>4. \A k \in 0 .. n : g[k] = IF k <= 1 THEN first ELSE J(g[k - 1], k)
      <4>1. ASSUME NEW k \in 0 .. n PROVE g[k] = IF k <= 1 THEN first ELSE J(g[k - 1], k)
        <5>1. CASE k = n
          <6>1. g[k] = IF k <= 1 THEN first ELSE J(f[k - 1], k)
            BY <5>1
          <6>2. ~(k <= 1) => g[k - 1] = f[k - 1]
            <7>1. k - 1 \in 0 .. n - 1
              BY <5>1, <2>2, <2>4
            <7> HIDE DEF g
            <7> QED  BY <7>1, <3>3
          <6> HIDE DEF g
          <6> QED  BY <6>1, <6>2
        <5>2. CASE k # n
          <6>1. k \in 0 .. n - 1 /\ (~(k <= 1) => k - 1 \in 0 .. n - 1)
            BY <5>2, <2>2
          <6> HIDE DEF g
          <6>2. f[k] = IF k <= 1 THEN first ELSE J(f[k - 1], k)
            BY <3>2, <6>1
          <6> QED  BY <3>3, <6>1, <6>2
        <5> QED  BY <5>1, <5>2
      <4> QED  BY <4>1
    <3>5. Rec(g, n)
      <4>1. g = [k \in 0 .. n |-> g[k]]
        OBVIOUS
      <4> HIDE DEF g
      <4> QED  BY <4>1, <3>4
    <3> HIDE DEF g, Rec
    <3> QED  BY <2>2, <3>5
  <2> QED  BY <2>3, <2>4
<1>3. \E f : Rec(f, Len(ps))
  BY <1>1, <1>2
<1> QED  BY <1>3 DEF After, J

LEMMA JoinedIs ==
  ASSUME NEW old, LanesOK(old), NEW c, NEW node, NEW first, NEW ps \in Seq(Nat \ {0}),
         LinesTo(old, c, node, IF ps = <<>> THEN {} ELSE {ps[1]}, first)
  PROVE  LinesTo(old, c, node, {ps[k] : k \in 1 .. Len(ps)}, GL!Joined(old, node, first, ps))
<1> DEFINE after == CHOOSE f : After(f, Len(ps), old, node, first, ps)
           Firsts(n) == {ps[k] : k \in 1 .. n}
           Good(n) == LinesTo(old, c, node, Firsts(n), after[n])
           N == {n \in 0 .. Len(ps) : n > 0 /\ ~Good(n)}
<1>1. Len(ps) \in Nat /\ \A k \in 1 .. Len(ps) : ps[k] \in Nat \ {0}
  OBVIOUS
<1>2. After(after, Len(ps), old, node, first, ps)
  <2>1. ps \in Seq(Nat)
    <3>1. ps \in [1 .. Len(ps) -> Nat]
      BY <1>1
    <3> QED  BY <3>1, <1>1
  <2> QED  BY <2>1, AfterExists
<1>3. GL!Joined(old, node, first, ps) = after[Len(ps)]
  BY DEF GL!Joined, After
<1> HIDE DEF after
<1>4. /\ after[0] = first
      /\ \A k \in 1 .. Len(ps) : after[k] = IF k = 1 THEN first ELSE GL!Join(old, node, after[k - 1], ps[k])
  <2> DEFINE F(k) == IF k <= 1 THEN first ELSE GL!Join(old, node, after[k - 1], ps[k])
  <2>1. after = [k \in 0 .. Len(ps) |-> F(k)]
    BY <1>2 DEF After
  <2>2. \A k \in 0 .. Len(ps) : after[k] = F(k)
    <3> HIDE DEF F
    <3> QED  BY <2>1
  <2>3. F(0) = first /\ \A k \in 1 .. Len(ps) : F(k) = IF k = 1 THEN first ELSE GL!Join(old, node, after[k - 1], ps[k])
    OBVIOUS
  <2>4. 0 \in 0 .. Len(ps) /\ \A k \in 1 .. Len(ps) : k \in 0 .. Len(ps)
    BY <1>1
  <2> HIDE DEF F
  <2> QED  BY <2>2, <2>3, <2>4
<1>5. ASSUME N # {} PROVE FALSE
  <2>1. PICK n \in N : \A m \in N : n <= m
    <3>1. N \in SUBSET Nat
      BY <1>1
    <3> HIDE DEF N
    <3> QED  BY <3>1, <1>5, Least
  <2>2. n \in 1 .. Len(ps) /\ n \in Nat /\ ~Good(n)
    BY <1>1, <2>1
  <2>3. CASE n = 1
    <3>1. Firsts(1) = {ps[1]}
      OBVIOUS
    <3>2. ps # <<>>
      BY <2>2
    <3>3. after[1] = first
      BY <1>4, <2>2, <2>3
    <3> HIDE DEF Firsts
    <3> QED  BY <2>2, <2>3, <3>1, <3>2, <3>3
  <2>4. CASE n # 1
    <3>1. n - 1 \in 0 .. Len(ps) /\ ~(n <= n - 1) /\ n - 1 > 0
      BY <1>1, <2>2, <2>4
    <3>2. Good(n - 1)
      <4>1. n - 1 \notin N
        BY <2>1, <3>1
      <4> HIDE DEF Good
      <4> QED  BY <4>1, <3>1
    <3>3. after[n] = GL!Join(old, node, after[n - 1], ps[n])
      BY <1>4, <2>2, <2>4
    <3>4. Firsts(n) = Firsts(n - 1) \cup {ps[n]}
      BY <2>2
    <3>5. ps[n] \in Nat \ {0}
      BY <1>1, <2>2
    <3> HIDE DEF Firsts
    <3>6. LinesTo(old, c, node, Firsts(n - 1) \cup {ps[n]}, GL!Join(old, node, after[n - 1], ps[n]))
      BY <3>2, <3>5, JoinKeeps
    <3> QED  BY <2>2, <3>3, <3>4, <3>6
  <2> QED  BY <2>3, <2>4
<1>6. CASE ps = <<>>
  <2>1. Len(ps) = 0 /\ {ps[k] : k \in 1 .. Len(ps)} = {}
    BY <1>6
  <2> QED  BY <1>3, <1>4, <1>6, <2>1
<1>7. CASE ps # <<>>
  <2>1. Len(ps) \in 0 .. Len(ps) /\ Len(ps) > 0
    BY <1>1, <1>7
  <2>2. Good(Len(ps))
    <3> HIDE DEF Good
    <3> QED  BY <1>5, <2>1
  <2> QED  BY <1>3, <2>2
<1> QED  BY <1>6, <1>7

(* A row that is laid out: the lines of the row before that wait for c end  *)
(* in it, the others go on, and its own lead to the parents in P.           *)
Drawn(old, c, P, r) ==
  /\ LanesOK(r.lanes) /\ r.width = Len(r.lanes) /\ Len(old) <= r.width /\ r.node \in DOMAIN r.lanes
  /\ \A i \in Stay(old, c) : i \in DOMAIN r.lanes /\ r.lanes[i] = old[i]
  /\ IF GL!Waits(old, c) # {} THEN r.node \in GL!Waits(old, c) ELSE r.node \notin GL!Active(old)
  /\ Tops(old, c, r.node) \subseteq r.segments
  /\ \A s \in r.segments : s.half = "bottom" \/ s \in Tops(old, c, r.node)
  /\ \A s \in Bottoms(r.segments) :
       /\ s.from \in DOMAIN r.lanes /\ s.to \in GL!Active(r.lanes)
       /\ s.color = r.lanes[s.to].color
       /\ s.from = r.node \/ s.from = s.to
  /\ \A i \in GL!Active(r.lanes) : \E s \in Bottoms(r.segments) : s.to = i
  /\ \A i \in Stay(old, c) : \E s \in Bottoms(r.segments) : s.from = i /\ s.to = i
  /\ {r.lanes[s.to].wait : s \in {t \in Bottoms(r.segments) : t.from = r.node}} = P

(* The first parent takes the lane of the commit.                           *)
LEMMA FirstParent ==
  ASSUME NEW old, LanesOK(old), NEW c \in Nat \ {0}, NEW node, node \in 1 .. Len(old) + 1,
         IF GL!Waits(old, c) # {} THEN node \in GL!Waits(old, c) ELSE node \notin GL!Active(old),
         NEW color \in Nat, NEW ps \in Seq(Nat \ {0})
  PROVE  LinesTo(old, c, node, IF ps = <<>> THEN {} ELSE {ps[1]},
           LET emptied == [i \in DOMAIN old |-> IF i \in GL!Waits(old, c) THEN GL!Free ELSE old[i]]
           IN IF ps = <<>>
              THEN [lanes |-> GL!Put(emptied, node, GL!Free), touched |-> {node},
                    segments |-> Tops(old, c, node)]
              ELSE [lanes |-> GL!Put(emptied, node, [wait |-> ps[1], color |-> color]),
                    touched |-> {node},
                    segments |-> Tops(old, c, node) \cup {GL!Bottom(node, node, color)}])
<1> DEFINE emptied == [i \in DOMAIN old |-> IF i \in GL!Waits(old, c) THEN GL!Free ELSE old[i]]
           l == IF ps = <<>> THEN GL!Free ELSE [wait |-> ps[1], color |-> color]
           ls == GL!Put(emptied, node, l)
           mine == IF ps = <<>> THEN {} ELSE {GL!Bottom(node, node, color)}
           P == IF ps = <<>> THEN {} ELSE {ps[1]}
           a == [lanes |-> ls, touched |-> {node}, segments |-> Tops(old, c, node) \cup mine]
<1>1. /\ Len(old) \in Nat /\ DOMAIN old = 1 .. Len(old)
      /\ \A i \in 1 .. Len(old) : old[i] \in Lane /\ (old[i].wait = 0 => old[i] = GL!Free)
  BY LanesFacts DEF LanesOK
<1>2. GL!Free \in Lane /\ GL!Free.wait = 0
  BY DEF GL!Free, Lane
<1>3. LanesOK(emptied) /\ Len(emptied) = Len(old)
  <2>1. emptied \in [1 .. Len(old) -> Lane]
    BY <1>1, <1>2
  <2>2. \A i \in 1 .. Len(old) : emptied[i].wait = 0 => emptied[i] = GL!Free
    BY <1>1
  <2> HIDE DEF emptied
  <2>3. emptied \in Seq(Lane) /\ Len(emptied) = Len(old) /\ DOMAIN emptied = 1 .. Len(old)
    BY <1>1, <2>1
  <2> QED  BY <2>2, <2>3 DEF LanesOK
<1>4. l \in Lane /\ (l.wait # 0 \/ l = GL!Free)
  <2>1. CASE ps = <<>>
    BY <1>2, <2>1
  <2>2. CASE ps # <<>>
    <3>1. ps[1] \in Nat \ {0}
      BY <2>2
    <3> QED  BY <2>2, <3>1 DEF Lane
  <2> QED  BY <2>1, <2>2
<1>5. \A i \in Stay(old, c) : i \in 1 .. Len(old) /\ i # node /\ emptied[i] = old[i]
  BY <1>1 DEF Stay, GL!Active
<1> HIDE DEF emptied, l
<1>6. Placed(ls, emptied, node, l)
  BY <1>3, <1>4, PutIs
<1>7. DOMAIN emptied = 1 .. Len(old)
  BY <1>1, <1>3, LanesFacts
<1> HIDE DEF ls
<1>8. /\ LanesOK(ls) /\ Len(ls) >= Len(old) /\ node \in DOMAIN ls /\ ls[node] = l
      /\ \A i \in Stay(old, c) : i \in DOMAIN ls /\ ls[i] = old[i]
  BY <1>3, <1>5, <1>6, <1>7 DEF Placed
<1>9. \A s \in Tops(old, c, node) : s.half = "top"
  BY SegmentFields DEF Tops
<1>10. ASSUME ps # <<>> PROVE l.wait = ps[1] /\ l.color = color /\ node \in GL!Active(ls)
  <2>1. ps[1] \in Nat \ {0}
    BY <1>10
  <2>2. l.wait = ps[1] /\ l.color = color
    BY <1>10 DEF l
  <2>3. l # GL!Free
    BY <1>2, <2>1, <2>2
  <2> QED  BY <1>8, <2>2, <2>3 DEF GL!Active
<1>11. ps = <<>> => node \notin GL!Active(ls)
  BY <1>8 DEF l, GL!Active
<1>12. Bottoms(a.segments) = mine
  <2>1. \A s \in mine : s.half = "bottom"
    BY SegmentFields
  <2> HIDE DEF mine
  <2> QED  BY <1>9, <2>1 DEF Bottoms
<1>13. \A s \in mine : /\ ps # <<>> /\ s.half = "bottom" /\ s.from = node /\ s.to = node
                       /\ s.color = color
  BY SegmentFields
<1>14. ps # <<>> => \E s \in mine : s.from = node /\ s.to = node
  BY SegmentFields
<1> HIDE DEF mine
<1>15. {ls[s.to].wait : s \in {t \in Bottoms(a.segments) : t.from = node}} = P
  <2>1. CASE ps = <<>>
    <3>1. mine = {}
      BY <1>13, <2>1
    <3> QED  BY <1>12, <2>1, <3>1
  <2>2. CASE ps # <<>>
    <3>1. \A s \in mine : s.from = node /\ ls[s.to].wait = ps[1]
      BY <1>8, <1>10, <1>13, <2>2
    <3>2. PICK s \in mine : s.from = node
      BY <1>14, <2>2
    <3>3. P = {ps[1]}
      BY <2>2
    <3> HIDE DEF P, a
    <3> QED  BY <1>12, <3>1, <3>2, <3>3
  <2> QED  BY <2>1, <2>2
<1>16. /\ a.lanes = ls /\ a.touched = {node} /\ a.segments = Tops(old, c, node) \cup mine
  OBVIOUS
<1> HIDE DEF a, P
<1>17. \A s \in Bottoms(a.segments) :
         /\ s.from \in DOMAIN ls /\ s.to \in GL!Active(ls)
         /\ s.color = ls[s.to].color
         /\ s.from = node \/ s.from = s.to
  BY <1>8, <1>10, <1>12, <1>13
<1>18. /\ \A i \in {node} \cap GL!Active(ls) : \E s \in Bottoms(a.segments) : s.to = i
       /\ \A i \in {node} \cap Stay(old, c) : \E s \in Bottoms(a.segments) : s.from = i /\ s.to = i
  BY <1>5, <1>11, <1>12, <1>14
<1>19. \A s \in a.segments : s.half = "bottom" \/ s \in Tops(old, c, node)
  BY <1>13, <1>16
<1>20. LinesTo(old, c, node, P, a)
  <2>1. /\ LanesOK(a.lanes) /\ Len(a.lanes) >= Len(old) /\ node \in DOMAIN a.lanes
        /\ \A i \in Stay(old, c) : i \in DOMAIN a.lanes /\ a.lanes[i] = old[i]
        /\ a.touched \subseteq DOMAIN a.lanes /\ node \in a.touched
        /\ Tops(old, c, node) \subseteq a.segments
    BY <1>8, <1>16
  <2>2. /\ \A s \in Bottoms(a.segments) :
              /\ s.from \in DOMAIN a.lanes /\ s.to \in GL!Active(a.lanes)
              /\ s.color = a.lanes[s.to].color
              /\ s.from = node \/ s.from = s.to
        /\ {a.lanes[s.to].wait : s \in {t \in Bottoms(a.segments) : t.from = node}} = P
    BY ONLY <1>15, <1>16, <1>17
  <2>3. /\ \A i \in a.touched \cap GL!Active(a.lanes) : \E s \in Bottoms(a.segments) : s.to = i
        /\ \A i \in a.touched \cap Stay(old, c) : \E s \in Bottoms(a.segments) : s.from = i /\ s.to = i
    BY ONLY <1>16, <1>18
  <2> QED  BY ONLY <1>19, <2>1, <2>2, <2>3 DEF LinesTo
<1>21. a = IF ps = <<>>
           THEN [lanes |-> GL!Put(emptied, node, GL!Free), touched |-> {node},
                 segments |-> Tops(old, c, node)]
           ELSE [lanes |-> GL!Put(emptied, node, [wait |-> ps[1], color |-> color]),
                 touched |-> {node},
                 segments |-> Tops(old, c, node) \cup {GL!Bottom(node, node, color)}]
  <2>1. CASE ps = <<>>
    BY <2>1 DEF a, ls, l, mine
  <2>2. CASE ps # <<>>
    BY <2>2 DEF a, ls, l, mine
  <2> QED  BY <2>1, <2>2
<1> QED  BY ONLY <1>20, <1>21 DEF P, emptied

LEMMA RowIs ==
  ASSUME NEW old, LanesOK(old), NEW c \in Nat \ {0}, NEW ps \in Seq(Nat \ {0}), NEW hint \in {{}, {0}}
  PROVE  Drawn(old, c, {ps[k] : k \in 1 .. Len(ps)}, GL!Row(old, c, ps, hint))
<1> DEFINE waiting == GL!Waits(old, c)
           node == GL!Leftmost(old, waiting)
           color == IF waiting # {} THEN old[node].color
                    ELSE IF hint # {} THEN CHOOSE h \in hint : TRUE ELSE GL!Hue(node)
           emptied == [i \in DOMAIN old |-> IF i \in waiting THEN GL!Free ELSE old[i]]
           first == IF ps = <<>> THEN [lanes |-> GL!Put(emptied, node, GL!Free), touched |-> {node},
                                       segments |-> Tops(old, c, node)]
                    ELSE [lanes |-> GL!Put(emptied, node, [wait |-> ps[1], color |-> color]),
                          touched |-> {node},
                          segments |-> Tops(old, c, node) \cup {GL!Bottom(node, node, color)}]
           all == GL!Joined(old, node, first, ps)
           through == {GL!Bottom(i, i, all.lanes[i].color) : i \in GL!Active(all.lanes) \ all.touched}
           r == GL!Row(old, c, ps, hint)
           P == {ps[k] : k \in 1 .. Len(ps)}
<1>1. r = [node |-> node, color |-> color, segments |-> all.segments \cup through,
           width |-> Len(all.lanes), lanes |-> all.lanes]
  BY DEF GL!Row, Tops
<1>2. /\ r.node = node /\ r.segments = all.segments \cup through
      /\ r.width = Len(all.lanes) /\ r.lanes = all.lanes
  BY <1>1
<1> HIDE DEF r
<1>3. /\ node \in 1 .. Len(old) + 1
      /\ IF waiting # {} THEN node \in waiting ELSE node \notin GL!Active(old)
  <2>1. waiting \subseteq DOMAIN old
    BY LanesFacts
  <2> HIDE DEF waiting
  <2> QED  BY <2>1, LeftmostIs
<1>4. color \in Nat
  <2>1. CASE waiting # {}
    <3>1. node \in DOMAIN old
      BY <1>3, <2>1, LanesFacts
    <3> HIDE DEF node, waiting
    <3>2. old[node] \in Lane
      BY <3>1, LanesFacts
    <3> QED  BY <2>1, <3>2 DEF Lane
  <2>2. CASE waiting = {} /\ hint # {}
    <3>1. (CHOOSE h \in hint : TRUE) \in hint
      BY <2>2
    <3> QED  BY <2>2, <3>1
  <2>3. CASE waiting = {} /\ hint = {}
    <3>1. node \in Nat \ {0}
      BY <1>3, LanesFacts
    <3> HIDE DEF node, waiting
    <3> QED  BY <2>3, <3>1, HueIs
  <2> QED  BY <2>1, <2>2, <2>3
<1>5. LinesTo(old, c, node, IF ps = <<>> THEN {} ELSE {ps[1]}, first)
  <2> HIDE DEF color, node
  <2> QED  BY <1>3, <1>4, FirstParent
<1> HIDE DEF first, color, node
<1>6. LinesTo(old, c, node, P, all)
  BY <1>5, JoinedIs
<1> HIDE DEF all, P
<1>7. /\ LanesOK(all.lanes) /\ Len(all.lanes) \in Nat /\ Len(old) \in Nat
      /\ DOMAIN all.lanes = 1 .. Len(all.lanes) /\ GL!Active(all.lanes) \subseteq DOMAIN all.lanes
  BY <1>6, LanesFacts DEF LinesTo
<1>8. /\ \A s \in through : /\ s.half = "bottom" /\ s.from = s.to /\ s.to \in GL!Active(all.lanes)
                            /\ s.color = all.lanes[s.to].color /\ s.from \notin all.touched
      /\ \A i \in GL!Active(all.lanes) \ all.touched : \E s \in through : s.from = i /\ s.to = i
  <2> DEFINE S == GL!Active(all.lanes) \ all.touched
             B(i) == GL!Bottom(i, i, all.lanes[i].color)
  <2>1. \A i : /\ B(i).half = "bottom" /\ B(i).from = i /\ B(i).to = i
               /\ B(i).color = all.lanes[i].color
    BY SegmentFields
  <2>2. through = {B(i) : i \in S} /\ S \subseteq GL!Active(all.lanes) /\ S \cap all.touched = {}
    OBVIOUS
  <2>3. \A i \in S : i \in GL!Active(all.lanes) /\ i \notin all.touched
    BY <2>2
  <2> HIDE DEF B, S, through
  <2>4. ASSUME NEW s \in through
        PROVE  /\ s.half = "bottom" /\ s.from = s.to /\ s.to \in GL!Active(all.lanes)
               /\ s.color = all.lanes[s.to].color /\ s.from \notin all.touched
    <3>1. PICK i \in S : s = B(i)
      BY <2>2
    <3> QED  BY <2>1, <2>3, <3>1
  <2>5. \A i \in S : \E s \in through : s.from = i /\ s.to = i
    BY <2>1, <2>2
  <2> QED  BY <2>4, <2>5 DEF S
<1> HIDE DEF through
<1>9. Bottoms(r.segments) = Bottoms(all.segments) \cup through
  BY <1>2, <1>8 DEF Bottoms
<1>10. \A s \in through : s.from # node
  BY <1>6, <1>8 DEF LinesTo
<1>11. \A s \in Bottoms(r.segments) :
         /\ s.from \in DOMAIN all.lanes /\ s.to \in GL!Active(all.lanes)
         /\ s.color = all.lanes[s.to].color
         /\ s.from = node \/ s.from = s.to
  <2>1. \A s \in Bottoms(all.segments) :
         /\ s.from \in DOMAIN all.lanes /\ s.to \in GL!Active(all.lanes)
         /\ s.color = all.lanes[s.to].color
         /\ s.from = node \/ s.from = s.to
    BY <1>6 DEF LinesTo
  <2> QED  BY <1>7, <1>8, <1>9, <2>1
<1>12. \A i \in GL!Active(all.lanes) : \E s \in Bottoms(r.segments) : s.to = i
  <2>1. \A i \in all.touched \cap GL!Active(all.lanes) : \E s \in Bottoms(all.segments) : s.to = i
    BY <1>6 DEF LinesTo
  <2> QED  BY <1>8, <1>9, <2>1
<1>13. \A i \in Stay(old, c) : \E s \in Bottoms(r.segments) : s.from = i /\ s.to = i
  <2>1. \A i \in all.touched \cap Stay(old, c) : \E s \in Bottoms(all.segments) : s.from = i /\ s.to = i
    BY <1>6 DEF LinesTo
  <2>2. \A i \in Stay(old, c) : i \in GL!Active(all.lanes)
    BY <1>6 DEF LinesTo, Stay, GL!Active
  <2> QED  BY <1>8, <1>9, <2>1, <2>2
<1>14. {all.lanes[s.to].wait : s \in {t \in Bottoms(r.segments) : t.from = node}} = P
  <2>1. {t \in Bottoms(r.segments) : t.from = node} = {t \in Bottoms(all.segments) : t.from = node}
    BY <1>9, <1>10
  <2> QED  BY <1>6, <2>1 DEF LinesTo
<1>15. /\ Tops(old, c, node) \subseteq r.segments
       /\ \A s \in r.segments : s.half = "bottom" \/ s \in Tops(old, c, node)
  BY <1>2, <1>6, <1>8 DEF LinesTo
<1>16. /\ Len(old) <= Len(all.lanes) /\ node \in DOMAIN all.lanes
       /\ \A i \in Stay(old, c) : i \in DOMAIN all.lanes /\ all.lanes[i] = old[i]
  BY <1>6, <1>7 DEF LinesTo
<1>17. Drawn(old, c, P, r)
  <2>1. r.lanes = all.lanes /\ r.width = Len(all.lanes) /\ r.node = node
    BY <1>2
  <2> QED  BY ONLY <1>3, <1>7, <1>11, <1>12, <1>13, <1>14, <1>15, <1>16, <2>1 DEF Drawn
<1> QED  BY <1>17 DEF r, P

LEMMA TightIs ==
  ASSUME NEW ls, LanesOK(ls)
  PROVE  /\ LanesOK(GL!Tight(ls)) /\ GL!Active(GL!Tight(ls)) = GL!Active(ls)
         /\ \A i \in GL!Active(ls) : GL!Tight(ls)[i] = ls[i]
<1> DEFINE L == Len(ls)
           Frees(n) == \A i \in n + 1 .. L : ls[i] = GL!Free
           T == {n \in 0 .. L : Frees(n)}
           Good(n) == Frees(n) /\ (n > 0 => ls[n] # GL!Free)
           n == CHOOSE m \in 0 .. L : Good(m)
           t == SubSeq(ls, 1, n)
<1>1. /\ ls \in Seq(Lane) /\ L \in Nat /\ DOMAIN ls = 1 .. L
      /\ \A i \in 1 .. L : ls[i].wait = 0 => ls[i] = GL!Free
  BY DEF LanesOK
<1>2. PICK m \in T : \A k \in T : m <= k
  <2>1. T \in SUBSET Nat /\ L \in T
    BY <1>1
  <2> HIDE DEF T
  <2> QED  BY <2>1, Least
<1>3. m \in 0 .. L /\ Good(m)
  <2>1. m \in 0 .. L /\ Frees(m) /\ m \in Nat
    BY <1>1, <1>2
  <2>2. ASSUME m > 0, ls[m] = GL!Free PROVE FALSE
    <3>1. m - 1 \in 0 .. L /\ ~(m <= m - 1)
      BY <1>1, <2>1, <2>2
    <3>2. \A i \in (m - 1) + 1 .. L : i = m \/ i \in m + 1 .. L
      BY <1>1, <2>1, <2>2
    <3>3. Frees(m - 1)
      BY <2>1, <2>2, <3>2
    <3> HIDE DEF Frees
    <3> QED  BY <1>2, <3>1, <3>3
  <2> QED  BY <2>1, <2>2
<1>4. n \in 0 .. L /\ Good(n)
  <2> HIDE DEF Good
  <2> QED  BY <1>3
<1>5. GL!Tight(ls) = t
  BY DEF GL!Tight
<1> HIDE DEF n
<1>6. /\ t \in Seq(Lane) /\ Len(t) = n /\ DOMAIN t = 1 .. n /\ n \in Nat
      /\ \A i \in 1 .. n : t[i] = ls[i] /\ i \in 1 .. L
  BY <1>1, <1>4
<1> HIDE DEF t
<1>7. LanesOK(t)
  BY <1>1, <1>6 DEF LanesOK
<1>8. \A i \in 1 .. L : i \in 1 .. n \/ ls[i] = GL!Free
  BY <1>1, <1>4
<1>9. GL!Active(t) = GL!Active(ls)
  BY <1>1, <1>6, <1>8 DEF GL!Active
<1>10. \A i \in GL!Active(ls) : t[i] = ls[i]
  BY <1>1, <1>6, <1>8 DEF GL!Active
<1> QED  BY <1>5, <1>7, <1>9, <1>10

(* The lanes of the last row hold the lines that leave it, and every parent *)
(* of a commit comes after it.                                              *)
GraphTypes ==
  /\ LanesOK(lanes)
  /\ parents \in Seq(Seq(Nat \ {0}))
  /\ \A b \in DOMAIN parents : \A k \in DOMAIN parents[b] : parents[b][k] > b
  /\ DOMAIN lines = DOMAIN parents
  /\ \A b \in DOMAIN parents : lines[b] \subseteq GL!Active(lanes)

GraphInv == GraphTypes /\ LinesLeadToParents

LEMMA ParentsOf == \A ps : GL!Range(ps) = {ps[k] : k \in DOMAIN ps}
BY DEF GL!Range

(* A line that enters a row ends in the commit when its lane waits for it,  *)
(* and leaves the row in its own lane when not.                             *)
LEMMA LineGoesOn ==
  ASSUME NEW old, LanesOK(old), NEW c \in Nat \ {0}, NEW P, NEW r, Drawn(old, c, P, r),
         NEW S \in SUBSET GL!Active(old)
  PROVE  /\ r.node \in GL!Through(r, S) <=> c \in {old[i].wait : i \in S}
         /\ GL!Leaving(r, GL!Through(r, S) \ {r.node}) = {i \in S : old[i].wait # c}
         /\ {i \in S : old[i].wait # c} \subseteq Stay(old, c)
<1> DEFINE W == GL!Waits(old, c)
           node == r.node
           On == {i \in S : old[i].wait # c}
           end(i) == IF i \in W THEN node ELSE i
<1>1. /\ GL!Active(old) \subseteq DOMAIN old /\ W = {i \in DOMAIN old : old[i].wait = c}
      /\ IF W # {} THEN node \in W ELSE node \notin GL!Active(old)
  BY LanesFacts DEF GL!Waits, Drawn
<1>2. On = S \ W /\ On \subseteq Stay(old, c) /\ node \notin On
      /\ (S \cap W # {} <=> c \in {old[i].wait : i \in S})
  <2> HIDE DEF node, W
  <2> QED  BY <1>1 DEF Stay, W
<1>3. GL!Through(r, S) = {end(i) : i \in S}
  <2> DEFINE T(i) == GL!Top(i, end(i), old[i].color)
  <2>1. /\ \A i \in GL!Active(old) : T(i) \in r.segments
        /\ \A s \in r.segments : s.half = "bottom" \/ \E i \in GL!Active(old) : s = T(i)
    BY DEF Drawn, Tops
  <2>2. \A i : T(i).half = "top" /\ T(i).from = i /\ T(i).to = end(i)
    BY SegmentFields
  <2> HIDE DEF T, end
  <2>3. ASSUME NEW s \in r.segments, s.half = "top", s.from \in S PROVE s.to \in {end(i) : i \in S}
    BY <2>1, <2>2, <2>3
  <2>4. ASSUME NEW i \in S PROVE \E s \in r.segments : s.half = "top" /\ s.from \in S /\ s.to = end(i)
    BY <2>1, <2>2
  <2>5. GL!Through(r, S) = {s.to : s \in {t \in {u \in r.segments : u.half = "top"} : t.from \in S}}
    BY DEF GL!Through, GL!Half
  <2> QED  BY <2>3, <2>4, <2>5
<1>4. node \in GL!Through(r, S) <=> S \cap W # {}
  <2>1. ASSUME node \in GL!Through(r, S) PROVE S \cap W # {}
    <3>1. PICK i \in S : node = end(i)
      BY <1>3, <2>1
    <3> HIDE DEF W, node
    <3> QED  BY <1>1, <3>1
  <2>2. ASSUME NEW i \in S \cap W PROVE node \in GL!Through(r, S)
    BY <1>3
  <2> QED  BY <2>1, <2>2
<1>5. GL!Through(r, S) \ {node} = On
  <2> HIDE DEF W, node, On
  <2> QED  BY <1>2, <1>3
<1>6. GL!Leaving(r, On) = On
  <2>1. GL!Leaving(r, On) = {s.to : s \in {t \in Bottoms(r.segments) : t.from \in On}}
    BY DEF GL!Leaving, GL!Half, Bottoms
  <2>2. \A s \in Bottoms(r.segments) : s.from = node \/ s.from = s.to
    BY DEF Drawn
  <2>3. \A i \in On : \E s \in Bottoms(r.segments) : s.from = i /\ s.to = i
    BY <1>2 DEF Drawn
  <2>4. node \notin On
    BY <1>2
  <2> HIDE DEF On, node
  <2>5. ASSUME NEW s \in Bottoms(r.segments), s.from \in On PROVE s.to \in On
    BY <2>2, <2>4, <2>5
  <2>6. ASSUME NEW i \in On PROVE \E s \in Bottoms(r.segments) : s.from \in On /\ s.to = i
    BY <2>3
  <2> QED  BY ONLY <2>1, <2>5, <2>6
<1> QED  BY <1>2, <1>4, <1>5, <1>6

LEMMA PushKeeps ==
  ASSUME GraphInv, NEW ps \in GL!ParentLists(Len(parents) + 1), NEW hint \in {{}, {0}}, GL!Push(ps, hint)
  PROVE  GraphInv'
<1> DEFINE n == Len(parents)
           c == n + 1
           r == GL!Row(lanes, c, ps, hint)
           P == {ps[k] : k \in 1 .. Len(ps)}
           ls == r.lanes
<1>1. /\ LanesOK(lanes) /\ parents \in Seq(Seq(Nat \ {0}))
      /\ n \in Nat /\ c \in Nat \ {0} /\ DOMAIN parents = 1 .. n /\ DOMAIN lines = 1 .. n
      /\ \A b \in 1 .. n : /\ lines[b] \subseteq GL!Active(lanes)
                           /\ \A k \in DOMAIN parents[b] : parents[b][k] > b
  BY DEF GraphInv, GraphTypes
<1>2. ps \in Seq(Nat \ {0}) /\ DOMAIN ps = 1 .. Len(ps) /\ \A k \in DOMAIN ps : ps[k] > c
  <2>1. MaxDrawn \in Nat /\ MaxParents \in Nat
    BY ConstantsAssumption DEF GL!ConstantsOK
  <2>2. PICK m \in Nat : ps \in [1 .. m -> c + 1 .. MaxDrawn + 1]
    BY <2>1 DEF GL!ParentLists, GL!Injection
  <2>3. \A p \in c + 1 .. MaxDrawn + 1 : p \in Nat \ {0} /\ p > c
    <3> HIDE DEF c
    <3> QED  BY <1>1, <2>1
  <2>4. ps \in [1 .. m -> Nat \ {0}] /\ \A k \in 1 .. m : ps[k] > c
    <3> HIDE DEF c
    <3> QED  BY <2>2, <2>3
  <2> QED  BY <2>4
<1>3. /\ lanes' = GL!Tight(ls) /\ parents' = Append(parents, ps) /\ row' = r
      /\ lines' = [b \in 1 .. c |-> IF b = c THEN GL!Leaving(r, {r.node})
                                    ELSE GL!Leaving(r, GL!Through(r, lines[b]) \ {r.node})]
      /\ met' = met \cup {<<b, c>> : b \in {d \in 1 .. c - 1 : r.node \in GL!Through(r, lines[d])}}
  BY DEF GL!Push
<1> HIDE DEF r
<1>4. Drawn(lanes, c, P, r)
  BY <1>1, <1>2, RowIs DEF r
<1>5. /\ LanesOK(ls) /\ r.width = Len(ls) /\ Len(lanes) <= Len(ls) /\ r.node \in DOMAIN ls
      /\ DOMAIN ls = 1 .. Len(ls) /\ Len(ls) \in Nat /\ GL!Active(ls) \subseteq DOMAIN ls
      /\ \A i \in Stay(lanes, c) : i \in GL!Active(ls) /\ ls[i] = lanes[i]
  BY <1>4, LanesFacts DEF Drawn, Stay, GL!Active
<1>6. /\ LanesOK(lanes') /\ GL!Active(lanes') = GL!Active(ls)
      /\ \A i \in GL!Active(ls) : lanes'[i] = ls[i]
  BY <1>3, <1>5, TightIs
<1> HIDE DEF P, ls
<1>7. /\ parents' \in Seq(Seq(Nat \ {0})) /\ Len(parents') = c /\ DOMAIN parents' = 1 .. c /\ parents'[c] = ps
      /\ \A b \in 1 .. n : b \in 1 .. c /\ b # c /\ parents'[b] = parents[b]
      /\ \A b \in 1 .. c : b = c \/ b \in 1 .. n
  BY <1>1, <1>2, <1>3
<1>8. ASSUME NEW b \in 1 .. n
      PROVE  /\ r.node \in GL!Through(r, lines[b]) <=> c \in {lanes[i].wait : i \in lines[b]}
             /\ lines'[b] = {i \in lines[b] : lanes[i].wait # c}
             /\ lines'[b] \subseteq Stay(lanes, c)
  <2>1. lines'[b] = GL!Leaving(r, GL!Through(r, lines[b]) \ {r.node})
    BY <1>3, <1>7
  <2>2. lines[b] \in SUBSET GL!Active(lanes)
    BY <1>1
  <2> DEFINE S == lines[b]
  <2>3. /\ r.node \in GL!Through(r, S) <=> c \in {lanes[i].wait : i \in S}
        /\ GL!Leaving(r, GL!Through(r, S) \ {r.node}) = {i \in S : lanes[i].wait # c}
        /\ {i \in S : lanes[i].wait # c} \subseteq Stay(lanes, c)
    <3> HIDE DEF S, c
    <3>1. S \in SUBSET GL!Active(lanes) /\ c \in Nat \ {0} /\ LanesOK(lanes)
      BY <1>1, <2>2 DEF S
    <3> QED  BY <1>4, <3>1, LineGoesOn
  <2> HIDE DEF c
  <2> QED  BY <2>1, <2>3
<1>9. /\ lines'[c] \subseteq GL!Active(ls) /\ {ls[i].wait : i \in lines'[c]} = P
  <2>1. lines'[c] = GL!Leaving(r, {r.node})
    <3>1. c \in 1 .. c
      BY <1>1
    <3> QED  BY <1>3, <3>1
  <2>2. GL!Leaving(r, {r.node}) = {s.to : s \in {t \in Bottoms(r.segments) : t.from = r.node}}
    BY DEF GL!Leaving, GL!Half, Bottoms
  <2>3. /\ \A s \in Bottoms(r.segments) : s.to \in GL!Active(ls)
        /\ {ls[s.to].wait : s \in {t \in Bottoms(r.segments) : t.from = r.node}} = P
    BY <1>4 DEF Drawn, ls
  <2> DEFINE B == {t \in Bottoms(r.segments) : t.from = r.node}
             Q == lines'[c]
  <2>4. Q = {s.to : s \in B}
    BY <2>1, <2>2
  <2>5. \A s \in B : s.to \in GL!Active(ls)
    BY <2>3
  <2>6. {ls[s.to].wait : s \in B} = P
    BY <2>3
  <2> HIDE DEF c, B, Q
  <2>7. Q \subseteq GL!Active(ls) /\ {ls[i].wait : i \in Q} = P
    BY <2>4, <2>5, <2>6
  <2> QED  BY <2>7 DEF Q
<1>10. \A b \in 1 .. n : {lanes[i].wait : i \in lines[b]} = GL!Range(parents[b]) \ 1 .. n
  BY <1>1 DEF GraphInv, LinesLeadToParents, GL!LinesLeadToParents
<1>11. met = {e \in (1 .. n) \X (1 .. n) : e[2] \in GL!Range(parents[e[1]])}
  BY DEF GraphInv, LinesLeadToParents, GL!LinesLeadToParents
<1>12. P = GL!Range(ps) /\ (\A p \in P : p > c) /\ P \cap 1 .. c = {}
  <2>1. P = GL!Range(ps)
    BY <1>2, ParentsOf DEF P
  <2>2. \A p \in P : p > c /\ p \in Nat
    BY <1>2 DEF P
  <2> QED  BY <1>1, <2>1, <2>2
<1>13. GraphTypes'
  <2>1. DOMAIN lines' = 1 .. c
    BY <1>3
  <2>2. \A b \in 1 .. c : lines'[b] \subseteq GL!Active(lanes')
    BY <1>5, <1>6, <1>7, <1>8, <1>9
  <2>3. \A b \in 1 .. c : \A k \in DOMAIN (parents'[b]) : parents'[b][k] > b
    BY <1>1, <1>2, <1>7
  <2> QED  BY <1>6, <1>7, <2>1, <2>2, <2>3 DEF GraphTypes
<1>14. met' = {e \in (1 .. c) \X (1 .. c) : e[2] \in GL!Range(parents'[e[1]])}
  <2> DEFINE M == {e \in (1 .. c) \X (1 .. c) : e[2] \in GL!Range(parents'[e[1]])}
             New == {<<b, c>> : b \in {d \in 1 .. n : r.node \in GL!Through(r, lines[d])}}
  <2>1. met' = met \cup New
    <3>1. c - 1 = n
      BY <1>1
    <3> QED  BY <1>3, <3>1
  <2>2. \A b \in 1 .. n : r.node \in GL!Through(r, lines[b]) <=> c \in GL!Range(parents[b])
    <3>1. c \notin 1 .. n
      BY <1>1
    <3> QED  BY <1>8, <1>10, <3>1
  <2>3. ASSUME NEW e \in met PROVE e \in M
    <3>1. e \in (1 .. n) \X (1 .. n) /\ e[2] \in GL!Range(parents[e[1]])
      BY <1>11, <2>3
    <3>2. e[1] \in 1 .. n /\ e[2] \in 1 .. n /\ e = <<e[1], e[2]>>
      BY <3>1
    <3> QED  BY <1>7, <3>1, <3>2
  <2>4. ASSUME NEW e \in New PROVE e \in M
    <3>1. PICK b \in 1 .. n : e = <<b, c>> /\ r.node \in GL!Through(r, lines[b])
      BY <2>4
    <3>2. c \in GL!Range(parents'[b]) /\ b \in 1 .. c /\ c \in 1 .. c
      BY <1>1, <1>7, <2>2, <3>1
    <3> QED  BY <3>1, <3>2
  <2>5. ASSUME NEW e \in M PROVE e \in met \cup New
    <3>1. e[1] \in 1 .. c /\ e[2] \in 1 .. c /\ e = <<e[1], e[2]>> /\ e[2] \in GL!Range(parents'[e[1]])
      BY <2>5
    <3>2. e[1] \in 1 .. n /\ e[2] \in GL!Range(parents[e[1]])
      BY <1>7, <1>12, <3>1
    <3>3. CASE e[2] = c
      BY <2>2, <3>1, <3>2, <3>3
    <3>4. CASE e[2] \in 1 .. n
      <4>1. e \in (1 .. n) \X (1 .. n)
        BY <3>1, <3>2, <3>4
      <4> QED  BY <1>11, <3>2, <4>1
    <3> QED  BY <1>7, <3>1, <3>3, <3>4
  <2> HIDE DEF M, New
  <2>6. met' = M
    BY <2>1, <2>3, <2>4, <2>5
  <2> QED  BY <2>6 DEF M
<1>15. ASSUME NEW b \in 1 .. c
       PROVE  {lanes'[i].wait : i \in lines'[b]} = GL!Range(parents'[b]) \ 1 .. c
  <2>1. CASE b = c
    <3>1. {lanes'[i].wait : i \in lines'[c]} = {ls[i].wait : i \in lines'[c]}
      <4>1. \A i \in lines'[c] : lanes'[i] = ls[i]
        BY <1>6, <1>9
      <4> QED  BY <4>1
    <3> QED  BY <1>7, <1>9, <1>12, <2>1, <3>1
  <2>2. CASE b \in 1 .. n
    <3>1. \A i \in lines'[b] : lanes'[i].wait = lanes[i].wait
      BY <1>5, <1>6, <1>8, <2>2
    <3>2. {lanes'[i].wait : i \in lines'[b]} = {lanes[i].wait : i \in lines[b]} \ {c}
      <4>1. lines'[b] = {i \in lines[b] : lanes[i].wait # c}
        BY <1>8, <2>2
      <4> QED  BY <3>1, <4>1
    <3>3. 1 .. c = 1 .. n \cup {c}
      BY <1>1
    <3> QED  BY <1>7, <1>10, <2>2, <3>2, <3>3
  <2> QED  BY <1>7, <2>1, <2>2
<1>16. {<<s.to, s.color>> : s \in GL!Half(row', "bottom")} = {<<i, lanes'[i].color>> : i \in GL!Active(lanes')}
  <2>1. GL!Half(row', "bottom") = Bottoms(r.segments)
    BY <1>3 DEF GL!Half, Bottoms
  <2>2. /\ \A s \in Bottoms(r.segments) : s.to \in GL!Active(ls) /\ s.color = ls[s.to].color
        /\ \A i \in GL!Active(ls) : \E s \in Bottoms(r.segments) : s.to = i
    BY <1>4 DEF Drawn, ls
  <2>3. \A i \in GL!Active(ls) : lanes'[i].color = ls[i].color
    BY <1>6
  <2> QED  BY ONLY <1>6, <2>1, <2>2, <2>3
<1>17. \A s \in row'.segments : s.from <= row'.width /\ s.to <= row'.width
  <2>1. row' = r /\ r.width = Len(ls)
    BY <1>3, <1>5
  <2>2. ASSUME NEW s \in Bottoms(r.segments) PROVE s.from \in DOMAIN ls /\ s.to \in DOMAIN ls
    BY <1>4, <1>5 DEF Drawn, ls
  <2>3. ASSUME NEW s \in Tops(lanes, c, r.node) PROVE s.from \in DOMAIN ls /\ s.to \in DOMAIN ls
    <3>1. PICK i \in GL!Active(lanes) :
            s = GL!Top(i, IF i \in GL!Waits(lanes, c) THEN r.node ELSE i, lanes[i].color)
      BY <2>3 DEF Tops
    <3>2. i \in DOMAIN ls
      <4>1. i \in 1 .. Len(lanes) /\ Len(lanes) \in Nat
        BY <1>1, LanesFacts
      <4> QED  BY <1>5, <4>1
    <3> QED  BY <1>5, <3>1, <3>2, SegmentFields
  <2>4. \A s \in r.segments : s \in Bottoms(r.segments) \/ s \in Tops(lanes, c, r.node)
    BY <1>4 DEF Drawn, Bottoms
  <2>5. \A i \in DOMAIN ls : i <= Len(ls)
    BY <1>5
  <2> QED  BY <2>1, <2>2, <2>3, <2>4, <2>5
<1>18. LinesLeadToParents'
  <2>1. Len(parents') = c
    BY <1>7
  <2> HIDE DEF c
  <2> QED  BY <1>14, <1>15, <1>16, <1>17, <2>1 DEF LinesLeadToParents, GL!LinesLeadToParents
<1> QED  BY <1>13, <1>18 DEF GraphInv

LEMMA GraphStep == ASSUME GraphInv, [GL!Next]_GL!vars PROVE GraphInv'
<1>1. CASE GL!Next
  BY <1>1, PushKeeps DEF GL!Next
<1>2. CASE UNCHANGED GL!vars
  BY <1>2 DEF GL!vars, GraphInv, GraphTypes, LanesOK, GL!Active, LinesLeadToParents,
              GL!LinesLeadToParents, GL!Half
<1> QED  BY <1>1, <1>2

LEMMA InitGraph == GL!Init => GraphInv
<1> SUFFICES ASSUME GL!Init PROVE GraphInv
  OBVIOUS
<1>1. /\ lanes = <<>> /\ parents = <<>> /\ lines = <<>> /\ met = {}
      /\ Len(parents) = 0 /\ 1 .. 0 = {} /\ DOMAIN lanes = {} /\ DOMAIN parents = {} /\ DOMAIN lines = {}
      /\ row.segments = {}
  BY DEF GL!Init, GL!NoRow
<1>2. GL!Active(lanes) = {} /\ GL!Half(row, "bottom") = {}
  BY <1>1 DEF GL!Active, GL!Half
<1>3. GraphTypes
  <2>1. lanes \in Seq(Lane) /\ parents \in Seq(Seq(Nat \ {0}))
    BY <1>1
  <2> QED  BY <1>1, <2>1 DEF GraphTypes, LanesOK
<1>4. LinesLeadToParents
  BY <1>1, <1>2 DEF LinesLeadToParents, GL!LinesLeadToParents
<1> QED  BY <1>3, <1>4 DEF GraphInv

LEMMA Drawing == Spec => GL!Init /\ [][GL!Next]_GL!vars
<1>1. Init => GL!Init
  BY DEF Init
<1>2. [Next]_vars => [GL!Next]_GL!vars
  BY DEF Next, vars, graphVars, GL!vars
<1> QED  BY <1>1, <1>2, PTL DEF Spec

(* Every lane holds what it waits for, and the lines under each commit are  *)
(* in lanes of the last row.                                                *)
THEOREM GraphInvariance == Spec => []GraphInv
<1>1. GL!Init => GraphInv
  BY InitGraph
<1>2. GraphInv /\ [GL!Next]_GL!vars => GraphInv'
  BY GraphStep
<1> QED  BY <1>1, <1>2, Drawing, PTL

(* The lines drawn under a commit lead to each of its parents and to no     *)
(* other commit, each enters a row in the colour it left the last one with, *)
(* and a row is as wide as what is drawn in it (Layout::push), for any log, *)
(* any number of parents and any number of colours.                         *)
THEOREM LinesLead == Spec => []LinesLeadToParents
<1>1. GraphInv => LinesLeadToParents
  BY DEF GraphInv
<1> QED  BY <1>1, GraphInvariance, PTL

-----------------------------------------------------------------------------
(* The pane follows its repository.                                         *)
ReadKinds == {"status", "refs", "log"}
Now(kind) == {j \in reading : j.kind = kind /\ j.gen = generation}
Settled(kind) == Now(kind) = {}
Real(j) == j.saw # PR!Unread /\ j.saw # PR!Failed
Seen(j) == IF j.saw = PR!Unread THEN head ELSE j.saw
ReadsOf(h, g) == [kind : ReadKinds, gen : 1 .. g, n : Nat, saw : {PR!Unread, PR!Failed} \cup 1 .. h]

PaneTypes ==
  /\ head \in 1 .. MaxCommits /\ watched \in BOOLEAN
  /\ generation \in Nat \ {0} /\ refetched \in 0 .. generation
  /\ status \in 0 .. head /\ targets \in 0 .. head
  /\ commits \in Seq(Nat) /\ hasMore \in BOOLEAN /\ loading \in BOOLEAN
  /\ reading \subseteq ReadsOf(head, generation)

(* Of each kind at most one read of this generation is under way.           *)
OneInv ==
  \A j, k \in reading : j.kind = k.kind /\ j.gen = generation /\ k.gen = generation => j = k

NewInv ==
  /\ \A j \in Now("status") : Real(j) => status <= j.saw
  /\ \A j \in Now("refs") : Real(j) => targets <= j.saw

(* The repository does not change before it is read for the first time.     *)
LoadInv == ~PR!FirstLoaded =>
  /\ status \in {0, head} /\ targets \in {0, head}
  /\ \A j \in reading : j.gen = generation /\ Real(j) => j.saw = head

(* The graph is the top of the log v.                                       *)
Part(s, v) == s = PR!LogPage(v, Len(s))

View(v) == Part(commits, v) /\ (hasMore \/ commits = PR!Log(v))

(* A graph of v is newer than what is last seen of status or refs, or a     *)
(* change of it has the graph read again.                                   *)
Covered(v) ==
  IF ~PR!FirstLoaded \/ (~watched /\ refetched = generation) THEN v = head
  ELSE IF refetched # generation THEN status <= v \/ targets <= v
  ELSE (status <= v /\ Settled("status")) \/ (targets <= v /\ Settled("refs"))

(* A page of a newer log went below the rows of an older one; the change    *)
(* between them is not yet seen, and will have the graph read again.        *)
Doomed ==
  /\ PR!FirstLoaded /\ (status < head \/ targets < head)
  /\ refetched = generation => watched /\ Settled("status") /\ Settled("refs")

ViewInv == Doomed \/ \E v \in 1 .. head : View(v) /\ Covered(v)

PageInv ==
  /\ loading => \E j \in reading : j.kind = "log"
  /\ ~hasMore => commits # <<>>
  /\ \A j \in Now("log") :
       /\ j.n > Len(commits)
       /\ j.saw # PR!Failed => Covered(Seen(j))
       /\ commits # <<>> => Settled("status") /\ Settled("refs")
       /\ refetched # generation =>
            (status # 0 => Settled("status")) /\ (targets # 0 => Settled("refs"))

PaneInv == PaneTypes /\ OneInv /\ NewInv /\ LoadInv /\ ViewInv /\ PageInv

(* What this proof takes from the user and the repository.                  *)
Gentle == {"load", "twice", "poll", "page"} \subseteq Careful

LEMMA PaneConstants ==
  /\ First \in Nat \ {0} /\ Batch \in Nat \ {0} /\ MaxCommits \in Nat
  /\ PR!Unread = 0 /\ PR!Failed = MaxCommits + 1
BY ConstantsAssumption DEF PR!ConstantsOK, PR!Unread, PR!Failed

LEMMA ReadsFacts ==
  ASSUME PaneTypes, NEW j \in reading
  PROVE  /\ j.kind \in ReadKinds /\ j.gen \in 1 .. generation /\ j.n \in Nat
         /\ j.saw \in {PR!Unread, PR!Failed} \cup 1 .. head
         /\ Real(j) <=> j.saw \in 1 .. head
         /\ Seen(j) \in 1 .. head \/ j.saw = PR!Failed
<1>1. j \in ReadsOf(head, generation)
  BY DEF PaneTypes
<1>2. /\ j.kind \in ReadKinds /\ j.gen \in 1 .. generation /\ j.n \in Nat
      /\ j.saw \in {PR!Unread, PR!Failed} \cup 1 .. head
  BY <1>1 DEF ReadsOf
<1>3. head \in Nat /\ head <= MaxCommits /\ head >= 1 /\ 0 \notin 1 .. head /\ MaxCommits + 1 \notin 1 .. head
  BY PaneConstants DEF PaneTypes
<1> QED  BY <1>2, <1>3, PaneConstants DEF Real, Seen

LEMMA ReadIs ==
  ASSUME NEW k, NEW n
  PROVE  /\ PR!Job(k, n).kind = k /\ PR!Job(k, n).gen = generation /\ PR!Job(k, n).n = n
         /\ PR!Job(k, n).saw = PR!Unread
BY DEF PR!Job

LEMMA ReadTypes ==
  ASSUME NEW k \in ReadKinds, NEW n \in Nat, NEW h \in Nat, generation \in Nat \ {0}
  PROVE  PR!Job(k, n) \in ReadsOf(h, generation)
BY DEF PR!Job, ReadsOf

LEMMA NextReadIs ==
  ASSUME NEW k \in ReadKinds, NEW m \in Nat \ {0}, NEW h \in Nat
  PROVE  LET r == [PR!Job(k, 0) EXCEPT !.gen = m]
         IN r.kind = k /\ r.gen = m /\ r.saw = PR!Unread /\ r \in ReadsOf(h, m)
BY DEF PR!Job, ReadsOf

(* What leaves the reads of status and refs of this generation as they are, *)
(* or ends some.                                                            *)
LEMMA SameCover ==
  ASSUME UNCHANGED <<head, watched, generation, refetched, status, targets>>,
         Settled("status") => Settled("status")', Settled("refs") => Settled("refs")'
  PROVE  /\ \A v : Covered(v) => Covered(v)'
         /\ Doomed => Doomed'
<1>1. PR!FirstLoaded' <=> PR!FirstLoaded
  BY DEF PR!FirstLoaded
<1> QED  BY <1>1 DEF Covered, Doomed

LEMMA ViewKept ==
  ASSUME ViewInv, UNCHANGED <<commits, hasMore>>, Doomed => Doomed',
         \A v \in 1 .. head : Covered(v) => v \in 1 .. head' /\ Covered(v)'
  PROVE  ViewInv'
<1>1. \A v : View(v) => View(v)'
  BY DEF View
<1> QED  BY <1>1 DEF ViewInv

LEMMA CommitsKeeps ==
  ASSUME PaneInv, Gentle, PR!Commits
  PROVE  PaneInv'
<1>1. /\ head < MaxCommits /\ PR!FirstLoaded /\ (~watched => reading = {} /\ refetched # generation)
      /\ head' = head + 1
      /\ UNCHANGED <<watched, generation, refetched, status, targets, commits, hasMore, loading, reading>>
  BY DEF PR!Commits, Gentle
<1>2. /\ head \in Nat /\ status \in Nat /\ targets \in Nat /\ head' \in 1 .. MaxCommits
      /\ 1 .. head \subseteq 1 .. head' /\ 0 .. head \subseteq 0 .. head' /\ head' \in 1 .. head'
      /\ status <= head /\ targets <= head
  BY <1>1, PaneConstants DEF PaneInv, PaneTypes
<1>3. PaneTypes'
  <2>1. ReadsOf(head, generation) \subseteq ReadsOf(head', generation)
    BY <1>2 DEF ReadsOf
  <2> QED  BY <1>1, <1>2, <2>1 DEF PaneInv, PaneTypes
<1>4. OneInv' /\ NewInv'
  BY <1>1 DEF PaneInv, OneInv, NewInv, Now, Real
<1>5. PR!FirstLoaded' /\ Settled("status")' = Settled("status") /\ Settled("refs")' = Settled("refs")
  BY <1>1 DEF PR!FirstLoaded, Settled, Now
<1>6. LoadInv'
  BY <1>5 DEF LoadInv
<1>7. ASSUME NEW v \in 1 .. head, Covered(v) PROVE v \in 1 .. head' /\ Covered(v)'
  BY <1>1, <1>2, <1>5, <1>7 DEF Covered
<1>8. Doomed => Doomed'
  BY <1>1, <1>2, <1>5 DEF Doomed
<1>9. ViewInv'
  BY <1>1, <1>7, <1>8, ViewKept DEF PaneInv
<1>10. PageInv'
  <2>1. ASSUME NEW j \in Now("log") PROVE j.saw # PR!Failed => Covered(Seen(j))'
    <3>1. watched /\ j \in reading
      BY <1>1, <2>1 DEF Now
    <3>2. CASE j.saw = PR!Unread
      <4>1. Covered(head)
        BY <2>1, <3>2, PaneConstants DEF PaneInv, PageInv, Seen
      <4>2. ASSUME NEW v, v = head' PROVE Covered(v)'
        BY <1>1, <1>2, <1>5, <3>1, <4>1, <4>2 DEF Covered
      <4>3. Seen(j)' = head'
        BY <3>2 DEF Seen
      <4>4. Covered(Seen(j))'
        <5>1. PICK v : v = Seen(j)'
          OBVIOUS
        <5>2. Covered(v)'
          BY <4>2, <4>3, <5>1
        <5> QED  BY <5>1, <5>2 DEF Covered
      <4> QED  BY <4>4
    <3>3. CASE Real(j)
      <4>1. Covered(j.saw) /\ j.saw \in 1 .. head
        BY <2>1, <3>1, <3>3, ReadsFacts DEF PaneInv, PageInv, Seen, Real
      <4>2. Covered(j.saw)'
        BY <1>7, <4>1
      <4> QED  BY <3>3, <4>2 DEF Seen, Real
    <3> QED  BY <3>2, <3>3 DEF Real
  <2> QED  BY <1>1, <1>5, <2>1 DEF PaneInv, PageInv, Now
<1> QED  BY <1>3, <1>4, <1>6, <1>9, <1>10 DEF PaneInv

(* A new generation.                                                        *)
LEMMA RefreshedKeeps ==
  ASSUME PaneInv, PR!Refreshed(reading),
         UNCHANGED <<head, watched, refetched, status, targets, commits, hasMore, loading>>
  PROVE  PaneInv'
<1> DEFINE New == {[PR!Job(k, 0) EXCEPT !.gen = generation + 1] : k \in {"status", "refs"}}
<1>1. generation' = generation + 1 /\ reading' = reading \cup New
  BY DEF PR!Refreshed
<1>2. /\ head \in Nat /\ generation \in Nat \ {0} /\ generation + 1 \in Nat \ {0} /\ refetched \in 0 .. generation
      /\ \A v \in 1 .. head : v \in Nat
      /\ status \in 0 .. head /\ targets \in 0 .. head
  BY PaneConstants DEF PaneInv, PaneTypes
<1>3. \A j \in New : /\ j.kind \in {"status", "refs"} /\ j.gen = generation + 1 /\ j.saw = PR!Unread
                     /\ j \in ReadsOf(head, generation + 1)
                     /\ \A k \in New : j.kind = k.kind => j = k
  <2> DEFINE N(k) == [PR!Job(k, 0) EXCEPT !.gen = generation + 1]
  <2>1. ASSUME NEW k \in {"status", "refs"}
        PROVE  N(k).kind = k /\ N(k).gen = generation + 1 /\ N(k).saw = PR!Unread /\ N(k) \in ReadsOf(head, generation + 1)
    <3>1. k \in ReadKinds
      BY DEF ReadKinds
    <3> QED  BY <1>2, <3>1, NextReadIs
  <2>2. New = {N(k) : k \in {"status", "refs"}}
    OBVIOUS
  <2> HIDE DEF N, New
  <2> QED  BY <2>1, <2>2
<1>4. \A j \in reading : j.gen \in 1 .. generation /\ j.gen # generation + 1
  BY <1>2, ReadsFacts DEF PaneInv
<1> HIDE DEF New
<1>5. PaneTypes'
  <2>1. ReadsOf(head, generation) \subseteq ReadsOf(head, generation + 1)
    BY <1>2 DEF ReadsOf
  <2>2. refetched' \in 0 .. generation'
    BY <1>1, <1>2
  <2> QED  BY <1>1, <1>2, <1>3, <2>1, <2>2 DEF PaneInv, PaneTypes
<1>6. OneInv'
  BY <1>1, <1>3, <1>4 DEF OneInv
<1>7. \A j \in reading' : j.gen = generation' => j \in New /\ ~(j.saw # PR!Unread /\ j.saw # PR!Failed) /\ j.kind # "log"
  BY <1>1, <1>3, <1>4
<1>8. NewInv'
  BY <1>7 DEF NewInv, Now, Real
<1>9. PR!FirstLoaded' <=> PR!FirstLoaded
  BY DEF PR!FirstLoaded
<1>10. LoadInv'
  BY <1>7, <1>9 DEF PaneInv, LoadInv, Real
<1>11. refetched' # generation'
  BY <1>1, <1>2
<1>12. ASSUME NEW v \in 1 .. head, Covered(v) PROVE v \in 1 .. head' /\ Covered(v)'
  BY <1>2, <1>9, <1>11, <1>12 DEF Covered
<1>13. Doomed => Doomed'
  BY <1>9, <1>11 DEF Doomed
<1>14. ViewInv'
  BY <1>12, <1>13, ViewKept DEF PaneInv
<1>15. PageInv'
  BY <1>1, <1>7 DEF PaneInv, PageInv, Now
<1> QED  BY <1>5, <1>6, <1>8, <1>10, <1>14, <1>15 DEF PaneInv

LEMMA PollKeeps ==
  ASSUME PaneInv, Gentle, PR!Poll
  PROVE  PaneInv'
<1> DEFINE New == {PR!Job("status", 0), PR!Job("refs", 0)}
<1>1. /\ ~watched /\ reading = {} /\ reading' = New
      /\ UNCHANGED <<head, watched, generation, refetched, status, targets, commits, hasMore, loading>>
  BY DEF PR!Poll, Gentle
<1>2. head \in Nat /\ generation \in Nat \ {0}
  BY PaneConstants DEF PaneInv, PaneTypes
<1>3. \A j \in New : /\ j.kind \in {"status", "refs"} /\ j.saw = PR!Unread
                     /\ j \in ReadsOf(head, generation)
                     /\ \A k \in New : j.kind = k.kind => j = k
  <2>1. ASSUME NEW k \in {"status", "refs"}
        PROVE  PR!Job(k, 0).kind = k /\ PR!Job(k, 0).saw = PR!Unread /\ PR!Job(k, 0) \in ReadsOf(head, generation)
    <3>1. k \in ReadKinds
      BY DEF ReadKinds
    <3> QED  BY <1>2, <3>1, ReadIs, ReadTypes
  <2>2. \A j \in New : \E k \in {"status", "refs"} : j = PR!Job(k, 0)
    OBVIOUS
  <2> HIDE DEF New
  <2> QED  BY <2>1, <2>2
<1> HIDE DEF New
<1>4. PaneTypes'
  BY <1>1, <1>3 DEF PaneInv, PaneTypes
<1>5. OneInv'
  BY <1>1, <1>3 DEF OneInv
<1>6. \A j \in reading' : ~(j.saw # PR!Unread /\ j.saw # PR!Failed) /\ j.kind # "log"
  BY <1>1, <1>3
<1>7. NewInv'
  BY <1>6 DEF NewInv, Now, Real
<1>8. PR!FirstLoaded' <=> PR!FirstLoaded
  BY <1>1 DEF PR!FirstLoaded
<1>9. LoadInv'
  BY <1>1, <1>6, <1>8 DEF PaneInv, LoadInv, Real
<1>10. ASSUME NEW v \in 1 .. head, Covered(v) PROVE v \in 1 .. head' /\ Covered(v)'
  BY <1>1, <1>8, <1>10 DEF Covered
<1>11. Doomed => Doomed'
  BY <1>1, <1>8 DEF Doomed
<1>12. ViewInv'
  BY <1>1, <1>10, <1>11, ViewKept DEF PaneInv
<1>13. PageInv'
  BY <1>1, <1>6 DEF PaneInv, PageInv, Now
<1> QED  BY <1>4, <1>5, <1>7, <1>9, <1>12, <1>13 DEF PaneInv

(* The reads under way are the same, or fewer.                              *)
LEMMA FewerKeeps ==
  ASSUME PaneInv, reading' \in SUBSET reading, loading' \in BOOLEAN,
         loading' => \E j \in reading' : j.kind = "log",
         UNCHANGED <<head, watched, generation, refetched, status, targets, commits, hasMore>>
  PROVE  PaneInv'
<1>1. /\ \A kind : Settled(kind) => Settled(kind)'
      /\ \A j \in reading' : j \in reading
  BY DEF Settled, Now
<1>2. PaneTypes' /\ OneInv' /\ NewInv'
  BY <1>1 DEF PaneInv, PaneTypes, OneInv, NewInv, Now, Real
<1>3. LoadInv'
  BY <1>1 DEF PaneInv, LoadInv, PR!FirstLoaded, Real
<1>4. \A v : Covered(v) => Covered(v)'
  BY <1>1, SameCover
<1>5. ViewInv'
  BY <1>1, <1>4, SameCover, ViewKept DEF PaneInv
<1>6. PageInv'
  <2>1. ASSUME NEW j \in reading', j.kind = "log", j.gen = generation
        PROVE  /\ j.n > Len(commits)
               /\ j.saw # PR!Failed => Covered(Seen(j))'
               /\ commits # <<>> => Settled("status")' /\ Settled("refs")'
               /\ refetched # generation =>
                   (status # 0 => Settled("status")') /\ (targets # 0 => Settled("refs")')
    <3>1. j \in Now("log")
      BY <1>1, <2>1 DEF Now
    <3>2. j.saw # PR!Failed => Covered(Seen(j))'
      <4> SUFFICES ASSUME j.saw # PR!Failed PROVE Covered(Seen(j))'
        OBVIOUS
      <4>1. Covered(Seen(j))
        BY <3>1 DEF PaneInv, PageInv
      <4>2. PICK v : v = Seen(j)
        OBVIOUS
      <4>3. Covered(v)'
        BY <1>4, <4>1, <4>2
      <4> QED  BY <4>2, <4>3 DEF Seen, Covered
    <3> QED  BY <1>1, <3>1, <3>2 DEF PaneInv, PageInv
  <2> QED  BY <2>1 DEF PaneInv, PageInv, Now
<1> QED  BY <1>2, <1>3, <1>5, <1>6 DEF PaneInv

LEMMA ScrollKeeps ==
  ASSUME PaneInv, Gentle, PR!Scroll
  PROVE  PaneInv'
<1>0. PICK new : new = PR!Job("log", PR!NextN(Len(commits)))
  OBVIOUS
<1>1. /\ reading = {} /\ reading' = {new} /\ loading' = TRUE
      /\ UNCHANGED <<head, watched, generation, refetched, status, targets, commits, hasMore>>
  BY <1>0 DEF PR!Scroll, Gentle
<1>2. head \in 1 .. MaxCommits /\ head \in 1 .. head /\ generation \in Nat \ {0} /\ head \in Nat /\ Len(commits) \in Nat
  BY PaneConstants DEF PaneInv, PaneTypes
<1>3. PR!NextN(Len(commits)) \in Nat /\ PR!NextN(Len(commits)) > Len(commits)
  BY <1>2, PaneConstants DEF PR!NextN
<1>4. new.kind = "log" /\ new.n = PR!NextN(Len(commits)) /\ new.saw = PR!Unread /\ new \in ReadsOf(head, generation)
  <2>1. "log" \in ReadKinds
    BY DEF ReadKinds
  <2> QED  BY <1>0, <1>2, <1>3, <2>1, ReadIs, ReadTypes
<1>5. PaneTypes' /\ OneInv' /\ NewInv'
  BY <1>1, <1>4 DEF PaneInv, PaneTypes, OneInv, NewInv, Now
<1>6. Settled("status") /\ Settled("refs") /\ Settled("status")' /\ Settled("refs")'
  BY <1>1, <1>4 DEF Settled, Now
<1>7. LoadInv'
  BY <1>1, <1>4 DEF PaneInv, LoadInv, PR!FirstLoaded, Real
<1>8. ViewInv'
  BY <1>1, <1>6, SameCover, ViewKept DEF PaneInv
<1>9. Covered(head)
  BY <1>2, <1>6 DEF Covered, PaneInv, PaneTypes
<1>10. \A j \in reading' : j = new
  BY <1>1
<1>11. Covered(Seen(new))'
  <2>1. PICK v : v = head
    OBVIOUS
  <2>2. Covered(v)'
    BY <1>1, <1>6, <1>9, <2>1, SameCover
  <2>3. Seen(new)' = v
    BY <1>1, <1>4, <2>1 DEF Seen
  <2>4. PICK w : w = Seen(new)'
    OBVIOUS
  <2> QED  BY <2>2, <2>3, <2>4 DEF Covered
<1>12. PageInv'
  <2>1. ASSUME NEW j \in Now("log")'
        PROVE  /\ (j.n > Len(commits))'
               /\ (j.saw # PR!Failed => Covered(Seen(j)))'
               /\ (commits # <<>> => Settled("status") /\ Settled("refs"))'
               /\ (refetched # generation =>
                    (status # 0 => Settled("status")) /\ (targets # 0 => Settled("refs")))'
    <3>1. j = new
      BY <1>10, <2>1 DEF Now
    <3> QED  BY <1>1, <1>3, <1>4, <1>6, <1>11, <3>1
  <2>2. (~hasMore => commits # <<>>)'
    BY <1>1 DEF PaneInv, PageInv
  <2>3. (loading => \E j \in reading : j.kind = "log")'
    BY <1>1, <1>4
  <2> QED  BY <2>1, <2>2, <2>3 DEF PageInv
<1> QED  BY <1>5, <1>7, <1>8, <1>12 DEF PaneInv

LEMMA ReadsKeeps ==
  ASSUME PaneInv, NEW j \in reading, PR!Reads(j)
  PROVE  PaneInv'
<1>1. PICK v \in {head, PR!Failed} : reading' = (reading \ {j}) \cup {[j EXCEPT !.saw = v]}
  BY DEF PR!Reads
<1>2. /\ j.saw = PR!Unread /\ j.gen = generation
      /\ UNCHANGED <<head, watched, generation, refetched, status, targets, commits, hasMore, loading>>
  BY DEF PR!Reads, PR!Current
<1>3. PICK r : r = [j EXCEPT !.saw = v]
  OBVIOUS
<1>4. /\ j \in ReadsOf(head, generation) /\ head \in 1 .. MaxCommits /\ head \in Nat /\ head \in 1 .. head
      /\ head # PR!Failed /\ head # PR!Unread /\ PR!Failed # PR!Unread
      /\ status <= head /\ targets <= head
  BY PaneConstants DEF PaneInv, PaneTypes
<1>5. r.kind = j.kind /\ r.gen = generation /\ r.n = j.n /\ r.saw = v /\ r \in ReadsOf(head, generation)
  BY <1>2, <1>3, <1>4 DEF ReadsOf
<1>6. reading' = (reading \ {j}) \cup {r} /\ \A k \in reading' : k \in reading \ {j} \/ k = r
  BY <1>1, <1>3
<1>7. PaneTypes'
  BY <1>2, <1>5, <1>6 DEF PaneInv, PaneTypes
<1>8. OneInv'
  BY <1>2, <1>5, <1>6 DEF PaneInv, OneInv
<1>9. NewInv'
  BY <1>2, <1>4, <1>5, <1>6 DEF PaneInv, NewInv, Now, Real
<1>10. LoadInv'
  BY <1>2, <1>5, <1>6 DEF PaneInv, LoadInv, PR!FirstLoaded, Real
<1>11. \A kind : Settled(kind) => Settled(kind)'
  <2>1. ASSUME NEW kind, NEW k \in reading', k.kind = kind, k.gen = generation, Settled(kind) PROVE FALSE
    <3>1. k # r
      BY <1>2, <1>5, <2>1 DEF Settled, Now
    <3> QED  BY <1>6, <2>1, <3>1 DEF Settled, Now
  <2> QED  BY <1>2, <2>1 DEF Settled, Now
<1>12. \A w : Covered(w) => Covered(w)'
  BY <1>2, <1>11, SameCover
<1>13. ViewInv'
  BY <1>2, <1>11, <1>12, SameCover, ViewKept DEF PaneInv
<1>14. ASSUME NEW k \in Now("log")'
       PROVE  /\ k.n > Len(commits)
              /\ k.saw # PR!Failed => Covered(Seen(k))'
              /\ commits # <<>> => Settled("status") /\ Settled("refs")
              /\ refetched # generation =>
                   (status # 0 => Settled("status")) /\ (targets # 0 => Settled("refs"))
  <2>1. k \in reading' /\ k.kind = "log" /\ k.gen = generation
    BY <1>2, <1>14 DEF Now
  <2>2. PICK o \in Now("log") : /\ k.n = o.n
                                /\ k.saw # PR!Failed => o.saw # PR!Failed /\ Seen(k) = Seen(o)
    <3>1. CASE k = r
      <4>1. j \in Now("log") /\ k.n = j.n
        BY <1>2, <1>5, <2>1, <3>1 DEF Now
      <4>2. k.saw # PR!Failed => k.saw = head
        BY <1>5, <3>1
      <4> QED  BY <1>2, <1>4, <4>1, <4>2 DEF Seen
    <3>2. CASE k \in reading
      <4>1. k \in Now("log")
        BY <2>1, <3>2 DEF Now
      <4> QED  BY <4>1
    <3> QED  BY <1>6, <2>1, <3>1, <3>2
  <2>3. k.saw # PR!Failed => Covered(Seen(k))'
    <3> SUFFICES ASSUME k.saw # PR!Failed PROVE Covered(Seen(k))'
      OBVIOUS
    <3>1. PICK w : w = Seen(k)
      OBVIOUS
    <3>2. Covered(w)
      BY <2>2, <3>1 DEF PaneInv, PageInv
    <3>3. Covered(w)' /\ Seen(k)' = w
      BY <1>2, <1>12, <3>1, <3>2 DEF Seen
    <3>4. PICK u : u = Seen(k)'
      OBVIOUS
    <3> QED  BY <3>3, <3>4 DEF Covered
  <2> QED  BY <2>2, <2>3 DEF PaneInv, PageInv
<1>15. loading => \E k \in reading' : k.kind = "log"
  BY <1>5, <1>6 DEF PaneInv, PageInv
<1>16. PageInv'
  <2>1. (~hasMore => commits # <<>>)'
    BY <1>2 DEF PaneInv, PageInv
  <2>2. (loading => \E k \in reading : k.kind = "log")'
    BY <1>2, <1>15
  <2>3. ASSUME NEW k \in Now("log")'
        PROVE  /\ (k.n > Len(commits))'
               /\ (k.saw # PR!Failed => Covered(Seen(k)))'
               /\ (commits # <<>> => Settled("status") /\ Settled("refs"))'
               /\ (refetched # generation =>
                    (status # 0 => Settled("status")) /\ (targets # 0 => Settled("refs")))'
    BY <1>2, <1>11, <1>14
  <2> QED  BY <2>1, <2>2, <2>3 DEF PageInv
<1> QED  BY <1>7, <1>8, <1>9, <1>10, <1>13, <1>16 DEF PaneInv

LEMMA DropsKeeps ==
  ASSUME PaneInv, NEW j \in reading, PR!Drops(j)
  PROVE  PaneInv'
<1>1. /\ loading' = (loading /\ j.kind # "log") /\ reading' = reading \ {j}
      /\ UNCHANGED <<head, watched, generation, refetched, status, targets, commits, hasMore>>
  BY DEF PR!Drops
<1>2. loading' => \E k \in reading' : k.kind = "log"
  BY <1>1 DEF PaneInv, PageInv
<1>3. loading' \in BOOLEAN /\ reading' \in SUBSET reading
  BY <1>1
<1> QED  BY <1>1, <1>2, <1>3, FewerKeeps

(* A log is what it says at each place.                                     *)
LEMMA SameSeq ==
  ASSUME NEW s \in Seq(Nat), NEW t \in Seq(Nat), Len(s) = Len(t), \A i \in 1 .. Len(s) : s[i] = t[i]
  PROVE  s = t
<1>1. s \in [1 .. Len(s) -> Nat] /\ t \in [1 .. Len(s) -> Nat]
  OBVIOUS
<1> QED  BY <1>1

LEMMA LogIs ==
  ASSUME NEW s \in Seq(Nat), NEW v \in Nat
  PROVE  /\ Len(PR!Log(v)) = v /\ PR!Log(v) \in Seq(Nat) /\ \A i \in 1 .. v : PR!Log(v)[i] = v + 1 - i
         /\ Part(s, v) <=> Len(s) <= v /\ \A i \in 1 .. Len(s) : s[i] = v + 1 - i
         /\ s = PR!Log(v) <=> Len(s) = v /\ \A i \in 1 .. Len(s) : s[i] = v + 1 - i
<1> DEFINE l == PR!Log(v)
<1>1. l = [i \in 1 .. v |-> v + 1 - i]
  BY DEF PR!Log
<1>2. l \in [1 .. v -> Nat] /\ \A i \in 1 .. v : l[i] = v + 1 - i
  BY <1>1
<1> HIDE DEF l
<1>3. l \in Seq(Nat) /\ Len(l) = v /\ DOMAIN l = 1 .. v
  BY <1>2
<1>4. s = l <=> Len(s) = v /\ \A i \in 1 .. Len(s) : s[i] = v + 1 - i
  <2>1. ASSUME Len(s) = v, \A i \in 1 .. Len(s) : s[i] = v + 1 - i PROVE s = l
    BY <1>2, <1>3, <2>1, SameSeq
  <2> QED  BY <1>2, <1>3, <2>1
<1>5. Part(s, v) <=> Len(s) <= v /\ \A i \in 1 .. Len(s) : s[i] = v + 1 - i
  <2> DEFINE m == IF Len(s) < v THEN Len(s) ELSE v
             b == SubSeq(l, 1, m)
  <2>1. Part(s, v) <=> s = b
    BY DEF Part, PR!LogPage, l
  <2>2. Len(s) \in Nat /\ m \in Nat /\ m <= Len(l) /\ m <= v /\ m <= Len(s) /\ (Len(s) <= v => m = Len(s))
    BY <1>3
  <2> HIDE DEF m
  <2>3. b \in Seq(Nat) /\ Len(b) = m /\ \A i \in 1 .. m : b[i] = l[i] /\ i \in 1 .. v
    BY <1>3, <2>2
  <2> HIDE DEF b
  <2>4. ASSUME Len(s) <= v, \A i \in 1 .. Len(s) : s[i] = v + 1 - i PROVE s = b
    <3>1. Len(s) = Len(b) /\ \A i \in 1 .. Len(s) : s[i] = b[i]
      BY <1>2, <2>2, <2>3, <2>4
    <3> QED  BY <2>3, <3>1, SameSeq
  <2>5. ASSUME s = b PROVE Len(s) <= v /\ \A i \in 1 .. Len(s) : s[i] = v + 1 - i
    BY <1>2, <2>2, <2>3, <2>5
  <2> QED  BY <2>1, <2>4, <2>5
<1> QED  BY <1>2, <1>3, <1>4, <1>5 DEF l

(* A reply about status or refs.                                            *)
LEMMA ReplyKeeps ==
  ASSUME PaneInv, NEW j \in reading, PR!OnStatus(j) \/ PR!OnRefs(j)
  PROVE  PaneInv' /\ status' >= status /\ targets' >= targets
<1>1. /\ UNCHANGED <<head, watched, generation>>
      /\ j.gen = generation /\ Real(j)
      /\ \/ j.kind = "status" /\ status' = j.saw /\ targets' = targets /\ PR!Follows(status, j)
         \/ j.kind = "refs" /\ targets' = j.saw /\ status' = status /\ PR!Follows(targets, j)
  BY DEF PR!OnStatus, PR!OnRefs, PR!Applies, PR!Current, Real
<1>2. /\ head \in 1 .. MaxCommits /\ head \in Nat /\ head \in 1 .. head
      /\ status \in 0 .. head /\ targets \in 0 .. head /\ generation \in Nat \ {0}
      /\ \A v \in 1 .. head : v \in Nat
  BY PaneConstants DEF PaneInv, PaneTypes
<1>3. j.saw \in 1 .. head /\ j.saw # 0
  BY <1>1, <1>2, ReadsFacts DEF PaneInv
<1>4. status <= status' /\ targets <= targets' /\ status' \in 0 .. head /\ targets' \in 0 .. head
  BY <1>1, <1>2, <1>3 DEF PaneInv, NewInv, Now
<1>5. PR!FirstLoaded => PR!FirstLoaded'
  BY <1>2, <1>4 DEF PR!FirstLoaded
<1>6. \A k \in reading : k.kind = j.kind /\ k.gen = generation => k = j
  BY <1>1 DEF PaneInv, OneInv
<1>7. ~Settled(j.kind)
  BY <1>1 DEF Settled, Now
<1>8. CASE /\ reading' = reading \ {j} /\ UNCHANGED <<refetched, commits, hasMore, loading>>
           /\ refetched # generation => /\ status = 0 \/ status' = status
                                        /\ targets = 0 \/ targets' = targets
  <2>1. /\ \A kind : Settled(kind) => Settled(kind)'
        /\ Settled(j.kind)'
    BY <1>1, <1>6, <1>8 DEF Settled, Now
  <2>2. PaneTypes' /\ OneInv'
    BY <1>1, <1>4, <1>8 DEF PaneInv, PaneTypes, OneInv
  <2>3. NewInv'
    BY <1>1, <1>6, <1>8 DEF PaneInv, NewInv, Now, Real
  <2>4. LoadInv'
    BY <1>1, <1>5, <1>8 DEF PaneInv, LoadInv, Real
  <2>5. ~PR!FirstLoaded => j.saw = head /\ status \in {0, head} /\ targets \in {0, head}
    BY <1>1 DEF PaneInv, LoadInv
  <2>6. ASSUME NEW v \in 1 .. head, Covered(v) PROVE v \in 1 .. head' /\ Covered(v)'
    <3>1. CASE ~PR!FirstLoaded
      <4>1. v = head /\ status' <= head /\ targets' <= head
        BY <1>2, <1>4, <2>6, <3>1 DEF Covered
      <4> QED  BY <1>1, <1>8, <2>1, <4>1 DEF Covered
    <3>2. CASE PR!FirstLoaded /\ ~watched /\ refetched = generation
      BY <1>1, <1>5, <1>8, <2>6, <3>2 DEF Covered
    <3>3. CASE PR!FirstLoaded /\ refetched # generation
      <4>1. status' = status /\ targets' = targets
        BY <1>8, <3>3 DEF PR!FirstLoaded
      <4> QED  BY <1>1, <1>5, <1>8, <2>6, <3>3, <4>1 DEF Covered
    <3>4. CASE PR!FirstLoaded /\ watched /\ refetched = generation
      BY <1>1, <1>5, <1>7, <1>8, <2>1, <2>6, <3>4 DEF Covered
    <3> QED  BY <3>1, <3>2, <3>3, <3>4
  <2>7. Doomed => Doomed'
    <3> SUFFICES ASSUME Doomed PROVE Doomed'
      OBVIOUS
    <3>1. refetched # generation
      BY <1>1, <1>7 DEF Doomed
    <3>2. status' = status /\ targets' = targets
      BY <1>8, <3>1 DEF Doomed, PR!FirstLoaded
    <3> QED  BY <1>1, <1>5, <1>8, <3>1, <3>2 DEF Doomed
  <2>8. ViewInv'
    BY <1>8, <2>6, <2>7, ViewKept DEF PaneInv
  <2>9. PageInv'
    <3>1. (loading => \E k \in reading : k.kind = "log")'
      BY <1>1, <1>8 DEF PaneInv, PageInv
    <3>2. ASSUME NEW k \in Now("log")'
          PROVE  /\ (k.n > Len(commits))'
                 /\ (k.saw # PR!Failed => Covered(Seen(k)))'
                 /\ (commits # <<>> => Settled("status") /\ Settled("refs"))'
                 /\ (refetched # generation =>
                      (status # 0 => Settled("status")) /\ (targets # 0 => Settled("refs")))'
      <4>1. k \in Now("log") /\ k \in reading
        BY <1>1, <1>8, <3>2 DEF Now
      <4>2. (k.saw # PR!Failed => Covered(Seen(k)))'
        <5> SUFFICES ASSUME k.saw # PR!Failed PROVE Covered(Seen(k))'
          OBVIOUS
        <5>1. PICK w : w = Seen(k)
          OBVIOUS
        <5>2. Covered(w) /\ w \in 1 .. head
          BY <4>1, <5>1, ReadsFacts DEF PaneInv, PageInv
        <5>3. Covered(w)' /\ Seen(k)' = w
          BY <1>1, <2>6, <5>1, <5>2 DEF Seen
        <5>4. PICK u : u = Seen(k)'
          OBVIOUS
        <5> QED  BY <5>3, <5>4 DEF Covered
      <4>3. (refetched # generation =>
               (status # 0 => Settled("status")) /\ (targets # 0 => Settled("refs")))'
        <5>1. refetched # generation => (status # 0 => Settled("status")) /\ (targets # 0 => Settled("refs"))
          BY <4>1 DEF PaneInv, PageInv
        <5> QED  BY <1>1, <1>8, <2>1, <5>1
      <4>4. /\ (k.n > Len(commits))'
            /\ (commits # <<>> => Settled("status") /\ Settled("refs"))'
        BY <1>8, <2>1, <4>1 DEF PaneInv, PageInv
      <4> QED  BY <4>2, <4>3, <4>4
    <3>3. (~hasMore => commits # <<>>)'
      BY <1>8 DEF PaneInv, PageInv
    <3> QED  BY <3>1, <3>2, <3>3 DEF PageInv
  <2> QED  BY <1>2, <1>4, <2>2, <2>3, <2>4, <2>8, <2>9 DEF PaneInv
<1>9. CASE /\ refetched # generation /\ refetched' = generation
           /\ \/ j.kind = "status" /\ status \notin {0, j.saw}
              \/ j.kind = "refs" /\ targets \notin {0, j.saw}
           /\ commits' = <<>> /\ hasMore' = TRUE /\ loading' = TRUE
           /\ \E n \in Nat \ {0} : reading' = (reading \ {j}) \cup {PR!Job("log", n)}
  <2>1. PICK n \in Nat \ {0} : reading' = (reading \ {j}) \cup {PR!Job("log", n)}
    BY <1>9
  <2>2. PICK new : new = PR!Job("log", n)
    OBVIOUS
  <2>3. /\ new.kind = "log" /\ new.gen = generation /\ new.n = n /\ new.saw = PR!Unread
        /\ new \in ReadsOf(head, generation)
    <3>1. "log" \in ReadKinds
      BY DEF ReadKinds
    <3> QED  BY <1>2, <2>2, <3>1, ReadIs, ReadTypes
  <2>4. \A k \in reading' : (k \in reading /\ k # j) \/ k = new
    BY <2>1, <2>2
  <2>5. Settled("log")
    BY <1>7, <1>9 DEF PaneInv, PageInv, Settled
  <2>6. PR!FirstLoaded
    BY <1>1, <1>9 DEF PaneInv, LoadInv
  <2>7. /\ Settled("status") => Settled("status")'
        /\ Settled("refs") => Settled("refs")'
        /\ Settled(j.kind)'
    BY <1>1, <1>6, <2>3, <2>4 DEF Settled, Now
  <2>8. PaneTypes'
    <3>1. <<>> \in Seq(Nat) /\ generation \in 0 .. generation
      BY <1>2
    <3> QED  BY <1>1, <1>4, <1>9, <2>3, <2>4, <3>1 DEF PaneInv, PaneTypes
  <2>9. OneInv'
    BY <1>1, <2>3, <2>4, <2>5 DEF PaneInv, OneInv, Settled, Now
  <2>10. NewInv'
    BY <1>1, <1>6, <2>3, <2>4 DEF PaneInv, NewInv, Now, Real
  <2>11. LoadInv'
    BY <1>5, <2>6 DEF LoadInv
  <2>12. ASSUME NEW v, v = head PROVE Covered(v)'
    <3>1. status' <= head /\ targets' <= head
      BY <1>2, <1>4
    <3> QED  BY <1>1, <1>5, <1>9, <2>6, <2>7, <2>12, <3>1 DEF Covered
  <2>13. ViewInv'
    <3>1. PICK v : v = head
      OBVIOUS
    <3>2. Part(<<>>, v)
      <4>1. <<>> \in Seq(Nat) /\ Len(<<>>) = 0 /\ 0 <= v
        BY <1>2, <3>1
      <4>2. v \in Nat /\ \A i \in 1 .. Len(<<>>) : <<>>[i] = v + 1 - i
        BY <1>2, <3>1
      <4> HIDE DEF PR!Log
      <4>3. \A s \in Seq(Nat) : Len(s) <= v /\ (\A i \in 1 .. Len(s) : s[i] = v + 1 - i) => Part(s, v)
        BY <4>2, LogIs
      <4> QED  BY <4>1, <4>2, <4>3
    <3>3. View(v)' /\ Covered(v)' /\ v \in 1 .. head'
      BY <1>1, <1>2, <1>9, <2>12, <3>1, <3>2 DEF View
    <3> QED  BY <3>3 DEF ViewInv
  <2>14. PageInv'
    <3>1. (loading => \E k \in reading : k.kind = "log")'
      BY <2>1, <2>2, <2>3
    <3>2. ASSUME NEW k \in Now("log")'
          PROVE  /\ (k.n > Len(commits))'
                 /\ (k.saw # PR!Failed => Covered(Seen(k)))'
                 /\ (commits # <<>> => Settled("status") /\ Settled("refs"))'
                 /\ (refetched # generation =>
                      (status # 0 => Settled("status")) /\ (targets # 0 => Settled("refs")))'
      <4>1. k = new
        BY <1>1, <2>4, <2>5, <3>2 DEF Settled, Now
      <4>2. Covered(Seen(k))'
        <5>1. Seen(k)' = head
          BY <1>1, <2>3, <4>1 DEF Seen
        <5>2. PICK u : u = Seen(k)'
          OBVIOUS
        <5>3. Covered(u)'
          BY <2>12, <5>1, <5>2
        <5> QED  BY <5>2, <5>3 DEF Covered
      <4>3. (k.n > Len(commits))'
        <5>1. Len(<<>>) = 0 /\ n > 0
          OBVIOUS
        <5> QED  BY <1>9, <2>3, <4>1, <5>1
      <4> QED  BY <1>1, <1>9, <4>2, <4>3
    <3>3. (~hasMore => commits # <<>>)'
      BY <1>9
    <3> QED  BY <3>1, <3>2, <3>3 DEF PageInv
  <2> QED  BY <1>2, <1>4, <2>8, <2>9, <2>10, <2>11, <2>13, <2>14 DEF PaneInv
<1>10. ASSUME NEW old, PR!Follows(old, j)
       PROVE  \/ /\ reading' = reading \ {j} /\ UNCHANGED <<refetched, commits, hasMore, loading>>
                 /\ refetched # generation => old = 0 \/ old = j.saw
              \/ /\ refetched # generation /\ refetched' = generation /\ old \notin {0, j.saw}
                 /\ commits' = <<>> /\ hasMore' = TRUE /\ loading' = TRUE
                 /\ \E n \in Nat \ {0} : reading' = (reading \ {j}) \cup {PR!Job("log", n)}
  <2>1. (IF Len(commits) > First THEN Len(commits) ELSE First) \in Nat \ {0}
    BY PaneConstants DEF PaneInv, PaneTypes
  <2> QED  BY <1>10, <2>1 DEF PR!Follows, PR!Refetch
<1> QED  BY <1>1, <1>8, <1>9, <1>10

LEMMA Joining ==
  ASSUME NEW s \in Seq(Nat), NEW t \in Seq(Nat)
  PROVE  /\ s \o t \in Seq(Nat) /\ Len(s \o t) = Len(s) + Len(t)
         /\ \A i \in 1 .. Len(s) : (s \o t)[i] = s[i]
         /\ \A i \in 1 .. Len(t) : (s \o t)[Len(s) + i] = t[i]
OBVIOUS

(* A page of the log that was asked for below the rows the graph has.       *)
Grown(rows, w, n) ==
  rows \o SubSeq(PR!LogPage(w, n), Len(rows) + 1, Len(PR!LogPage(w, n)))

LEMMA PageIs ==
  ASSUME NEW rows \in Seq(Nat), NEW w \in Nat \ {0}, NEW n \in Nat, n > Len(rows)
  PROVE  /\ Grown(rows, w, n) \in Seq(Nat) /\ Grown(rows, w, n) # <<>>
         /\ Part(rows, w) =>
              /\ Part(Grown(rows, w, n), w)
              /\ Len(PR!LogPage(w, n)) >= n \/ Grown(rows, w, n) = PR!Log(w)
<1> DEFINE q == Grown(rows, w, n)
           page == PR!LogPage(w, n)
           m == IF n < w THEN n ELSE w
           L == Len(rows)
           rest == SubSeq(page, L + 1, m)
<1>1. PR!Log(w) \in Seq(Nat) /\ Len(PR!Log(w)) = w /\ \A i \in 1 .. w : PR!Log(w)[i] = w + 1 - i
  BY LogIs
<1>2. L \in Nat /\ m \in 1 .. w /\ m \in Nat /\ m <= n /\ (m >= n \/ m = w)
  OBVIOUS
<1>3. page \in Seq(Nat) /\ Len(page) = m /\ \A i \in 1 .. m : page[i] = w + 1 - i
  <2>1. page = SubSeq(PR!Log(w), 1, m)
    BY DEF PR!LogPage
  <2> HIDE DEF page, m
  <2> QED  BY <1>1, <1>2, <2>1
<1>4. q = rows \o rest
  BY <1>3 DEF Grown
<1>r. rows \in Seq(Nat)
  OBVIOUS
<1> HIDE DEF page, m, q
<1>5. /\ rest \in Seq(Nat) /\ Len(rest) = IF L + 1 <= m THEN m - L ELSE 0
      /\ \A i \in 1 .. Len(rest) : rest[i] = page[L + i] /\ L + i \in 1 .. m
  BY <1>2, <1>3
<1> HIDE DEF rest
<1>6. /\ q \in Seq(Nat) /\ Len(q) = L + Len(rest)
      /\ \A i \in 1 .. L : q[i] = rows[i]
      /\ \A i \in 1 .. Len(rest) : q[L + i] = rest[i]
  <2>1. Len(rest) \in Nat /\ rest \in Seq(Nat)
    BY <1>5
  <2> QED  BY ONLY <1>4, <1>r, <2>1, Joining
<1>7. q # <<>>
  <2>1. Len(q) >= 1
    <3>1. CASE L + 1 <= m
      BY <1>2, <1>5, <1>6, <3>1
    <3>2. CASE ~(L + 1 <= m)
      BY <1>2, <1>5, <1>6, <3>2
    <3> QED  BY <3>1, <3>2
  <2> QED  BY <2>1
<1>8. ASSUME Part(rows, w)
      PROVE  Part(q, w) /\ (m >= n \/ q = PR!Log(w))
  <2>1. L <= w /\ \A i \in 1 .. L : rows[i] = w + 1 - i
    BY <1>8, LogIs
  <2>2. L <= m
    BY <1>2, <2>1
  <2>3. Len(q) = m
    BY <1>2, <1>5, <1>6, <2>2
  <2>4. \A i \in 1 .. Len(q) : q[i] = w + 1 - i
    <3>1. ASSUME NEW i \in L + 1 .. m PROVE q[i] = w + 1 - i
      <4>1. PICK k : k = i - L
        OBVIOUS
      <4>2. k \in 1 .. Len(rest) /\ i = L + k
        <5> HIDE DEF L
        <5>1. Len(rest) \in Nat /\ m = L + Len(rest)
          BY <1>5, <1>6, <2>3
        <5> QED  BY <1>2, <4>1, <5>1
      <4>3. q[i] = page[i] /\ i \in 1 .. m
        BY <1>5, <1>6, <4>2
      <4> QED  BY <1>3, <4>3
    <3>2. \A i \in 1 .. m : i \in 1 .. L \/ i \in L + 1 .. m
      BY <1>2
    <3> QED  BY <1>6, <2>1, <2>3, <3>1, <3>2
  <2>5. Len(q) <= w /\ w \in Nat /\ q \in Seq(Nat)
    BY <1>2, <1>6, <2>3
  <2>6. Part(q, w)
    BY <2>4, <2>5, LogIs
  <2>7. m = w => q = PR!Log(w)
    BY <2>3, <2>4, <2>5, LogIs
  <2> QED  BY <1>2, <2>6, <2>7
<1> QED  BY <1>3, <1>6, <1>7, <1>8 DEF page, q

LEMMA LogPageKeeps ==
  ASSUME PaneInv, NEW j \in reading, PR!OnLogPage(j)
  PROVE  PaneInv'
<1> DEFINE w == j.saw
           page == PR!LogPage(w, j.n)
<1>1. /\ UNCHANGED <<head, watched, generation, refetched, status, targets>>
      /\ j.kind = "log" /\ j.gen = generation /\ Real(j)
      /\ hasMore' = (Len(page) >= j.n) /\ loading' = FALSE /\ reading' = reading \ {j}
      /\ commits' = commits \o SubSeq(page, Len(commits) + 1, Len(page))
  BY DEF PR!OnLogPage, PR!Applies, PR!Current, Real
<1>2. j \in Now("log") /\ w \in 1 .. head /\ Seen(j) = w /\ j.n \in Nat /\ w # PR!Failed
  BY <1>1, ReadsFacts DEF PaneInv, Now, Seen, Real
<1>3. j.n > Len(commits) /\ Covered(w) /\ (commits # <<>> => Settled("status") /\ Settled("refs"))
  BY <1>2 DEF PaneInv, PageInv
<1>4. commits \in Seq(Nat) /\ w \in Nat \ {0} /\ head \in Nat
  BY <1>2, PaneConstants DEF PaneInv, PaneTypes
<1>5. /\ commits' \in Seq(Nat) /\ commits' # <<>>
      /\ Part(commits, w) =>
           /\ Part(commits', w)
           /\ Len(page) >= j.n \/ commits' = PR!Log(w)
  <2>1. PICK rows, q : rows = commits /\ q = commits'
    OBVIOUS
  <2>2. rows \in Seq(Nat) /\ j.n > Len(rows)
    BY <1>3, <1>4, <2>1
  <2>3. q = Grown(rows, w, j.n)
    BY <1>1, <2>1 DEF Grown
  <2>4. /\ q \in Seq(Nat) /\ q # <<>>
        /\ Part(rows, w) =>
             /\ Part(q, w)
             /\ Len(page) >= j.n \/ q = PR!Log(w)
    <3>1. PICK v, n : v = w /\ n = j.n
      OBVIOUS
    <3>2. v \in Nat \ {0} /\ n \in Nat /\ n > Len(rows)
      BY <1>2, <1>4, <2>2, <3>1
    <3>3. q = Grown(rows, v, n)
      BY <2>3, <3>1
    <3>4. /\ q \in Seq(Nat) /\ q # <<>>
          /\ Part(rows, v) =>
               /\ Part(q, v)
               /\ Len(PR!LogPage(v, n)) >= n \/ q = PR!Log(v)
      BY <2>2, <3>2, <3>3, PageIs
    <3> QED  BY <3>1, <3>4
  <2> QED  BY <2>1, <2>4
<1>6. /\ \A kind : Settled(kind) => Settled(kind)'
      /\ \A k \in reading' : k \in reading /\ k # j
  BY <1>1 DEF Settled, Now
<1>7. PaneTypes' /\ OneInv' /\ NewInv'
  <2>1. hasMore' \in BOOLEAN /\ loading' \in BOOLEAN
    <3>1. (Len(page) >= j.n) \in BOOLEAN
      OBVIOUS
    <3> HIDE DEF page
    <3> QED  BY <1>1, <3>1
  <2> QED  BY <1>1, <1>5, <1>6, <2>1 DEF PaneInv, PaneTypes, OneInv, NewInv, Now, Real
<1>8. LoadInv'
  BY <1>1, <1>6 DEF PaneInv, LoadInv, PR!FirstLoaded, Real
<1>9. ViewInv'
  <2>1. CASE Part(commits, w)
    <3>1. PICK v : v = w
      OBVIOUS
    <3>2. View(v)'
      BY <1>1, <1>5, <2>1, <3>1 DEF View
    <3>3. Covered(v)' /\ v \in 1 .. head'
      BY <1>1, <1>2, <1>3, <1>6, <3>1, SameCover
    <3> QED  BY <3>2, <3>3 DEF ViewInv
  <2>2. CASE ~Part(commits, w)
    <3>1. Doomed
      <4> SUFFICES ASSUME ~Doomed PROVE Doomed
        OBVIOUS
      <4>1. PICK v \in 1 .. head : View(v) /\ Covered(v)
        BY DEF PaneInv, ViewInv
      <4>2. v # w /\ v \in Nat
        BY <2>2, <4>1, <1>4 DEF View
      <4>3. commits # <<>>
        <5>1. ASSUME commits = <<>> PROVE Part(commits, w)
          <6>1. Len(commits) <= w /\ \A i \in 1 .. Len(commits) : commits[i] = w + 1 - i
            BY <1>4, <5>1
          <6> QED  BY <1>4, <6>1, LogIs
        <5> QED  BY <2>2, <5>1
      <4>4. PR!FirstLoaded /\ ~(~watched /\ refetched = generation)
        BY <1>3, <4>1, <4>2 DEF Covered
      <4>5. status \in Nat /\ targets \in Nat
        BY <1>4 DEF PaneInv, PaneTypes
      <4>6. watched \in BOOLEAN
        BY DEF PaneInv, PaneTypes
      <4>7. status < head \/ targets < head
        <5>1. (status <= v \/ targets <= v) /\ (status <= w \/ targets <= w)
          BY <1>3, <4>1, <4>4 DEF Covered
        <5>2. v <= head /\ w <= head /\ (v < head \/ w < head)
          BY <1>2, <1>4, <4>2
        <5> QED  BY <1>4, <4>2, <4>5, <5>1, <5>2
      <4> QED  BY <1>3, <4>3, <4>4, <4>6, <4>7 DEF Doomed
    <3>2. Doomed'
      BY <1>1, <1>6, <3>1, SameCover
    <3> QED  BY <3>2 DEF ViewInv
  <2> QED  BY <2>1, <2>2
<1>10. PageInv'
  <2>1. Now("log")' = {}
    BY <1>1, <1>6 DEF PaneInv, OneInv, Now
  <2> QED  BY <1>1, <1>5, <2>1 DEF PageInv
<1> QED  BY <1>7, <1>8, <1>9, <1>10 DEF PaneInv

LEMMA PaneStep ==
  ASSUME PaneInv, Gentle, [PR!Next]_PR!vars
  PROVE  PaneInv' /\ status' >= status /\ targets' >= targets
<1>1. status \in Nat /\ targets \in Nat
  BY PaneConstants DEF PaneInv, PaneTypes
<1>2. CASE PR!Commits
  BY <1>1, <1>2, CommitsKeeps DEF PR!Commits
<1>3. CASE PR!Refresh
  BY <1>1, <1>3, RefreshedKeeps DEF PR!Refresh
<1>4. CASE PR!Poll
  BY <1>1, <1>4, PollKeeps DEF PR!Poll
<1>5. CASE PR!SetOnline
  <2>1. UNCHANGED <<head, watched, refetched, status, targets, commits, hasMore, loading>>
    BY <1>5 DEF PR!SetOnline
  <2>2. CASE PR!Refreshed(reading)
    BY <1>1, <2>1, <2>2, RefreshedKeeps
  <2>3. CASE UNCHANGED <<generation, reading>>
    <3>1. /\ reading' \in SUBSET reading /\ loading' \in BOOLEAN
          /\ loading' => \E j \in reading' : j.kind = "log"
      BY <2>1, <2>3 DEF PaneInv, PaneTypes, PageInv
    <3> QED  BY <1>1, <2>1, <2>3, <3>1, FewerKeeps
  <2> QED  BY <1>5, <2>2, <2>3 DEF PR!SetOnline
<1>6. CASE PR!Scroll
  BY <1>1, <1>6, ScrollKeeps DEF PR!Scroll
<1>7. ASSUME NEW j \in reading, PR!Reads(j) PROVE PaneInv' /\ status' >= status /\ targets' >= targets
  BY <1>1, <1>7, ReadsKeeps DEF PR!Reads
<1>8. ASSUME NEW j \in reading, PR!Drops(j) PROVE PaneInv' /\ status' >= status /\ targets' >= targets
  BY <1>1, <1>8, DropsKeeps DEF PR!Drops
<1>9. ASSUME NEW j \in reading, PR!OnStatus(j) \/ PR!OnRefs(j)
      PROVE  PaneInv' /\ status' >= status /\ targets' >= targets
  BY <1>9, ReplyKeeps
<1>10. ASSUME NEW j \in reading, PR!OnLogPage(j) PROVE PaneInv' /\ status' >= status /\ targets' >= targets
  <2>1. PaneInv'
    BY <1>10, LogPageKeeps
  <2>2. UNCHANGED <<status, targets>>
    BY <1>10 DEF PR!OnLogPage
  <2> QED  BY <1>1, <2>1, <2>2
<1>11. CASE UNCHANGED PR!vars
  <2>1. /\ UNCHANGED <<head, watched, generation, refetched, status, targets, commits, hasMore>>
        /\ reading' \in SUBSET reading /\ loading' \in BOOLEAN
        /\ loading' => \E j \in reading' : j.kind = "log"
    BY <1>11 DEF PR!vars, PaneInv, PaneTypes, PageInv
  <2> QED  BY <1>1, <2>1, FewerKeeps
<1> QED  BY <1>2, <1>3, <1>4, <1>5, <1>6, <1>7, <1>8, <1>9, <1>10, <1>11 DEF PR!Next

LEMMA InitPane == PR!Init => PaneInv
<1> SUFFICES ASSUME PR!Init PROVE PaneInv
  OBVIOUS
<1>1. /\ head \in 1 .. MaxCommits /\ watched \in BOOLEAN /\ generation = 1 /\ refetched = 0
      /\ status = 0 /\ targets = 0 /\ commits = <<>> /\ hasMore = TRUE /\ loading = TRUE
      /\ reading = {PR!Job("status", 0), PR!Job("refs", 0), PR!Job("log", First)}
  BY DEF PR!Init
<1>2. head \in Nat /\ head \in 1 .. head /\ First \in Nat \ {0} /\ ~PR!FirstLoaded
  BY <1>1, PaneConstants DEF PR!FirstLoaded
<1>3. PICK s, r, l : s = PR!Job("status", 0) /\ r = PR!Job("refs", 0) /\ l = PR!Job("log", First)
  OBVIOUS
<1>4. /\ reading = {s, r, l} /\ s.kind = "status" /\ r.kind = "refs" /\ l.kind = "log" /\ l.n = First
      /\ s.saw = PR!Unread /\ r.saw = PR!Unread /\ l.saw = PR!Unread
  BY <1>1, <1>3, ReadIs
<1>5. s \in ReadsOf(head, 1) /\ r \in ReadsOf(head, 1) /\ l \in ReadsOf(head, 1)
  <2>1. {"status", "refs", "log"} \subseteq ReadKinds /\ 0 \in Nat /\ generation \in Nat \ {0}
    BY <1>1 DEF ReadKinds
  <2> QED  BY <1>1, <1>2, <1>3, <2>1, ReadTypes
<1>6. PaneTypes
  <2>1. <<>> \in Seq(Nat) /\ 0 \in 0 .. head /\ 0 \in 0 .. 1
    BY <1>2
  <2>2. reading \subseteq ReadsOf(head, generation)
    BY <1>1, <1>4, <1>5
  <2>3. status \in 0 .. head /\ targets \in 0 .. head /\ refetched \in 0 .. generation /\ generation \in Nat \ {0}
    BY <1>1, <2>1
  <2>4. commits \in Seq(Nat) /\ hasMore \in BOOLEAN /\ loading \in BOOLEAN
    BY <1>1
  <2> QED  BY <1>1, <2>2, <2>3, <2>4 DEF PaneTypes
<1>7. OneInv /\ NewInv /\ LoadInv
  BY <1>1, <1>4 DEF OneInv, NewInv, LoadInv, Now, Real
<1>8. Covered(head)
  BY <1>2 DEF Covered
<1>9. ViewInv
  <2>1. Part(commits, head)
    <3>1. commits \in Seq(Nat) /\ Len(commits) <= head /\ \A i \in 1 .. Len(commits) : commits[i] = head + 1 - i
      BY <1>1, <1>2
    <3> QED  BY <1>2, <3>1, LogIs
  <2> QED  BY <1>1, <1>2, <1>8, <2>1 DEF ViewInv, View
<1>10. PageInv
  <2>1. \A j \in Now("log") : j = l
    BY <1>4 DEF Now
  <2>2. Seen(l) = head /\ Len(commits) = 0
    BY <1>1, <1>4 DEF Seen
  <2>3. /\ l.n > Len(commits) /\ Covered(Seen(l)) /\ commits = <<>>
        /\ status = 0 /\ targets = 0
    BY <1>1, <1>2, <1>4, <1>8, <2>2
  <2>4. hasMore /\ \E j \in reading : j.kind = "log"
    BY <1>1, <1>4
  <2> HIDE DEF Seen, Covered
  <2> QED  BY <2>1, <2>3, <2>4 DEF PageInv
<1> QED  BY <1>6, <1>7, <1>9, <1>10 DEF PaneInv

LEMMA Following == Spec => PR!Init /\ [][PR!Next]_PR!vars
<1>1. Init => PR!Init
  BY DEF Init
<1>2. [Next]_vars => [PR!Next]_PR!vars
  BY DEF Next, vars, refreshVars, PR!vars
<1> QED  BY <1>1, <1>2, PTL DEF Spec

(* The graph is the top of a log that no later change of status or refs has *)
(* overtaken, or such a change is yet to be seen and has it read again.     *)
THEOREM PaneInvariance == ASSUME Gentle PROVE Spec => []PaneInv
<1>1. PR!Init => PaneInv
  BY InitPane
<1>2. PaneInv /\ [PR!Next]_PR!vars => PaneInv'
  BY PaneStep
<1> QED  BY <1>1, <1>2, Following, PTL

(* Once the newest status and refs are read the graph is the top of the log *)
(* without a row missing or doubled, and no reply takes the pane back       *)
(* (gen_is_current, maybe_refetch_log, apply_log_page), for a repository    *)
(* that does not change while a polled pane reads it.                       *)
THEOREM PaneCurrent == ASSUME Gentle PROVE Spec => PaneIsCurrent
<1>1. PaneInv => PR!GraphIsCurrent
  <2> SUFFICES ASSUME PaneInv PROVE PR!GraphIsCurrent
    OBVIOUS
  <2>1. loading => \E j \in reading : j.kind = "log"
    BY DEF PaneInv, PageInv
  <2>2. ASSUME PR!AtRest, status = head, targets = head
        PROVE  commits # <<>> /\ Part(commits, head) /\ (hasMore \/ commits = PR!Log(head))
    <3>1. head \in 1 .. MaxCommits /\ head \in Nat /\ \A v \in 1 .. head : v \in Nat /\ v <= head
      BY PaneConstants DEF PaneInv, PaneTypes
    <3>2. ~Doomed
      BY <2>2, <3>1 DEF Doomed
    <3>3. PICK v \in 1 .. head : View(v) /\ Covered(v)
      BY <3>2 DEF PaneInv, ViewInv
    <3>4. v = head
      BY <2>2, <3>1, <3>3 DEF Covered
    <3>5. commits # <<>>
      BY <2>1, <2>2 DEF PaneInv, PageInv, PR!AtRest, PR!WantsMore
    <3> QED  BY <3>3, <3>4, <3>5 DEF View
  <2> QED  BY <2>1, <2>2 DEF PR!GraphIsCurrent, Part
<1>2. PaneInv /\ [PR!Next]_PR!vars => [status' >= status /\ targets' >= targets]_PR!vars
  BY PaneStep
<1>3. Spec => []PR!GraphIsCurrent
  BY <1>1, PaneInvariance, PTL
<1>4. Spec => PR!StatusNeverGoesBack
  BY <1>2, PaneInvariance, Following, PTL DEF PR!StatusNeverGoesBack
<1> QED  BY <1>3, <1>4, PTL DEF PaneIsCurrent
=============================================================================
