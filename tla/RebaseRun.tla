----------------------------- MODULE RebaseRun -----------------------------
(***************************************************************************)
(* The interactive rebase (src/git/rebase.rs and the pane's rebase.rs): a  *)
(* plan is made from a range read some time ago, git runs it with amalgum  *)
(* as its two editors, stops on an edit or on conflicts, and is continued  *)
(* or aborted by the pane or in a terminal; the pane polls it meanwhile.   *)
(*                                                                         *)
(* A commit is what it holds, a set of original commits, and what it says. *)
(* git's own part (its todo, its prompts, its stops) is external.  A git   *)
(* that has stopped and the reading of where it did are one step.          *)
(***************************************************************************)
EXTENDS Naturals, Sequences, SequencesExt, FiniteSets

CONSTANTS
  Originals, \* commits of the branch at first
  MaxMade,   \* bound: commits made in a terminal, by a user or an agent
  MaxRuns,   \* bound: rebases started
  Actions,   \* what a step may do, a subset of Action
  Later,     \* bound: what it may do in the rebases after the first
  Calm       \* TRUE: the user makes a plan only once the pane is done with the last rebase

Action == {"pick", "reword", "edit", "squash", "fixup", "drop"}
ConstantsOK ==
  /\ Originals \in Nat \ {0} /\ MaxMade \in Nat /\ MaxRuns \in Nat
  /\ Actions \subseteq Action /\ "pick" \in Actions
  /\ Later \subseteq Action /\ Calm \in BOOLEAN

VARIABLES
  branch,  \* the commits of the branch, oldest first
  made,    \* commits made in a terminal so far
  repo,    \* git's rebase directory
  files,   \* runs whose plan and messages are on disk
  reading, \* the HEAD a range being read started from
  editor,  \* the plan being edited: the HEAD and the commits it was read at
  own,     \* the pane's start, continue or abort, or its reply
  probe,   \* the pane's poll of a stopped rebase, or its reply
  active,  \* RebaseState::active: the session of a stopped rebase
  journal, \* entries recorded
  ended,   \* history: how the rebases ended, and what the plans the pane alone ran meant
  dropped, \* history: commits that a plan git took drops
  runs

vars == <<branch, made, repo, files, reading, editor, own, probe, active, journal,
          ended, dropped, runs>>

None == [kind |-> "none"]
Own == <<0>>
Combined == <<1>>
NoText == <<>>
Text(run, i) == <<run, i>>

Holds(commits) == UNION {commits[i].of : i \in DOMAIN commits}

-----------------------------------------------------------------------------
\* Plans: one step for each commit, in the range's order

Melds(s) == s.action \in {"squash", "fixup"}
InChain(s) == Melds(s) \/ s.action = "drop"

\* the chain of melds and drops that a first meld a begins
EndOfChain(plan, a) ==
  CHOOSE b \in a .. Len(plan) :
    /\ \A i \in a .. b : InChain(plan[i])
    /\ b < Len(plan) => ~InChain(plan[b + 1])

Starts(plan) ==
  {a \in DOMAIN plan : Melds(plan[a]) /\
     \A i \in 1 .. a - 1 : Melds(plan[i]) => \E k \in i .. a : ~InChain(plan[k])}

Greatest(S) == CHOOSE i \in S : \A j \in S : j <= i

LastText(plan, chain) ==
  LET said == {i \in chain : plan[i].action = "squash" /\ plan[i].text # NoText}
  IN IF said = {} THEN NoText ELSE plan[Greatest(said)].text

\* Plan::prompts and keyed_messages: what the editor helper looks up
Prompt_AtSquash(plan, a) ==
  LET chain == a .. EndOfChain(plan, a)
  IN [step |-> Greatest({i \in chain : plan[i].action = "squash"} \cup {a}), text |-> LastText(plan, chain)]

Prompt(plan, a) ==
  LET chain == a .. EndOfChain(plan, a)
  IN [step |-> Greatest({i \in chain : Melds(plan[i])}), text |-> LastText(plan, chain)]

KeyedMessages(plan) ==
  {[step |-> i, text |-> plan[i].text] : i \in {k \in DOMAIN plan : plan[k].action = "reword" /\ plan[k].text # NoText}}
  \cup {p \in {Prompt(plan, a) : a \in Starts(plan)} : p.text # NoText}

\* Plan::validate
Valid(plan) ==
  \E i \in DOMAIN plan :
    /\ plan[i].action # "drop" /\ ~Melds(plan[i])
    /\ \A k \in 1 .. i - 1 : plan[k].action = "drop"

Offered(run) == IF run = 1 THEN Actions ELSE Later

Steps(commit, run, i) ==
  {[commit |-> commit, action |-> a, text |-> NoText] : a \in Offered(run)}
  \cup {[commit |-> commit, action |-> a, text |-> Text(run, i)] : a \in Offered(run) \cap {"reword", "squash"}}

Plans(commits, run) ==
  LET P[n \in 0 .. Len(commits)] ==
        IF n = 0 THEN {<<>>} ELSE {Append(p, s) : p \in P[n - 1], s \in Steps(commits[n], run, n)}
  IN {p \in P[Len(commits)] : Valid(p) /\ \E i \in DOMAIN p : p[i].action # "pick"}

\* missing_from_plan: git's todo has a commit that the plan has no step for
Missing(plan, commits) == ToSet(commits) \ {plan[i].commit : i \in DOMAIN plan}

-----------------------------------------------------------------------------
Init ==
  /\ branch = [i \in 1 .. Originals |-> [of |-> {i}, says |-> Own]]
  /\ made = 0 /\ repo = None /\ files = {} /\ reading = None /\ editor = None
  /\ own = None /\ probe = None /\ active = None
  /\ journal = <<>> /\ ended = {} /\ dropped = {} /\ runs = 0

\* The pane's worker, or what it posts, is under way.
Running == own # None

\* read_range: HEAD first, which a rebase detaches, then the commits; the plan
\* editor opens
ReadHead ==
  /\ active = None /\ repo = None /\ editor = None /\ reading = None /\ runs < MaxRuns
  /\ Calm => ~Running /\ probe = None
  /\ reading' = [kind |-> "reading", head |-> branch]
  /\ UNCHANGED <<branch, made, repo, files, editor, own, probe, active, journal, ended, dropped, runs>>

OnRange ==
  /\ reading # None /\ reading' = None
  /\ editor' = [kind |-> "editor", head |-> reading.head, commits |-> branch]
  /\ UNCHANGED <<branch, made, repo, files, own, probe, active, journal, ended, dropped, runs>>

\* run_rebase_plan
Start(plan) ==
  /\ editor # None /\ ~Running
  /\ editor' = None /\ runs' = runs + 1
  /\ own' = [kind |-> "start", run |-> runs + 1, head |-> editor.head, plan |-> plan]
  /\ UNCHANGED <<branch, made, repo, files, reading, probe, active, journal, ended, dropped>>

Cancel ==
  /\ editor # None /\ editor' = None
  /\ UNCHANGED <<branch, made, repo, files, reading, own, probe, active, journal, ended, dropped, runs>>

Reply(to, stop) == [kind |-> "reply", to |-> to, stop |-> stop]
Failed == [kind |-> "error"]
Stopped(session) == [kind |-> "stopped", session |-> session]
Done(entry) == [kind |-> "done", entry |-> entry]

\* start, up to git: a rebase in progress, or a HEAD that moved, is refused
StartChecks ==
  /\ own.kind = "start"
  /\ IF repo # None \/ own.head # branch
     THEN own' = Reply("start", Failed) /\ UNCHANGED files
     ELSE /\ files' = files \cup {own.run}
          /\ own' = [kind |-> "begin", session |-> [run |-> own.run, before |-> branch], plan |-> own.plan]
  /\ UNCHANGED <<branch, made, repo, reading, editor, probe, active, journal, ended, dropped, runs>>

\* git rebase -i writes its todo and has apply_sequence_editor put the plan in
\* its place, which refuses when the plan misses a commit
GitBegins ==
  /\ own.kind = "begin"
  /\ IF Missing(own.plan, branch) # {}
     THEN /\ own' = Reply("start", Failed) /\ files' = files \ {own.session.run}
          /\ UNCHANGED <<repo, dropped>>
     ELSE /\ repo' = [kind |-> "rebase", run |-> own.session.run, orig |-> branch, plan |-> own.plan,
                      at |-> 0, built |-> <<>>, stop |-> "no", by |-> "pane", helped |-> TRUE]
          /\ dropped' = dropped \cup
               UNION {own.plan[i].commit.of : i \in {k \in DOMAIN own.plan : own.plan[k].action = "drop"}}
          /\ own' = [kind |-> "git", to |-> "start", session |-> own.session] /\ UNCHANGED files
  /\ UNCHANGED <<branch, made, reading, editor, probe, active, journal, ended, runs>>

\* What the editor leaves as the message of step i: apply_editor writes over
\* it what is keyed by the step git is on (current_step)
Edited(by, i, says) ==
  LET keyed == {m \in KeyedMessages(repo.plan) : m.step = i}
  IN IF by = "pane" /\ keyed # {} THEN (CHOOSE m \in keyed : TRUE).text ELSE says

\* git prompts for a reword, and for the last meld of a chain with a squash
LastMeld(i) == \A k \in i + 1 .. Len(repo.plan) :
                 Melds(repo.plan[k]) => \E m \in i + 1 .. k : ~InChain(repo.plan[m])
Squashes(i) == \E k \in 1 .. i : /\ repo.plan[k].action = "squash"
                                 /\ \A m \in k .. i : InChain(repo.plan[m])

Prompts(i, conflict) ==
  conflict \/ repo.plan[i].action = "reword" \/ (LastMeld(i) /\ Squashes(i))

\* the branch built so far with step i
Built(by, i, conflict) ==
  LET step == repo.plan[i]
      prior == Last(repo.built)
      filled == IF ~Melds(step) THEN step.commit.says ELSE IF Squashes(i) THEN Combined ELSE prior.says
      says == IF Prompts(i, conflict) THEN Edited(by, i, filled) ELSE filled
  IN IF Melds(step) THEN Front(repo.built) \o <<[of |-> prior.of \cup step.commit.of, says |-> says]>>
     ELSE IF step.action = "drop" THEN repo.built
     ELSE Append(repo.built, [of |-> step.commit.of, says |-> says])

\* settle: finished (journaled unless nothing changed), stopped, or an error
Entry(session, now) ==
  IF now = session.before THEN None
  ELSE [kind |-> "entry", run |-> session.run, before |-> session.before, after |-> now]
Settled(session, ok) ==
  IF repo # None THEN Stopped(session) ELSE IF ok THEN Done(Entry(session, branch)) ELSE Failed

Runs(by) == repo # None /\ repo.stop = "no" /\ repo.by = by

\* git takes the next step of the todo; the worker that ran it reads where it
\* stopped and posts it
GitSteps(by) ==
  /\ Runs(by) /\ repo.at < Len(repo.plan)
  /\ \E stop \in {"no", "edit", "conflict"} :
       /\ stop = "edit" <=> repo.plan[repo.at + 1].action = "edit" /\ stop # "conflict"
       /\ stop = "conflict" => repo.plan[repo.at + 1].action # "drop"
       /\ repo' = [repo EXCEPT !.at = @ + 1, !.stop = stop,
                               !.built = IF stop = "conflict" THEN @ ELSE Built(by, repo.at + 1, FALSE)]
       /\ own' = IF stop = "no" \/ by # "pane" THEN own ELSE Reply(own.to, Stopped(own.session))
  /\ UNCHANGED <<branch, made, files, reading, editor, probe, active, journal, ended, dropped, runs>>

\* what a plan means each commit it keeps to say
Meant(plan) ==
  LET heads == {i \in DOMAIN plan : plan[i].action \in {"pick", "reword", "edit"}}
      group(h) == {i \in h .. Len(plan) : \A k \in h + 1 .. i : k \notin heads}
      squashed(h) == \E i \in group(h) : plan[i].action = "squash"
      says(h) == IF LastText(plan, group(h)) # NoText THEN LastText(plan, group(h))
                 ELSE IF squashed(h) THEN Combined
                 ELSE IF plan[h].text # NoText THEN plan[h].text ELSE plan[h].commit.says
      of(h) == UNION {plan[i].commit.of : i \in {k \in group(h) : plan[k].action # "drop"}}
      Kept[i \in 0 .. Len(plan)] ==
        IF i = 0 THEN <<>>
        ELSE IF i \in heads THEN Append(Kept[i - 1], [of |-> of(i), says |-> says(i)]) ELSE Kept[i - 1]
  IN Kept[Len(plan)]

GitEnds(by) ==
  /\ Runs(by) /\ repo.at = Len(repo.plan)
  /\ branch' = repo.built /\ repo' = None
  /\ ended' = ended \cup {[run |-> repo.run, before |-> repo.orig, after |-> branch',
                           meant |-> IF repo.helped THEN Meant(repo.plan) ELSE branch']}
  /\ IF by = "pane"
     THEN own' = Reply(own.to, Done(Entry(own.session, repo.built))) /\ files' = files \ {own.session.run}
     ELSE UNCHANGED <<own, files>>
  /\ UNCHANGED <<made, reading, editor, probe, active, journal, dropped, runs>>

\* a conflict's files are put right, in the pane or outside
Resolve ==
  /\ repo # None /\ repo.stop = "conflict" /\ repo' = [repo EXCEPT !.stop = "resolved"]
  /\ UNCHANGED <<branch, made, files, reading, editor, own, probe, active, journal, ended, dropped, runs>>

\* git rebase --continue: the step it stopped at is committed, and on it goes
Goes(by) ==
  repo' = [repo EXCEPT !.stop = "no", !.by = by, !.helped = @ /\ by = "pane",
                       !.built = IF repo.stop = "resolved" THEN Built(by, repo.at, TRUE) ELSE @]

Waits == repo # None /\ repo.stop \in {"edit", "resolved"}

\* rebase_continue and resume; git refuses over unresolved conflicts, while
\* another git runs, and when there is nothing to continue
Continue ==
  /\ active # None /\ ~Running
  /\ IF Waits
     THEN Goes("pane") /\ own' = [kind |-> "git", to |-> "continue", session |-> active] /\ UNCHANGED files
     ELSE /\ own' = Reply("continue", Settled(active, FALSE)) /\ UNCHANGED repo
          /\ files' = IF repo = None THEN files \ {active.run} ELSE files
  /\ UNCHANGED <<branch, made, reading, editor, probe, active, journal, ended, dropped, runs>>

\* run_rebase_abort and abort
Abort ==
  /\ active # None /\ ~Running
  /\ IF repo # None /\ repo.stop # "no"
     THEN /\ repo' = None /\ files' = files \ {active.run}
          /\ own' = Reply("abort", Done(None))
     ELSE own' = Reply("abort", Failed) /\ UNCHANGED <<repo, files>>
  /\ UNCHANGED <<branch, made, reading, editor, probe, active, journal, ended, dropped, runs>>

\* on_stop
OnStop(stop) ==
  /\ active' = IF stop.kind = "stopped" THEN stop.session ELSE None
  /\ journal' = IF stop.kind = "done" /\ stop.entry # None THEN Append(journal, stop.entry) ELSE journal

\* apply_rebase_reply: Started, Continued and Aborted
OnReply ==
  /\ own.kind = "reply" /\ own' = None
  /\ CASE own.to = "abort" ->
            active' = (IF own.stop = Failed THEN active ELSE None) /\ UNCHANGED journal
       [] own.stop = Failed \/ (own.to = "continue" /\ active = None) -> UNCHANGED <<active, journal>>
       [] OTHER -> OnStop(own.stop)
  /\ UNCHANGED <<branch, made, repo, files, reading, editor, probe, ended, dropped, runs>>

\* show_rebase_overlays polls a stopped rebase; probe reads what it is now
Probe ==
  /\ active # None /\ ~Running /\ probe = None
  /\ probe' = [kind |-> "probe", session |-> active]
  /\ UNCHANGED <<branch, made, repo, files, reading, editor, own, active, journal, ended, dropped, runs>>

ProbeReads ==
  /\ probe.kind = "probe"
  /\ probe' = [kind |-> "probed", stop |-> Settled(probe.session, TRUE)]
  /\ files' = IF repo = None THEN files \ {probe.session.run} ELSE files
  /\ UNCHANGED <<branch, made, repo, reading, editor, own, active, journal, ended, dropped, runs>>

\* Probed: of use only while nothing of the pane's own is under way; a stop
\* only tells where the rebase is
Heeds_Always(stop) == stop.kind = "done"
Heeds(stop) == stop.kind = "done" /\ ~Running /\ active # None

OnProbe ==
  /\ probe.kind = "probed" /\ probe' = None
  /\ IF Heeds(probe.stop) THEN OnStop(probe.stop) ELSE UNCHANGED <<active, journal>>
  /\ UNCHANGED <<branch, made, repo, files, reading, editor, own, ended, dropped, runs>>

\* in a terminal: a commit, a rebase continued without the helpers or aborted
\* (a commit made while the rebase is stopped is git's own affair)
TerminalCommits ==
  /\ repo = None /\ made < MaxMade
  /\ made' = made + 1 /\ branch' = Append(branch, [of |-> {Originals + made'}, says |-> Own])
  /\ UNCHANGED <<repo, files, reading, editor, own, probe, active, journal, ended, dropped, runs>>

TerminalContinues ==
  /\ Waits /\ Goes("terminal")
  /\ UNCHANGED <<branch, made, files, reading, editor, own, probe, active, journal, ended, dropped, runs>>

TerminalAborts ==
  /\ repo # None /\ repo.stop # "no" /\ repo' = None
  /\ UNCHANGED <<branch, made, files, reading, editor, own, probe, active, journal, ended, dropped, runs>>

Next ==
  \/ ReadHead \/ OnRange \/ Cancel
  \/ editor # None /\ ~Running /\ \E plan \in Plans(editor.commits, runs + 1) : Start(plan)
  \/ StartChecks \/ GitBegins \/ Continue \/ Abort \/ OnReply
  \/ GitSteps("pane") \/ GitEnds("pane") \/ GitSteps("terminal") \/ GitEnds("terminal") \/ Resolve
  \/ Probe \/ ProbeReads \/ OnProbe
  \/ TerminalCommits \/ TerminalContinues \/ TerminalAborts

Spec == Init /\ [][Next]_vars

-----------------------------------------------------------------------------
\* A rebase loses no commit its plan does not drop, whoever commits meanwhile;
\* one that the pane alone took to its end leaves the commits that the plan
\* means, each with the message typed for it.
RebaseIsThePlan ==
  /\ 1 .. Originals + made \ dropped \subseteq Holds(IF repo = None THEN branch ELSE repo.orig)
  /\ \A e \in ended : e.after = e.meant

\* A stopped rebase of the pane's is held, with its files, so that it can be
\* continued with its messages; once nothing is under way, a rebase that went
\* to its end is journaled, once, from the branch it started on.
RunsAreTracked ==
  /\ repo # None /\ own = None => active # None /\ active.run = repo.run
  /\ repo # None => repo.run \in files
  /\ \A i, k \in DOMAIN journal : journal[i].run = journal[k].run => i = k
  /\ active = None /\ ~Running => \A e \in ended : e.after # e.before =>
       \E i \in DOMAIN journal : journal[i].run = e.run /\ journal[i].before = e.before
=============================================================================
