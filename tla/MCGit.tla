------------------------------- MODULE MCGit --------------------------------
(***************************************************************************)
(* The parts of the git pane, in one run: they share nothing that is       *)
(* modelled, and a behaviour is one of one of them while the others rest.  *)
(***************************************************************************)
EXTENDS Naturals

CONSTANTS
  First, Batch, MaxCommits, MaxGen, MaxReading, Careful,
  MaxDrawn, MaxParents, Colors,
  x, y, Texts, MaxLines, MaxEdits, MaxClicks, Context, Absent, Fresh,
  Originals, MaxMade, MaxRuns, Actions, Later, Calm,
  MaxJobs, Patience

VARIABLES
  part, \* the part that moves
  head, watched, noticed, online, generation, refetched, status, targets, commits,
  hasMore, loading, reading,
  lanes, parents, row, lines, met,
  committed, index, work, nextId, clicks, side, diff, last,
  branch, made, repo, files, ranging, editor, own, probe, active, journal, ended, dropped, runs,
  upstream, dirty, due, undoBusy, running, git, reply, setting, prompt, form, confirm,
  thenPush, asked, failures, shown, pending, recorded, landed, jobs

refreshVars == <<head, watched, noticed, online, generation, refetched, status, targets,
                 commits, hasMore, loading, reading>>
graphVars == <<lanes, parents, row, lines, met>>
hunkVars == <<committed, index, work, nextId, clicks, side, diff, last>>
rebaseVars == <<branch, made, repo, files, ranging, editor, own, probe, active, journal,
                ended, dropped, runs>>
syncVars == <<upstream, dirty, due, undoBusy, running, git, reply, setting, prompt, form,
              confirm, thenPush, asked, failures, shown, pending, recorded, landed, jobs>>
vars == <<part, refreshVars, graphVars, hunkVars, rebaseVars, syncVars>>

\* three lines alike, two that differ, or none
Contents == {<<x, x, x>>, <<x, y>>, <<>>}

PR == INSTANCE PaneRefresh
GL == INSTANCE GraphLanes WITH MaxCommits <- MaxDrawn
HS == INSTANCE HunkStaging WITH head <- committed, Committed <- Contents
RR == INSTANCE RebaseRun WITH reading <- ranging
SJ == INSTANCE SyncJobs WITH Careful <- Patience, journal <- recorded

ASSUME ConstantsAssumption ==
  /\ PR!ConstantsOK /\ GL!ConstantsOK /\ HS!ConstantsOK /\ RR!ConstantsOK /\ SJ!ConstantsOK

Init ==
  /\ part \in {"refresh", "graph", "hunks", "rebase", "sync"}
  /\ PR!Init /\ (part # "refresh" => head = 1 /\ watched)
  /\ GL!Init
  /\ IF part = "hunks" THEN HS!Init
     ELSE /\ committed = Absent /\ index = Absent /\ work = Absent
          /\ nextId = 0 /\ clicks = 0 /\ side = "unstaged" /\ diff = {} /\ last = {}
  /\ RR!Init
  /\ SJ!Init /\ (part # "sync" => upstream /\ dirty)

Next ==
  /\ UNCHANGED part
  /\ \/ /\ part = "refresh" /\ PR!Next
        /\ UNCHANGED <<graphVars, hunkVars, rebaseVars, syncVars>>
     \/ /\ part = "graph" /\ GL!Next
        /\ UNCHANGED <<refreshVars, hunkVars, rebaseVars, syncVars>>
     \/ /\ part = "hunks" /\ HS!Next
        /\ UNCHANGED <<refreshVars, graphVars, rebaseVars, syncVars>>
     \/ /\ part = "rebase" /\ RR!Next
        /\ UNCHANGED <<refreshVars, graphVars, hunkVars, syncVars>>
     \/ /\ part = "sync" /\ SJ!Next
        /\ UNCHANGED <<refreshVars, graphVars, hunkVars, rebaseVars>>

Spec == Init /\ [][Next]_vars

\* Once the newest status and refs are read the graph is the top of the log,
\* and no reply takes the pane back to an older state.
PaneIsCurrent == []PR!GraphIsCurrent /\ PR!StatusNeverGoesBack

\* The lines drawn lead from each commit to its parents.
LinesLeadToParents == GL!LinesLeadToParents

\* A patch made from a diff that holds does what was shown, and only that.
OnlyWhatWasPicked == part = "hunks" => HS!OnlyWhatWasPicked

\* A rebase loses nothing its plan keeps, and gives each commit its message.
RebaseIsThePlan == RR!RebaseIsThePlan

\* A stopped rebase is held with its files, a finished one journaled once.
RunsAreTracked == RR!RunsAreTracked

\* No push runs but those asked for.
PushesAreAsked == SJ!PushesAreAsked

\* A pull or push that ended well is journaled, whatever was cancelled.
EndedIsReported == SJ!EndedIsReported
=============================================================================
