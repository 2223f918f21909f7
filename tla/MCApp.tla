------------------------------- MODULE MCApp --------------------------------
(***************************************************************************)
(* The parts of the app, in one run: they share nothing, and a behaviour   *)
(* is one of one of them while the others rest.                            *)
(***************************************************************************)
EXTENDS Naturals

CONSTANTS
  Files, NoFile, MaxChanges, Quiet,
  Roots, Folder, Inside, Hosted, Repos, Remotes, None, MaxIds, Restores,
  MaxPanes, MaxDepth, MaxHooks,
  StaleAfter, Cap, MaxNow, MaxReports, MaxRows,
  Ids, MaxEpoch, MaxPorts, MaxOut, Patient,
  MaxOsc, MaxReads

VARIABLES
  part, \* the part that moves
  changes, app, mem, dirty, queue, writers, tmp, file, content,
  repos, place, active, nextId, live, jobs,
  tabs, activeTab, nextTab, made, terms, trackers, hooks, late,
  now, current, reports, visible, rows, nextRow, saved, pushed,
  phase, epoch, running, ports, workers, events, handling, shows, left,
  forwards, pending, open, asked, wanted, typed,
  reads, stream, scanner, said

fileVars == <<changes, app, mem, dirty, queue, writers, tmp, file, content>>
treeVars == <<repos, place, active, nextId, live, jobs>>
tabVars == <<tabs, activeTab, nextTab, made, terms, trackers, hooks, late>>
statusVars == <<now, current, reports, visible, rows, nextRow, saved, pushed>>
remoteVars == <<phase, epoch, running, ports, workers, events, handling, shows, left,
                forwards, pending, open, asked, wanted, typed>>
oscVars == <<reads, stream, scanner, said>>
vars == <<part, fileVars, treeVars, tabVars, statusVars, remoteVars, oscVars>>

KittyChunks ==
  [t1  |-> [id |-> 1, part |-> "title", done |-> FALSE],
   b1d |-> [id |-> 1, part |-> "body", done |-> TRUE],
   q2d |-> [id |-> 2, part |-> "?", done |-> TRUE]]

SF == INSTANCE StateFile
WS == INSTANCE Workspaces
TB == INSTANCE Tabs
AG == INSTANCE AgentStatus WITH nextId <- nextRow
RW == INSTANCE RemoteWorkspaces WITH live <- shows, closed <- left, out <- events
OS == INSTANCE OscScanner WITH Chunk <- KittyChunks, out <- said

ASSUME ConstantsAssumption ==
  /\ SF!ConstantsOK /\ WS!ConstantsOK /\ TB!ConstantsOK
  /\ AG!ConstantsOK /\ RW!ConstantsOK /\ OS!ConstantsOK

Init ==
  /\ part \in {"file", "workspaces", "tabs", "status", "remote", "osc"}
  /\ SF!Init /\ WS!Init /\ TB!Init /\ AG!Init /\ RW!Init /\ OS!Init

Next ==
  /\ UNCHANGED part
  /\ \/ /\ part = "file" /\ SF!Next
        /\ UNCHANGED <<treeVars, tabVars, statusVars, remoteVars, oscVars>>
     \/ /\ part = "workspaces" /\ WS!Next
        /\ UNCHANGED <<fileVars, tabVars, statusVars, remoteVars, oscVars>>
     \/ /\ part = "tabs" /\ TB!Next
        /\ UNCHANGED <<fileVars, treeVars, statusVars, remoteVars, oscVars>>
     \/ /\ part = "status" /\ AG!Next
        /\ UNCHANGED <<fileVars, treeVars, tabVars, remoteVars, oscVars>>
     \/ /\ part = "remote" /\ RW!Next
        /\ UNCHANGED <<fileVars, treeVars, tabVars, statusVars, oscVars>>
     \/ /\ part = "osc" /\ OS!Next
        /\ UNCHANGED <<fileVars, treeVars, tabVars, statusVars, remoteVars>>

FairSpec == Init /\ [][Next]_vars
  /\ WF_fileVars(part = "file" /\ SF!Persist) /\ WF_fileVars(part = "file" /\ SF!Saves)

\* state.json is whole whenever it may be read, and a quit keeps the latest.
SavedIsWhole == SF!SavedIsWhole

\* What was saved is never taken back, and every change of an app that stays
\* up is saved.
ChangesReachDisk ==
  /\ [][part = "file" => SF!Stored' >= SF!Stored]_fileVars
  /\ part = "file" => SF!ChangesAreSaved

\* Each workspace is in one place of the sidebar, and the one shown runs.
SidebarIsSound == WS!SidebarIsSound

\* No workspace disappears but with a close or its repository forgotten.
OnlyClosingCloses == WS!OnlyClosingCloses

\* Tabs, their trees, their panes and their terminals agree, and so do the
\* statuses of a local workspace.
TabsAreSound == TB!TabsAreSound

\* The status shown is the strongest report's, the panel keeps the newest
\* rows, and what was read stays read.
UserIsTold == AG!UserIsTold

\* Terminals, git panes and `--run` follow the host's connection.
HostIsFollowed == RW!HostIsFollowed

\* Open forwards are listed under a workspace there is.
ForwardsAreListed == RW!ForwardsAreListed

\* The scanner reports what the stream says.
ReportsTheStream == OS!ReportsTheStream
=============================================================================
