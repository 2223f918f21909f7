---------------------------- MODULE MCAppProofs ----------------------------
(***************************************************************************)
(* Proofs about the app's parts, whichever of them moves: its saved state  *)
(* (StateFile), what it tells of an agent (AgentStatus) and its workspaces *)
(* on a host (RemoteWorkspaces), for any number of changes, launches,      *)
(* crashes and files, of reports and rows, of workspaces, ports and epochs.*)
(*                                                                         *)
(* The saved state: one thread writes at a time, into a file that is not   *)
(* the saved one (OneWriter, TmpInv), and what it writes is at least as    *)
(* new as what is saved (AgeInv).  A quit that overtakes the saver breaks  *)
(* the first of these, so they hold while no quit has begun, or of a user  *)
(* who quits only once the saver is done (Calm); the next launch restores  *)
(* them whatever it finds.                                                 *)
(*                                                                         *)
(* The agent: reports that may come late are a hook's, which only a hook's *)
(* replaces (OnTime); the rows' ids fall from the newest on, and the next  *)
(* id is above them all, those saved too (RowsInv).                        *)
(*                                                                         *)
(* The hosts: whatever a poll changes of the connection, it leaves a       *)
(* Changed event behind; until that is handled the workspaces may be       *)
(* behind, and handling it, or no change since, has them in step           *)
(* (FollowInv).  A command waits only where no terminal has started        *)
(* (RunInv).  A port is in one hand: its worker, the event that answers,   *)
(* the list or the worker that closes it (WorkInv, AnswerInv, ClosedInv,   *)
(* ListInv); the last of these needs a user who waits for a forward before *)
(* closing its workspace (Patient).                                        *)
(***************************************************************************)
EXTENDS MCApp, Sequences, FiniteSetTheorems, TLAPS

-----------------------------------------------------------------------------
Writers == {"saver", "quit"}

WriterStates ==
  [at : {"idle", "open", "write", "rename"}, state : 0 .. changes, file : Files \cup {NoFile}]

FileTypes ==
  /\ changes \in 0 .. MaxChanges /\ mem \in 0 .. changes /\ queue \in 0 .. mem
  /\ app \in {"up", "quit", "killed"} /\ dirty \in BOOLEAN
  /\ writers \in [Writers -> WriterStates]
  /\ tmp \in Files \cup {NoFile} /\ file \in Files \cup {NoFile}
  /\ content \in [Files -> 0 .. changes \cup {SF!Half}]

(* No quit is under way or behind us, or quits wait for the saver.          *)
Calm == Quiet \/ (SF!At("quit", "idle") /\ app # "quit")

(* One of the two writes at a time, and the quit has the last change.       *)
OneWriter ==
  /\ ~SF!At("quit", "idle") => /\ SF!At("saver", "idle") /\ queue = 0
                               /\ writers["quit"].state = mem
  /\ app = "quit" => SF!At("saver", "idle") /\ SF!At("quit", "idle") /\ SF!Stored = mem

(* The writer's file is the one with the temporary name, which is not the   *)
(* saved one; it is half-written until all of the state is in it.           *)
TmpInv ==
  /\ tmp # NoFile => tmp # file
  /\ \A w \in Writers :
       /\ SF!At(w, "write") => tmp # NoFile /\ writers[w].file = tmp /\ content[tmp] = SF!Half
       /\ SF!At(w, "rename") => tmp # NoFile /\ content[tmp] = writers[w].state

(* On disk, in the saver's hand, in its channel, in memory: each is at most *)
(* as new as the next.                                                      *)
AgeInv ==
  /\ SF!Stored <= mem
  /\ queue # 0 => SF!Stored <= queue
  /\ \A w \in Writers : ~SF!At(w, "idle") =>
       /\ SF!Stored <= writers[w].state /\ writers[w].state <= mem
       /\ queue # 0 => writers[w].state <= queue

SavedInv == FileTypes /\ (Calm => OneWriter /\ TmpInv /\ AgeInv)

-----------------------------------------------------------------------------
SavedStep == SavedInv' /\ (Calm => SF!Stored' >= SF!Stored)

(* Every step of a frame, of a writer, a launch or a crash preserves the    *)
(* invariant, and takes back nothing saved.                                 *)
LEMMA SavedSteps == ASSUME SF!ConstantsOK, SavedInv, [SF!Next]_SF!vars PROVE SavedStep
<1>1. CASE SF!Launch
  <2> USE DEF SF!ConstantsOK, Writers, WriterStates, SF!Half, SF!States, SF!Idle, SF!At
  <2>1. FileTypes'
    <3>1. mem' \in 0 .. changes
      BY <1>1 DEF SavedInv, FileTypes, SF!Launch, SF!Load
    <3>2. SF!Idle \in WriterStates'
      BY <1>1 DEF SavedInv, FileTypes, SF!Launch, WriterStates
    <3>3. writers' \in [Writers -> WriterStates']
      BY <1>1, <3>2 DEF SF!Launch
    <3>4. queue' \in 0 .. mem' /\ file' \in Files \cup {NoFile} /\ tmp' \in Files \cup {NoFile}
      BY <1>1, <3>1 DEF SavedInv, FileTypes, SF!Launch
    <3>5. UNCHANGED <<changes, content>> /\ app' = "up" /\ dirty' = FALSE
      BY <1>1 DEF SF!Launch
    <3> HIDE DEF WriterStates
    <3> QED  BY <3>1, <3>3, <3>4, <3>5 DEF SavedInv, FileTypes
  <2>2. SF!Stored' = mem' /\ (Calm => SF!Stored' = SF!Stored)
    BY <1>1 DEF SavedInv, FileTypes, AgeInv, SF!Launch, SF!Load, SF!Stored
  <2>3. OneWriter'
    BY <1>1, <2>1 DEF SF!Launch, OneWriter
  <2>4. TmpInv' /\ AgeInv'
    BY <1>1, <2>1, <2>2 DEF SF!Launch, TmpInv, AgeInv, FileTypes
  <2> QED  BY <2>1, <2>2, <2>3, <2>4 DEF SavedStep, SavedInv, FileTypes
\* what the app does in a frame: nothing is written
<1>2. CASE SF!Change \/ SF!Persist \/ SF!Take \/ SF!Quit \/ SF!Crash \/ UNCHANGED SF!vars
  <2> USE DEF SF!ConstantsOK, Writers, WriterStates, SF!Half, SF!Idle, SF!At
  <2>1. CASE SF!Change
    <3>1. writers' \in [Writers -> WriterStates']
      <4>1. WriterStates \subseteq WriterStates'
        BY <2>1 DEF SF!Change, SavedInv, FileTypes
      <4>2. writers' = writers /\ writers \in [Writers -> WriterStates]
        BY <2>1 DEF SF!Change, SavedInv, FileTypes
      <4> HIDE DEF WriterStates
      <4> QED  BY <4>1, <4>2
    <3>2. FileTypes'
      <4> HIDE DEF WriterStates
      <4> QED  BY <2>1, <3>1 DEF SF!Change, SavedInv, FileTypes
    <3>3. Calm => OneWriter' /\ TmpInv'
      BY <2>1 DEF SF!Change, SavedInv, FileTypes, OneWriter, TmpInv, SF!Stored
    <3>4. Calm => AgeInv' /\ SF!Stored' = SF!Stored /\ SF!Stored \in Nat
      BY <2>1 DEF SF!Change, SavedInv, FileTypes, AgeInv, SF!Stored
    <3> QED  BY <2>1, <3>2, <3>3, <3>4 DEF SavedStep, SavedInv, SF!Change, Calm
  <2>2. CASE SF!Persist
    <3>1. FileTypes'
      <4>1. WriterStates' = WriterStates
        BY <2>2 DEF SF!Persist
      <4>2. queue' \in 0 .. mem'
        BY <2>2 DEF SF!Persist, SavedInv, FileTypes
      <4>3. UNCHANGED <<changes, app, mem, writers, tmp, file, content>> /\ dirty' = FALSE
        BY <2>2 DEF SF!Persist
      <4> HIDE DEF WriterStates
      <4> QED  BY <4>1, <4>2, <4>3 DEF SavedInv, FileTypes
    <3>2. Calm => OneWriter' /\ TmpInv'
      BY <2>2 DEF SF!Persist, SavedInv, FileTypes, OneWriter, TmpInv, SF!Stored
    <3>3. Calm => AgeInv' /\ SF!Stored' = SF!Stored /\ SF!Stored \in Nat
      BY <2>2 DEF SF!Persist, SavedInv, FileTypes, AgeInv, SF!Stored
    <3> QED  BY <2>2, <3>1, <3>2, <3>3 DEF SavedStep, SavedInv, SF!Persist, Calm
  <2>3. CASE SF!Take
    <3>1. FileTypes'
      BY <2>3 DEF SF!Take, SavedInv, FileTypes
    <3>2. SF!Stored' = SF!Stored /\ SF!At("quit", "idle")' = SF!At("quit", "idle")
      BY <2>3 DEF SF!Take, SavedInv, FileTypes, SF!Stored
    <3>3. CASE Calm
      <4>1. OneWriter'
        BY <2>3, <3>2, <3>3 DEF SF!Take, SavedInv, FileTypes, OneWriter, SF!Stored
      <4>2. TmpInv'
        BY <2>3, <3>3 DEF SF!Take, SavedInv, FileTypes, TmpInv
      <4>3. AgeInv'
        BY <2>3, <3>2, <3>3 DEF SF!Take, SavedInv, FileTypes, AgeInv, OneWriter
      <4> QED  BY <3>1, <3>2, <4>1, <4>2, <4>3 DEF SavedStep, SavedInv, FileTypes, SF!Stored
    <3> QED  BY <2>3, <3>1, <3>2, <3>3 DEF SavedStep, SavedInv, SF!Take, Calm
  <2>4. CASE SF!Quit
    BY <2>4 DEF SF!Quit, SavedStep, SavedInv, FileTypes, Calm, OneWriter, TmpInv, AgeInv, SF!Stored
  <2>5. CASE SF!Crash
    BY <2>5 DEF SF!Crash, SavedStep, SavedInv, FileTypes, Calm, OneWriter, TmpInv, AgeInv, SF!Stored
  <2>6. CASE UNCHANGED SF!vars
    BY <2>6 DEF SF!vars, SavedStep, SavedInv, FileTypes, Calm, OneWriter, TmpInv, AgeInv, SF!Stored
  <2> QED  BY <1>2, <2>1, <2>2, <2>3, <2>4, <2>5, <2>6
<1>3. ASSUME NEW w \in Writers, SF!Writes(w) \/ SF!Renames(w) \/ \E f \in Files : SF!Opens(w, f)
      PROVE  SavedStep
  <2> USE DEF SF!ConstantsOK, Writers, WriterStates, SF!Half, SF!Idle, SF!At
  <2>1. ASSUME NEW f \in Files, SF!Opens(w, f)  PROVE SavedStep
    BY <2>1 DEF SF!Opens, SF!InUse, SavedStep, SavedInv, FileTypes, Calm, OneWriter, TmpInv, AgeInv, SF!Stored
  <2>2. CASE SF!Writes(w)
    <3>1. PICK c \in {writers[w].state, SF!Half} :
            /\ content' = [content EXCEPT ![writers[w].file] = c]
            /\ content[writers[w].file] = SF!Half => c = writers[w].state
      BY <2>2 DEF SF!Writes
    <3>2. FileTypes'
      BY <2>2, <3>1 DEF SF!Writes, SavedInv, FileTypes
    <3>3. CASE Calm
      <4>1. SF!Stored' = SF!Stored
        BY <2>2, <3>1, <3>3 DEF SF!Writes, SavedInv, FileTypes, TmpInv, SF!Stored
      <4>2. OneWriter'
        BY <2>2, <3>3, <4>1 DEF SF!Writes, SavedInv, FileTypes, OneWriter
      <4>3. TmpInv'
        BY <2>2, <3>1, <3>3 DEF SF!Writes, SavedInv, FileTypes, TmpInv, OneWriter
      <4>4. AgeInv'
        BY <2>2, <3>3, <4>1 DEF SF!Writes, SavedInv, FileTypes, AgeInv
      <4>5. SF!Stored \in Nat
        BY <3>3 DEF SavedInv, FileTypes, AgeInv, SF!Stored
      <4> QED  BY <3>2, <4>1, <4>2, <4>3, <4>4, <4>5 DEF SavedStep, SavedInv
    <3> QED  BY <2>2, <3>2, <3>3 DEF SavedStep, SavedInv, SF!Writes, Calm
  <2>3. CASE SF!Renames(w)
    BY <2>3 DEF SF!Renames, SF!Ends, SavedStep, SavedInv, FileTypes, Calm, OneWriter, TmpInv, AgeInv, SF!Stored
  <2> QED  BY <1>3, <2>1, <2>2, <2>3
<1> QED  BY <1>1, <1>2, <1>3 DEF SF!Next, Writers

LEMMA Saving == SF!ConstantsOK /\ (FairSpec => SF!Init /\ [][SF!Next]_SF!vars)
<1>1. Init => SF!Init
  BY DEF Init
<1>2. [Next]_vars => [SF!Next]_SF!vars
  BY DEF Next, vars, fileVars, SF!vars
<1> QED  BY <1>1, <1>2, ConstantsAssumption, PTL DEF FairSpec

(* The invariant holds, with crashes and quits at any moment.               *)
THEOREM SavedInvariance == FairSpec => []SavedInv
<1>1. SF!Init => SavedInv
  <2> SUFFICES ASSUME SF!Init PROVE SavedInv
    OBVIOUS
  <2>1. SF!Idle \in WriterStates /\ SF!Half \in Nat
    BY Saving DEF SF!ConstantsOK, SF!Init, SF!Idle, WriterStates, SF!Half
  <2>2. FileTypes
    <3>1. content \in [Files -> 0 .. changes \cup {SF!Half}]
      BY <2>1 DEF SF!Init
    <3>2. writers \in [Writers -> WriterStates]
      BY <2>1 DEF SF!Init, Writers
    <3>3. /\ changes = 0 /\ mem = 0 /\ queue = 0 /\ app = "up" /\ dirty = FALSE
          /\ tmp = NoFile /\ file = NoFile
      BY DEF SF!Init
    <3>4. changes \in 0 .. MaxChanges /\ mem \in 0 .. changes /\ queue \in 0 .. mem
      BY <3>3, Saving DEF SF!ConstantsOK
    <3> QED  BY <3>1, <3>2, <3>3, <3>4 DEF FileTypes
  <2> QED  BY <2>2 DEF SF!Init, SavedInv, OneWriter, TmpInv, AgeInv, SF!Stored, SF!At, SF!Idle, Writers
<1>2. SavedInv /\ [SF!Next]_SF!vars => SavedInv'
  BY Saving, SavedSteps DEF SavedStep
<1> QED  BY <1>1, <1>2, Saving, PTL

(* state.json is whole at any point before a quit; and always, with the     *)
(* last change after a quit, if quits wait for the saver (AppState::save,   *)
(* App::on_exit).                                                           *)
THEOREM WholeUntilQuit == FairSpec => [](Calm => SavedIsWhole)
<1>1. SavedInv => (Calm => SavedIsWhole)
  BY Saving DEF SF!ConstantsOK, SavedInv, FileTypes, AgeInv, OneWriter, SavedIsWhole, SF!SavedIsWhole,
         SF!NeverHalfWritten, SF!QuitKeepsLatest, SF!Half, SF!Stored
<1> QED  BY <1>1, SavedInvariance, PTL

(* So of a user who quits only once the saver is done (SF!Quit).           *)
THEOREM SavedWhole == ASSUME Quiet PROVE FairSpec => []SavedIsWhole
<1>1. Calm
  BY DEF Calm
<1>2. (Calm => SavedIsWhole) => SavedIsWhole
  BY <1>1
<1> QED  BY <1>2, WholeUntilQuit, PTL

(* What is on disk only gets newer, over crashes and launches too, under    *)
(* the same conditions (spawn_saver, AppState::load).                       *)
THEOREM NeverTakenBack ==
  FairSpec => [][Calm => SF!Stored' >= SF!Stored]_SF!vars
<1>1. SavedInv /\ [SF!Next]_SF!vars => [Calm => SF!Stored' >= SF!Stored]_SF!vars
  BY Saving, SavedSteps DEF SavedStep
<1> QED  BY <1>1, SavedInvariance, Saving, PTL

-----------------------------------------------------------------------------
Reports == [status : AG!Statuses, source : {AG!ShellIntegration, AG!Osc, AG!Hook}, at : Nat]
Rows == [id : Nat, mine : BOOLEAN, read : BOOLEAN]

ReportType == current \in Seq(Reports) /\ reports \in Seq(Reports) /\ now \in Nat
RowType == rows \in Seq(Rows) /\ saved \in Seq(Rows) /\ nextRow \in Nat /\ pushed \in SUBSET Nat

(* A report is not ahead of the clock, and but a hook's, which a host's     *)
(* queue may have kept, none is older than one before it.                   *)
OnTime ==
  /\ \A i \in DOMAIN reports : reports[i].at <= now
  /\ \A i, j \in DOMAIN reports : i < j /\ reports[j].source # AG!Hook => reports[i].at <= reports[j].at

(* The newest row is first; every id given is below the next.               *)
Falling(s) == \A i, j \in DOMAIN s : i < j => s[i].id > s[j].id
RowsInv ==
  /\ Falling(rows) /\ Falling(saved) /\ Len(saved) <= Cap
  /\ IsFiniteSet(pushed)
  /\ \A id \in pushed : id < nextRow
  
(* PanelKeepsNewest, over the Cardinality that the library's theorems are   *)
(* about.                                                                   *)
Newest ==
  /\ Len(rows) = AG!Min({Cap, Cardinality(pushed)})
  /\ \A i \in DOMAIN rows :
       /\ rows[i].id \in pushed
       /\ Cardinality({id \in pushed : id > rows[i].id}) = i - 1

StatusInv == ReportType /\ OnTime /\ AG!StatusIsStrongest
PanelInv == RowType /\ RowsInv /\ Newest

LEMMA SameNewest == AG!PanelKeepsNewest <=> Newest
  BY DEF AG!PanelKeepsNewest, Newest, AG!Cardinality, Cardinality

(* What the fields of a report are.                                         *)
LEMMA ReportFields ==
  ASSUME NEW r \in Reports
  PROVE  /\ r.source \in Nat /\ r.source <= AG!Hook /\ r.at \in Nat
  BY DEF Reports, AG!ShellIntegration, AG!Osc, AG!Hook

(* A report observed leaves the strongest shown (Tracker::observe).         *)
LEMMA Observed ==
  ASSUME AG!ConstantsOK, StatusInv, NEW status \in AG!Statuses,
         NEW source \in {AG!ShellIntegration, AG!Osc, AG!Hook}, NEW at \in Nat, at <= now,
         source # AG!Hook => at = now, now' = now,
         AG!Observe(status, source, at)
  PROVE  StatusInv'
<1> DEFINE r == [status |-> status, source |-> source, at |-> at]
           n == Len(reports)
<1>1. r \in Reports /\ r.source = source /\ r.at = at
  BY DEF Reports
<1>2. /\ reports' = Append(reports, r)
      /\ current' = IF current = <<>> \/ AG!Accepts(current[1], r) THEN <<r>> ELSE current
  BY DEF AG!Observe
<1> HIDE DEF r
<1>3. StaleAfter \in Nat
  BY DEF AG!ConstantsOK
<1>4. /\ current \in Seq(Reports) /\ reports \in Seq(Reports) /\ now \in Nat /\ n \in Nat
  BY DEF StatusInv, ReportType
<1>5. current = <<>> \/ current[1] \in Reports
  BY <1>4
<1>6. ReportType'
  BY <1>1, <1>2, <1>4 DEF ReportType
<1>7. /\ DOMAIN reports' = 1 .. n + 1
      /\ reports'[n + 1] = r
      /\ \A i \in 1 .. n : reports'[i] = reports[i] /\ reports[i] \in Reports
      /\ DOMAIN reports = 1 .. n
      /\ reports' # <<>>
  BY <1>2, <1>4, <1>1
<1>8. OnTime'
  <2>1. ASSUME NEW i \in DOMAIN reports' PROVE reports'[i].at <= now'
    BY <1>1, <1>7 DEF StatusInv, OnTime
  <2>2. ASSUME NEW i \in DOMAIN reports', NEW j \in DOMAIN reports', i < j, reports'[j].source # AG!Hook
        PROVE  reports'[i].at <= reports'[j].at
    <3>1. CASE j = n + 1
      BY <3>1, <2>1, <2>2, <1>1, <1>7
    <3>2. CASE j # n + 1
      <4>1. i \in 1 .. n /\ j \in 1 .. n
        BY <3>2, <2>2, <1>7, <1>4
      <4> QED  BY <4>1, <2>2, <1>7 DEF StatusInv, OnTime
    <3> QED  BY <3>1, <3>2
  <2> QED  BY <2>1, <2>2 DEF OnTime
<1>9. current' # <<>>
  BY <1>2, <1>4
<1>10. ASSUME NEW i \in DOMAIN reports', AG!Stands(i)'
       PROVE  IF reports'[i].source = AG!Hook THEN current' = <<reports'[i]>>
              ELSE current'[1].source >= reports'[i].source \/ current'[1].at >= reports'[i].at
  <2>1. CASE i = n + 1
    <3>1. CASE current = <<>> \/ AG!Accepts(current[1], r)
      <4>1. current' = <<r>>
        BY <3>1, <1>2
      <4>2. reports'[i] = r /\ r.source \in Nat
        BY <2>1, <1>7, <1>1, ReportFields
      <4> QED  BY <4>1, <4>2
    <3>2. CASE ~(current = <<>> \/ AG!Accepts(current[1], r))
      <4>1. current' = current /\ current # <<>> /\ ~AG!Accepts(current[1], r)
        BY <3>2, <1>2
      <4>2. reports'[i] = r
        BY <2>1, <1>7
      <4>3. current[1] \in Reports
        BY <4>1, <1>5
      <4>4. /\ current[1].source \in Nat /\ current[1].source <= AG!Hook /\ AG!Hook \in Nat
            /\ current[1].at \in Nat /\ r.source \in Nat /\ r.at \in Nat
        BY <4>3, <1>1, ReportFields DEF AG!Hook
      <4>5. r.source < current[1].source
        BY <4>1, <4>4 DEF AG!Accepts
      <4> QED  BY <4>1, <4>2, <4>4, <4>5
    <3> QED  BY <3>1, <3>2
  <2>2. CASE i # n + 1
    <3>1. i \in 1 .. n /\ i \in DOMAIN reports
      BY <2>2, <1>7, <1>4
    <3>2. reports'[i] = reports[i] /\ reports[i] \in Reports
      BY <3>1, <1>7
    <3>3. ~AG!Accepts(reports[i], r)
      <4>1. n + 1 \in i + 1 .. Len(reports')
        BY <3>1, <1>4, <1>2, <1>1
      <4>2. ~AG!Accepts(reports'[i], reports'[n + 1])
        BY <1>10, <4>1 DEF AG!Stands
      <4> QED  BY <4>2, <3>2, <1>7
    <3>4. AG!Stands(i)
      <4>1. ASSUME NEW j \in i + 1 .. n PROVE ~AG!Accepts(reports[i], reports[j])
        <5>1. j \in i + 1 .. Len(reports') /\ j \in 1 .. n
          BY <3>1, <1>4, <1>2, <1>1
        <5>2. ~AG!Accepts(reports'[i], reports'[j])
          BY <1>10, <5>1 DEF AG!Stands
        <5> QED  BY <5>1, <5>2, <3>2, <1>7
      <4> QED  BY <4>1 DEF AG!Stands
    <3>5. /\ reports[i].source \in Nat /\ reports[i].at \in Nat
          /\ r.source \in Nat /\ r.at \in Nat /\ r.source < reports[i].source
          /\ r.source <= AG!Hook /\ reports[i].source <= AG!Hook /\ AG!Hook \in Nat
      BY <3>2, <3>3, <1>1, <1>3, ReportFields DEF AG!Accepts, AG!Hook
    <3>6. reports[i].at <= r.at
      <4>1. r.source # AG!Hook
        BY <3>5
      <4> QED  BY <4>1, <1>1, <3>1 DEF StatusInv, OnTime
    <3>7. /\ reports # <<>> /\ current # <<>>
          /\ IF reports[i].source = AG!Hook THEN current = <<reports[i]>>
             ELSE current[1].source >= reports[i].source \/ current[1].at >= reports[i].at
      BY <3>1, <3>4, <1>4 DEF StatusInv, AG!StatusIsStrongest
    <3>8. CASE AG!Accepts(current[1], r)
      <4>1. current' = <<r>>
        BY <3>8, <1>2
      <4>2. reports[i].source # AG!Hook
        BY <3>3, <3>7, <3>8
      <4> QED  BY <4>1, <4>2, <3>2, <3>5, <3>6
    <3>9. CASE ~AG!Accepts(current[1], r)
      <4>1. current' = current
        BY <3>9, <3>7, <1>2
      <4> QED  BY <4>1, <3>7, <3>2
    <3> QED  BY <3>8, <3>9
  <2> QED  BY <2>1, <2>2
<1>11. AG!StatusIsStrongest'
  BY <1>7, <1>9, <1>10 DEF AG!StatusIsStrongest
<1> QED  BY <1>6, <1>8, <1>11 DEF StatusInv

(* What the elements of a sequence of rows are.                             *)
LEMMA RowFields ==
  ASSUME NEW s \in Seq(Rows)
  PROVE  /\ Len(s) \in Nat /\ DOMAIN s = 1 .. Len(s)
         /\ \A i \in 1 .. Len(s) : s[i] \in Rows /\ s[i].id \in Nat
<1>1. Len(s) \in Nat /\ DOMAIN s = 1 .. Len(s) /\ \A i \in 1 .. Len(s) : s[i] \in Rows
  OBVIOUS
<1> QED  BY <1>1 DEF Rows

(* Of rows in falling order, i - 1 ids are above the i-th.                  *)
LEMMA Counted ==
  ASSUME NEW s \in Seq(Rows), Falling(s)
  PROVE  LET ids == {s[i].id : i \in DOMAIN s}
         IN /\ ids \in SUBSET Nat /\ IsFiniteSet(ids) /\ Cardinality(ids) = Len(s)
            /\ \A i \in DOMAIN s : Cardinality({id \in ids : id > s[i].id}) = i - 1
<1> DEFINE ids == {s[i].id : i \in DOMAIN s}
<1>1. /\ DOMAIN s = 1 .. Len(s) /\ Len(s) \in Nat
      /\ \A i \in 1 .. Len(s) : s[i].id \in Nat
      /\ \A i, j \in 1 .. Len(s) : i < j => s[i].id > s[j].id
  BY RowFields DEF Falling
<1>2. ASSUME NEW n \in 0 .. Len(s)
      PROVE  LET S == {s[i].id : i \in 1 .. n} IN IsFiniteSet(S) /\ Cardinality(S) = n
  <2> DEFINE S == {s[i].id : i \in 1 .. n}
             f == [i \in 1 .. n |-> s[i].id]
  <2>1. f \in Bijection(1 .. n, S)
    <3>1. f \in [1 .. n -> S] /\ \A y \in S : \E i \in 1 .. n : f[i] = y
      OBVIOUS
    <3>2. ASSUME NEW i \in 1 .. n, NEW j \in 1 .. n, f[i] = f[j] PROVE i = j
      <4>1. s[i].id = s[j].id /\ i \in 1 .. Len(s) /\ j \in 1 .. Len(s)
        BY <3>2, <1>1
      <4> QED  BY <4>1, <1>1
    <3> QED  BY <3>1, <3>2 DEF Bijection, Injection, Surjection, IsInjective
  <2> HIDE DEF f, S
  <2>2. ExistsBijection(1 .. n, S) /\ n \in Nat
    BY <2>1, <1>1 DEF ExistsBijection
  <2>3. IsFiniteSet(S) /\ Cardinality(S) = n
    BY <2>2, FS_CountingElements, FS_NatBijection
  <2> QED  BY <2>3 DEF S
<1>3. ids = {s[i].id : i \in 1 .. Len(s)}
  BY <1>1
<1>4. ASSUME NEW i \in DOMAIN s PROVE Cardinality({id \in ids : id > s[i].id}) = i - 1
  <2>1. i \in 1 .. Len(s) /\ i - 1 \in 0 .. Len(s)
    BY <1>1
  <2>2. {id \in ids : id > s[i].id} = {s[k].id : k \in 1 .. i - 1}
    <3>1. ASSUME NEW k \in 1 .. Len(s) PROVE s[k].id > s[i].id <=> k < i
      BY <2>1, <1>1
    <3> QED  BY <3>1, <2>1, <1>3, <1>1
  <2> QED  BY <2>1, <2>2, <1>2
<1>5. IsFiniteSet(ids) /\ Cardinality(ids) = Len(s) /\ ids \in SUBSET Nat
  <2>1. Len(s) \in 0 .. Len(s)
    BY <1>1
  <2>2. IsFiniteSet({s[i].id : i \in 1 .. Len(s)}) /\ Cardinality({s[i].id : i \in 1 .. Len(s)}) = Len(s)
    BY <2>1, <1>2
  <2>3. ids \in SUBSET Nat
    BY <1>1, <1>3
  <2> HIDE DEF ids
  <2> QED  BY <2>2, <2>3, <1>3
<1> QED  BY <1>4, <1>5

(* A row pushed is the newest, and the others keep their marks              *)
(* (Store::push).                                                           *)
LEMMA Pushed ==
  ASSUME AG!ConstantsOK, PanelInv, NEW mine \in BOOLEAN, AG!Push(mine), saved' = saved
  PROVE  /\ PanelInv'
         /\ \A i \in DOMAIN rows, j \in DOMAIN rows' :
              rows[i].read /\ rows'[j].id = rows[i].id => rows'[j].read
<1> DEFINE id == AG!Max({nextRow, 1})
           new == [id |-> id, mine |-> mine, read |-> FALSE]
           m == Len(rows)
           n == Len(rows')
<1>1. /\ rows \in Seq(Rows) /\ saved \in Seq(Rows) /\ nextRow \in Nat /\ pushed \in SUBSET Nat
      /\ m = Len(rows) /\ m \in Nat /\ DOMAIN rows = 1 .. m /\ IsFiniteSet(pushed) /\ Cardinality(pushed) \in Nat
      /\ Cap \in Nat
  BY FS_CardinalityType DEF PanelInv, RowType, RowsInv, AG!ConstantsOK
<1>2. id \in Nat /\ id >= nextRow /\ id >= 1
  BY <1>1 DEF AG!Max
<1>3. \A k \in pushed : k < id
  BY <1>1, <1>2 DEF PanelInv, RowsInv
<1>4. new \in Rows /\ new.id = id /\ new.read = FALSE
  BY <1>2 DEF Rows
<1>5. nextRow' = id + 1 /\ pushed' = pushed \cup {id} /\ rows' = AG!Kept(<<new>> \o rows)
  BY DEF AG!Push
<1> HIDE DEF id, new, m
<1>6. \A a, b \in Nat : AG!Min({a, b}) = (IF a < b THEN a ELSE b)
  BY DEF AG!Min
<1>7. /\ n = Len(rows') /\ n = AG!Min({m + 1, Cap}) /\ n \in Nat /\ rows' \in Seq(Rows) /\ DOMAIN rows' = 1 .. n
      /\ \A i \in 1 .. n : rows'[i] = IF i = 1 THEN new ELSE rows[i - 1]
      /\ n <= Cap /\ n <= m + 1
  <2> DEFINE s == <<new>> \o rows
  <2>1. /\ s \in Seq(Rows) /\ Len(s) = m + 1
        /\ \A i \in 1 .. m + 1 : s[i] = IF i = 1 THEN new ELSE rows[i - 1]
    BY <1>1, <1>4
  <2>2. rows' = SubSeq(s, 1, AG!Min({Len(s), Cap}))
    BY <1>5 DEF AG!Kept
  <2> HIDE DEF s
  <2>3. AG!Min({m + 1, Cap}) \in 0 .. m + 1 /\ AG!Min({m + 1, Cap}) <= Cap
    BY <1>1, <1>6
  <2> DEFINE k == AG!Min({m + 1, Cap})
  <2>4. k \in 0 .. Len(s) /\ k <= Cap /\ k <= m + 1 /\ k \in Nat
    BY <2>1, <2>3, <1>1
  <2> HIDE DEF k
  <2>5. /\ SubSeq(s, 1, k) \in Seq(Rows) /\ Len(SubSeq(s, 1, k)) = k
        /\ \A i \in 1 .. k : SubSeq(s, 1, k)[i] = s[i]
    BY <2>1, <2>4
  <2>6. rows' = SubSeq(s, 1, k)
    BY <2>1, <2>2 DEF k
  <2>7. n = k /\ rows' \in Seq(Rows) /\ DOMAIN rows' = 1 .. n
    BY <2>5, <2>6, <2>4
  <2>8. ASSUME NEW i \in 1 .. n PROVE rows'[i] = IF i = 1 THEN new ELSE rows[i - 1]
    BY <2>8, <2>1, <2>4, <2>5, <2>6, <2>7
  <2>9. n = Len(rows') /\ n = AG!Min({m + 1, Cap}) 
    BY <2>7 DEF k
  <2> HIDE DEF n
  <2> QED  BY <2>4, <2>7, <2>8, <2>9
<1> HIDE DEF n
<1>8. RowType'
  BY <1>1, <1>2, <1>5, <1>7 DEF RowType
<1>17. ASSUME NEW i \in 1 .. n, i # 1 PROVE i - 1 \in 1 .. m /\ i \in Nat /\ rows'[i] = rows[i - 1]
  <2>1. i \in Nat /\ i >= 2 /\ i <= m + 1
    BY <1>17, <1>1, <1>7
  <2>2. rows'[i] = rows[i - 1]
    BY <1>17, <1>7
  <2> QED  BY <2>1, <2>2, <1>1
<1>18. \A i \in 1 .. n : i = 1 => rows'[i] = new
  BY <1>7
<1>9. \A i \in 1 .. m : rows[i].id \in pushed /\ rows[i].id < id /\ rows[i].id \in Nat
  BY <1>1, <1>3 DEF PanelInv, Newest
<1>10. Falling(rows')
  <2>1. ASSUME NEW i \in 1 .. n, NEW j \in 1 .. n, i < j PROVE rows'[i].id > rows'[j].id
    <3>1. j # 1
      BY <2>1
    <3>2. j - 1 \in 1 .. m /\ rows'[j] = rows[j - 1]
      BY <3>1, <1>17
    <3>3. CASE i = 1
      BY <3>2, <3>3, <1>18, <1>4, <1>9, <1>2
    <3>4. CASE i # 1
      <4>1. i - 1 \in 1 .. m /\ rows'[i] = rows[i - 1] /\ i - 1 < j - 1
        BY <3>4, <2>1, <1>17
      <4>2. \A a, b \in 1 .. m : a < b => rows[a].id > rows[b].id
        BY <1>1 DEF PanelInv, RowsInv, Falling
      <4> QED  BY <4>1, <4>2, <3>2
    <3> QED  BY <3>3, <3>4
  <2> QED  BY <2>1, <1>7 DEF Falling
<1>11. IsFiniteSet(pushed') /\ Cardinality(pushed') = Cardinality(pushed) + 1
  BY <1>1, <1>3, <1>5, <1>2, FS_AddElement
<1>12. RowsInv'
  BY <1>1, <1>2, <1>3, <1>5, <1>10, <1>11 DEF PanelInv, RowsInv
<1>13. n = AG!Min({Cap, Cardinality(pushed')})
  <2>1. m = AG!Min({Cap, Cardinality(pushed)})
    BY <1>1 DEF PanelInv, Newest
  <2> QED  BY <2>1, <1>1, <1>6, <1>7, <1>11
<1>14. ASSUME NEW i \in 1 .. n
       PROVE  /\ rows'[i].id \in pushed'
              /\ Cardinality({k \in pushed' : k > rows'[i].id}) = i - 1
  <2>1. CASE i = 1
    <3>1. rows'[i].id = id
      BY <2>1, <1>4, <1>7
    <3>3. \A k \in pushed' : ~(k > id)
      BY <1>2, <1>3, <1>5, <1>1
    <3>2. {k \in pushed' : k > id} = {}
      BY <3>3
    <3> QED  BY <2>1, <3>1, <3>2, <1>5, FS_EmptySet
  <2>2. CASE i # 1
    <3>1. i - 1 \in 1 .. m /\ rows'[i] = rows[i - 1]
      BY <2>2, <1>17
    <3>6. rows[i - 1].id \in pushed /\ i \in Nat
      BY <3>1, <1>9
    <3> DEFINE S == {k \in pushed : k > rows[i - 1].id}
    <3>2. Cardinality(S) = (i - 1) - 1
      BY <3>1, <1>1 DEF PanelInv, Newest
    <3>3. IsFiniteSet(S) /\ id \notin S
      BY <1>1, <1>3, <1>2, FS_Subset
    <3>4. {k \in pushed' : k > rows'[i].id} = S \cup {id}
      BY <3>1, <1>5, <1>9, <1>2
    <3>5. Cardinality(S \cup {id}) = Cardinality(S) + 1
      BY <3>3, FS_AddElement
    <3> HIDE DEF S
    <3>7. Cardinality(S \cup {id}) = i - 1
      BY <3>2, <3>5, <3>6
    <3> QED  BY <3>1, <3>4, <3>6, <3>7, <1>5
  <2> QED  BY <2>1, <2>2
<1>15. Newest'
  BY <1>7, <1>13, <1>14 DEF Newest
<1>16. ASSUME NEW i \in DOMAIN rows, NEW j \in DOMAIN rows', rows[i].read, rows'[j].id = rows[i].id
       PROVE  rows'[j].read
  <2>1. i \in 1 .. m /\ j \in 1 .. n /\ rows[i].id < id /\ id \in Nat
    BY <1>16, <1>1, <1>7, <1>9, <1>2
  <2>2. j # 1
    BY <2>1, <1>16, <1>18, <1>4
  <2>3. j - 1 \in 1 .. m /\ rows'[j] = rows[j - 1]
    BY <2>1, <2>2, <1>17
  <2>4. j - 1 = i
    BY <2>1, <2>3, <1>16, <1>1, <1>9 DEF PanelInv, RowsInv, Falling
  <2> QED  BY <2>3, <2>4, <1>16
<1> QED  BY <1>8, <1>12, <1>15, <1>16 DEF PanelInv

(* Marking rows read changes nothing else of them (Store::mark_tab_read).   *)
LEMMA Marked ==
  ASSUME AG!ConstantsOK, PanelInv, AG!MarkTabRead, saved' = saved
  PROVE  /\ PanelInv'
         /\ \A i \in DOMAIN rows, j \in DOMAIN rows' :
              rows[i].read /\ rows'[j].id = rows[i].id => rows'[j].read
<1>1. /\ rows' = [i \in DOMAIN rows |-> [rows[i] EXCEPT !.read = @ \/ rows[i].mine]]
      /\ nextRow' = nextRow /\ pushed' = pushed
  BY DEF AG!MarkTabRead
<1>2. /\ rows \in Seq(Rows) /\ Len(rows) \in Nat /\ DOMAIN rows = 1 .. Len(rows)
  BY DEF PanelInv, RowType
<1>3. ASSUME NEW i \in DOMAIN rows
      PROVE  /\ rows'[i] \in Rows /\ rows'[i].id = rows[i].id
             /\ rows[i].read => rows'[i].read
             /\ rows[i].id \in Nat
  <2>1. rows[i] \in Rows
    BY <1>2
  <2>2. rows'[i] = [rows[i] EXCEPT !.read = @ \/ rows[i].mine]
    BY <1>1
  <2>3. rows[i].mine \in BOOLEAN /\ rows[i].read \in BOOLEAN /\ rows[i].id \in Nat
    BY <2>1 DEF Rows
  <2>4. rows'[i] = [id |-> rows[i].id, mine |-> rows[i].mine, read |-> rows[i].read \/ rows[i].mine]
    BY <2>1, <2>2 DEF Rows
  <2>5. (rows[i].read \/ rows[i].mine) \in BOOLEAN
    OBVIOUS
  <2> QED  BY <2>3, <2>4, <2>5 DEF Rows
<1>4. /\ rows' \in Seq(Rows) /\ Len(rows') = Len(rows) /\ DOMAIN rows' = DOMAIN rows
  <2> DEFINE f == [i \in 1 .. Len(rows) |-> rows'[i]]
  <2>1. rows' = f
    BY <1>1, <1>2
  <2>2. f \in Seq(Rows) /\ Len(f) = Len(rows) /\ DOMAIN f = DOMAIN rows
    BY <1>2, <1>3
  <2> QED  BY <2>1, <2>2
<1>5. RowType' /\ RowsInv'
  BY <1>1, <1>3, <1>4 DEF PanelInv, RowType, RowsInv, Falling
<1>6. Newest'
  <2>1. ASSUME NEW i \in DOMAIN rows'
        PROVE  /\ rows'[i].id \in pushed'
               /\ Cardinality({id \in pushed' : id > rows'[i].id}) = i - 1
    <3>1. i \in DOMAIN rows /\ rows'[i].id = rows[i].id /\ pushed' = pushed
      BY <1>1, <1>3, <1>4
    <3> QED  BY <3>1 DEF PanelInv, Newest
  <2>2. Len(rows') = AG!Min({Cap, Cardinality(pushed')})
    BY <1>1, <1>4 DEF PanelInv, Newest
  <2> QED  BY <2>1, <2>2 DEF Newest
<1>7. ASSUME NEW i \in DOMAIN rows, NEW j \in DOMAIN rows', rows[i].read, rows'[j].id = rows[i].id
      PROVE  rows'[j].read
  <2>1. j \in DOMAIN rows /\ rows[j].id = rows[i].id
    BY <1>7, <1>3, <1>4
  <2>2. i = j
    BY <2>1, <1>2, <1>3 DEF PanelInv, RowsInv, Falling
  <2> QED  BY <2>2, <1>7, <1>3
<1> QED  BY <1>5, <1>6, <1>7 DEF PanelInv

(* Rows loaded are the rows there are, with ids to go on from               *)
(* (Store::load).                                                           *)
LEMMA Launched ==
  ASSUME AG!ConstantsOK, NEW s \in Seq(Rows), Falling(s), Len(s) <= Cap, AG!Load(s), saved' = s
  PROVE  PanelInv'
<1> DEFINE ids == {s[i].id : i \in DOMAIN s}
<1> DEFINE top == AG!Max(ids \cup {0})
<1>1. rows' = s /\ nextRow' = top + 1 /\ pushed' = ids
  BY DEF AG!Load
<1>2. /\ ids \in SUBSET Nat /\ IsFiniteSet(ids) /\ Cardinality(ids) = Len(s)
      /\ \A i \in DOMAIN s : Cardinality({id \in ids : id > s[i].id}) = i - 1
  BY Counted
<1>3. \E x \in ids \cup {0} : \A y \in ids \cup {0} : x >= y
  <2>1. CASE s = <<>>
    <3>1. ids = {}
      BY <2>1
    <3> HIDE DEF ids
    <3>2. ids \cup {0} = {0}
      BY <3>1
    <3>3. \E x \in {0} : \A y \in {0} : x >= y
      OBVIOUS
    <3> QED  BY <3>2, <3>3
  <2>2. CASE s # <<>>
    <3>1. 1 \in DOMAIN s /\ DOMAIN s = 1 .. Len(s) /\ Len(s) \in Nat
      BY <2>2, RowFields
    <3>2. \A i \in DOMAIN s : s[i].id \in Nat /\ s[1].id >= s[i].id
      BY <3>1, RowFields DEF Falling
    <3>3. s[1].id \in ids
      BY <3>1
    <3> HIDE DEF ids
    <3>4. \A y \in ids : s[1].id >= y
      <4> USE DEF ids
      <4> QED  BY <3>2
    <3>5. \A y \in ids \cup {0} : s[1].id >= y
      BY <3>2, <3>4, <3>1
    <3>6. s[1].id \in ids \cup {0}
      BY <3>3
    <3> QED  BY <3>5, <3>6
  <2> QED  BY <2>1, <2>2
<1>4. top \in Nat /\ \A y \in ids : top >= y
  <2> HIDE DEF ids
  <2>1. top \in ids \cup {0} /\ \A y \in ids \cup {0} : top >= y
    BY <1>3 DEF AG!Max
  <2> HIDE DEF top
  <2>2. top \in Nat
    BY <1>2, <2>1
  <2> QED  BY <2>1, <2>2
<1>5. RowType'
  <2> HIDE DEF top, ids
  <2> QED  BY <1>1, <1>2, <1>4 DEF RowType
<1>6. RowsInv'
  <2> HIDE DEF ids, top
  <2>1. \A id \in pushed' : id < nextRow'
    BY <1>1, <1>2, <1>4
  <2>2. Falling(rows') /\ Falling(saved') /\ Len(saved') <= Cap
    BY <1>1
  <2> QED  BY <1>1, <1>2, <2>1, <2>2 DEF RowsInv
<1>7. Newest'
  <2>1. Len(s) = AG!Min({Cap, Len(s)})
    BY DEF AG!Min, AG!ConstantsOK
  <2>2. \A i \in DOMAIN s : s[i].id \in ids
    OBVIOUS
  <2> HIDE DEF ids
  <2> QED  BY <1>1, <1>2, <2>1, <2>2 DEF Newest
<1> QED  BY <1>5, <1>6, <1>7 DEF PanelInv

TellInv == StatusInv /\ PanelInv

(* What was read stays read, in one step.                                   *)
ReadStep ==
  \A i \in DOMAIN rows, j \in DOMAIN rows' :
    rows[i].read /\ rows'[j].id = rows[i].id => rows'[j].read \/ AG!Crash

(* A step that does not touch the panel, or the tracker; one that clears    *)
(* it.                                                                      *)
LEMMA PanelRests ==
  ASSUME PanelInv, UNCHANGED <<AG!panel, saved>>
  PROVE  PanelInv' /\ ReadStep
<1>1. rows' = rows /\ nextRow' = nextRow /\ pushed' = pushed /\ saved' = saved
  BY DEF AG!panel
<1>2. PanelInv'
  BY <1>1 DEF PanelInv, RowType, RowsInv, Falling, Newest
<1>3. ASSUME NEW i \in DOMAIN rows, NEW j \in DOMAIN rows, rows[i].read, rows[j].id = rows[i].id
      PROVE  rows[j].read
  <2>1. /\ i \in 1 .. Len(rows) /\ j \in 1 .. Len(rows)
        /\ rows[i].id \in Nat /\ rows[j].id \in Nat /\ Len(rows) \in Nat
    BY RowFields DEF PanelInv, RowType
  <2>2. i = j
    BY <2>1, <1>3 DEF PanelInv, RowsInv, Falling
  <2> QED  BY <2>2, <1>3
<1> QED  BY <1>1, <1>2, <1>3 DEF ReadStep

LEMMA StatusRests ==
  ASSUME StatusInv, UNCHANGED <<AG!tracker, now>>
  PROVE  StatusInv'
  BY DEF StatusInv, AG!tracker, ReportType, OnTime, AG!StatusIsStrongest, AG!Stands

LEMMA StatusForgets ==
  ASSUME StatusInv, current' = <<>>, reports' = <<>>, now' = now
  PROVE  StatusInv'
<1>1. DOMAIN reports' = {}
  OBVIOUS
<1> QED  BY <1>1 DEF StatusInv, ReportType, OnTime, AG!StatusIsStrongest

(* Every step keeps the invariant and what was read.                        *)
LEMMA TellStep ==
  ASSUME AG!ConstantsOK, TellInv, [AG!Next]_AG!vars
  PROVE  TellInv' /\ ReadStep
<1> USE DEF TellInv
<1>0. now \in Nat /\ rows \in Seq(Rows) /\ saved \in Seq(Rows) /\ Len(rows) <= Cap
  <2>1. Cap \in Nat /\ Cardinality(pushed) \in Nat
    BY FS_CardinalityType DEF AG!ConstantsOK, PanelInv, RowsInv
  <2>2. Len(rows) = AG!Min({Cap, Cardinality(pushed)})
    BY DEF PanelInv, Newest
  <2>3. Len(rows) <= Cap
    BY <2>1, <2>2 DEF AG!Min
  <2> QED  BY <2>3 DEF StatusInv, ReportType, PanelInv, RowType
<1>1. CASE AG!Tick
  <2>1. StatusInv'
    <3>1. now' = now + 1 /\ current' = current /\ reports' = reports
      BY <1>1 DEF AG!Tick, AG!tracker
    <3>2. \A i \in DOMAIN reports : reports[i].at \in Nat
      BY ReportFields DEF StatusInv, ReportType
    <3>3. \A i \in DOMAIN reports : reports[i].at <= now + 1
      BY <1>0, <3>2 DEF StatusInv, OnTime
    <3> QED  BY <3>1, <3>3, <1>0 DEF StatusInv, ReportType, OnTime, AG!StatusIsStrongest, AG!Stands
  <2> QED  BY <1>1, <2>1, PanelRests DEF AG!Tick
<1>2. ASSUME NEW status \in AG!Statuses, NEW at \in 0 .. MaxNow, NEW n \in BOOLEAN, AG!HookReport(status, n, at)
      PROVE  TellInv' /\ ReadStep
  <2>1. /\ at <= now /\ AG!Observe(status, AG!Hook, at) /\ now' = now /\ saved' = saved
        /\ AG!Push(TRUE) \/ UNCHANGED AG!panel
    BY <1>2, Zenon DEF AG!HookReport
  <2>2. StatusInv'
    BY <2>1, Observed DEF AG!Hook, AG!Osc, AG!ShellIntegration
  <2>3. PanelInv' /\ ReadStep
    BY <2>1, Pushed, PanelRests DEF ReadStep
  <2> QED  BY <2>2, <2>3
<1>3. ASSUME NEW status \in AG!Statuses, NEW at \in 0 .. MaxNow, AG!SetStatus(status, at)
      PROVE  TellInv' /\ ReadStep
  <2>1. at <= now /\ AG!Observe(status, AG!Hook, at) /\ now' = now /\ UNCHANGED <<AG!panel, saved>>
    BY <1>3 DEF AG!SetStatus
  <2>2. StatusInv'
    BY <2>1, Observed DEF AG!Hook, AG!Osc, AG!ShellIntegration
  <2> QED  BY <2>1, <2>2, PanelRests
<1>4. CASE AG!ClearStatus
  BY <1>4, StatusForgets, PanelRests DEF AG!ClearStatus
<1>5. CASE AG!OscNotify
  <2>1. AG!Observe("NeedsInput", AG!Osc, now) /\ AG!Push(TRUE) /\ now' = now /\ saved' = saved
    BY <1>5 DEF AG!OscNotify
  <2>2. StatusInv'
    BY <2>1, <1>0, Observed DEF AG!Hook, AG!Osc, AG!ShellIntegration, AG!Statuses
  <2> QED  BY <2>1, <2>2, Pushed DEF ReadStep
<1>6. ASSUME NEW status \in {"Idle", "Running"}, AG!Prompt(status)
      PROVE  TellInv' /\ ReadStep
  <2>1. /\ AG!Observe(status, AG!ShellIntegration, now) /\ now' = now /\ UNCHANGED <<AG!panel, saved>>
        /\ status \in AG!Statuses
    BY <1>6 DEF AG!Prompt, AG!Statuses
  <2>2. StatusInv'
    BY <2>1, <1>0, Observed DEF AG!Hook, AG!Osc, AG!ShellIntegration
  <2> QED  BY <2>1, <2>2, PanelRests
<1>7. CASE AG!Bell
  <2>1. AG!Observe("NeedsInput", AG!Osc, now) /\ now' = now /\ UNCHANGED <<AG!panel, saved>>
    BY <1>7 DEF AG!Bell
  <2>2. StatusInv'
    BY <2>1, <1>0, Observed DEF AG!Hook, AG!Osc, AG!ShellIntegration, AG!Statuses
  <2> QED  BY <2>1, <2>2, PanelRests
<1>8. ASSUME NEW b \in BOOLEAN, AG!Notify(b)
      PROVE  TellInv' /\ ReadStep
  BY <1>8, Pushed, StatusRests DEF AG!Notify, ReadStep
<1>9. CASE AG!FocusPane
  BY <1>9, Marked, StatusRests DEF AG!FocusPane, ReadStep
<1>10. ASSUME NEW b \in BOOLEAN, AG!Show(b)
       PROVE  TellInv' /\ ReadStep
  BY <1>10, PanelRests, StatusRests DEF AG!Show
<1>11. ASSUME NEW b \in BOOLEAN, AG!ClickRow(b)
       PROVE  TellInv' /\ ReadStep
  BY <1>11, Marked, StatusRests DEF AG!ClickRow, ReadStep
<1>12. CASE AG!ClearAll
  <2>1. rows' = <<>> /\ pushed' = {} /\ nextRow' = nextRow /\ saved' = saved /\ UNCHANGED <<now, AG!tracker>>
    BY <1>12 DEF AG!ClearAll
  <2>2. DOMAIN rows' = {} /\ Len(rows') = 0 /\ rows' \in Seq(Rows)
    BY <2>1
  <2>3. IsFiniteSet({}) /\ Cardinality({}) = 0
    BY FS_EmptySet
  <2>4. RowType' /\ RowsInv'
    BY <2>1, <2>2, <2>3 DEF PanelInv, RowType, RowsInv, Falling
  <2>5. AG!Min({Cap, 0}) = 0
    BY DEF AG!Min, AG!ConstantsOK
  <2>6. Newest'
    BY <2>1, <2>2, <2>3, <2>5 DEF Newest
  <2> QED  BY <2>1, <2>2, <2>4, <2>6, StatusRests DEF PanelInv, ReadStep
<1>13. CASE AG!Quit
  <2>1. /\ AG!Load(rows) /\ saved' = rows /\ current' = <<>> /\ reports' = <<>> /\ now' = now
        /\ rows' = rows
    BY <1>13 DEF AG!Quit, AG!Launch, AG!Load
  <2>2. PanelInv'
    BY <2>1, <1>0, Launched DEF PanelInv, RowsInv
  <2>3. ASSUME NEW i \in DOMAIN rows, NEW j \in DOMAIN rows, rows[i].read, rows[j].id = rows[i].id
        PROVE  rows[j].read
    <3>1. /\ i \in 1 .. Len(rows) /\ j \in 1 .. Len(rows)
          /\ rows[i].id \in Nat /\ rows[j].id \in Nat /\ Len(rows) \in Nat
      BY RowFields DEF PanelInv, RowType
    <3>2. i = j
      BY <3>1, <2>3 DEF PanelInv, RowsInv, Falling
    <3> QED  BY <3>2, <2>3
  <2> QED  BY <2>1, <2>2, <2>3, StatusForgets DEF ReadStep
<1>14. CASE AG!Crash
  <2>1. AG!Load(saved) /\ saved' = saved /\ current' = <<>> /\ reports' = <<>> /\ now' = now
    BY <1>14 DEF AG!Crash, AG!Launch
  <2>2. PanelInv'
    BY <2>1, <1>0, Launched DEF PanelInv, RowsInv
  <2> QED  BY <1>14, <2>1, <2>2, StatusForgets DEF ReadStep
<1>15. CASE UNCHANGED AG!vars
  BY <1>15, PanelRests, StatusRests DEF AG!vars
<1> QED
  BY <1>1, <1>2, <1>3, <1>4, <1>5, <1>6, <1>7, <1>8, <1>9, <1>10, <1>11, <1>12, <1>13, <1>14, <1>15
  DEF AG!Next

LEMMA TellInit == ASSUME AG!ConstantsOK, AG!Init PROVE TellInv
<1>1. /\ now = 0 /\ current = <<>> /\ reports = <<>> /\ rows = <<>> /\ nextRow = 0
      /\ saved = <<>> /\ pushed = {}
  BY DEF AG!Init
<1>2. DOMAIN reports = {} /\ DOMAIN rows = {} /\ DOMAIN saved = {} /\ Len(rows) = 0 /\ Len(saved) = 0
  BY <1>1
<1>3. IsFiniteSet({}) /\ Cardinality({}) = 0
  BY FS_EmptySet
<1>4. AG!Min({Cap, 0}) = 0 /\ Cap \in Nat
  BY DEF AG!Min, AG!ConstantsOK
<1>5. StatusInv
  BY <1>1, <1>2 DEF StatusInv, ReportType, OnTime, AG!StatusIsStrongest
<1>6. RowType /\ RowsInv
  BY <1>1, <1>2, <1>3, <1>4 DEF RowType, RowsInv, Falling
<1>7. Newest
  BY <1>1, <1>2, <1>3, <1>4 DEF Newest
<1> QED  BY <1>5, <1>6, <1>7 DEF TellInv, PanelInv

(* The app's agent status is a run of AgentStatus.                          *)
LEMMA Telling == AG!ConstantsOK /\ (FairSpec => AG!Init /\ [][AG!Next]_AG!vars)
<1>1. Init => AG!Init
  BY DEF Init
<1>2. [Next]_vars => [AG!Next]_AG!vars
  BY DEF Next, vars, statusVars, AG!vars, AG!tracker, AG!panel
<1> QED  BY <1>1, <1>2, ConstantsAssumption, PTL DEF FairSpec

(* The invariant holds, over any number of reports, quits and crashes.      *)
THEOREM TellInvariance == FairSpec => []TellInv
<1>1. AG!Init => TellInv
  BY Telling, TellInit
<1>2. TellInv /\ [AG!Next]_AG!vars => TellInv'
  BY Telling, TellStep
<1> QED  BY <1>1, <1>2, Telling, PTL

(* The status shown is the strongest report's, whatever order a host's      *)
(* queue brings them in (Tracker::observe); the panel keeps the newest rows *)
(* under ids of their own, and what was read stays read but over a crash    *)
(* (Store::push, mark_tab_read, load).                                      *)
THEOREM UserTold == FairSpec => UserIsTold
<1>1. TellInv => AG!StatusIsStrongest /\ AG!PanelKeepsNewest
  BY SameNewest DEF TellInv, StatusInv, PanelInv
<1>2. TellInv /\ [AG!Next]_AG!vars => [ReadStep]_AG!vars
  BY Telling, TellStep
<1>3. [ReadStep]_AG!vars => [ \A i \in DOMAIN rows, j \in DOMAIN rows' :
        rows[i].read /\ rows'[j].id = rows[i].id => rows'[j].read \/ AG!Crash ]_AG!vars
  BY DEF ReadStep
<1> QED
  BY <1>1, <1>2, <1>3, TellInvariance, Telling, PTL DEF UserIsTold, AG!UserIsTold, AG!StaysRead

-----------------------------------------------------------------------------
PortNos == 1 .. MaxPorts

Phases == {"Disconnected", "Connecting", "Connected", "Lost", "Retrying", "Failed"}
Shows ==
  [spawned : 0 .. MaxEpoch, run : BOOLEAN, panes : 0 .. MaxEpoch,
   git : {"none", "online", "offline"}, on : BOOLEAN]
WorkerTypes ==
  [kind : {"identify"}, of : Ids] \cup [kind : {"cancel"}, of : PortNos]
    \cup [kind : {"forward"}, of : PortNos, at : 0 .. MaxEpoch]
\* the ports a lost connection closes are reported in order
Closable == PortNos \cup UNION {{RW!InOrder(S)[i] : i \in PortNos} : S \in SUBSET PortNos}
Events ==
  [kind : {"Changed"}] \cup [kind : {"PortForwarded"}, of : PortNos, ok : BOOLEAN]
    \cup [kind : {"PortClosed"}, of : Closable] \cup [kind : {"RepoIdentity"}, of : Ids]

HostTypes ==
  /\ phase \in Phases /\ epoch \in 0 .. MaxEpoch /\ running \subseteq 1 .. MaxEpoch
  /\ asked \in 0 .. MaxPorts
  /\ ports \subseteq PortNos /\ open \subseteq PortNos
  /\ workers \subseteq WorkerTypes
  /\ events \in Seq(Events) /\ handling \in BOOLEAN
  /\ shows \in [Ids -> Shows]
  /\ left \subseteq Ids /\ wanted \subseteq Ids
  /\ forwards \subseteq [of : Ids, port : PortNos] /\ pending \subseteq [of : Ids, port : PortNos]
  /\ typed \in [Ids -> Nat]

(* An event still to be handled has the app look at the connection again.   *)
Announced == \E i \in DOMAIN events : events[i].kind = "Changed"
Lines == {"Lost", "Retrying", "Failed"}

(* Without one, every workspace is in step with the connection.             *)
FollowInv ==
  /\ phase # "Disconnected" => epoch > 0
  /\ \A w \in Ids : shows[w].panes = shows[w].spawned
  /\ \/ Announced
     \/ /\ \A w \in RW!Live :
             /\ RW!Connected => shows[w].spawned = epoch /\ shows[w].git # "offline"
             /\ phase \in Lines => shows[w].git # "online"
        /\ phase \in Lines => forwards = {}

(* A command that is still to be typed has no terminal, and was not typed.  *)
RunInv ==
  /\ wanted \subseteq RW!Live \cup left
  /\ \A w \in Ids :
       /\ typed[w] <= 1
       /\ shows[w].run => shows[w].on /\ shows[w].spawned = 0 /\ typed[w] = 0
       /\ w \in wanted /\ w \in RW!Live /\ ~shows[w].run => typed[w] = 1

(* A worker forwards a port, or closes one; an event answers a forward; a   *)
(* port is listed under a workspace there is, or asked for.                 *)
Forwarding(p) == \E c \in workers : c.kind = "forward" /\ c.of = p
Cancelling(p) == \E c \in workers : c.kind = "cancel" /\ c.of = p
Answers(i) == i \in DOMAIN events /\ events[i].kind = "PortForwarded"
Listed(p) == \E f \in forwards : f.port = p /\ f.of \in RW!Live
Asked(p) == \E q \in pending : q.port = p

(* A connection that is down holds no port, and an open port is held or is  *)
(* being closed.                                                            *)
HeldInv ==
  /\ ~RW!Connected => ports = {}
  /\ ports \subseteq 1 .. asked
  /\ \A p \in open : p \in ports \/ Cancelling(p)

(* A worker's port is in nobody else's hands.  An answer for this           *)
(* connection finds it up, and its request among those pending.             *)
WorkInv ==
  \A c \in workers :
    /\ c.kind \in {"cancel", "forward"} => c.of <= asked /\ c.of \notin ports
    /\ c.kind = "cancel" => ~Forwarding(c.of)
    /\ c.kind = "forward" =>
         /\ c.at <= epoch
         /\ c.at = epoch /\ epoch > 0 => RW!Connected /\ Asked(c.of)
         /\ \A d \in workers : d.kind = "forward" /\ d.of = c.of => d = c

(* Requests are of workspaces there are.                                    *)
AskInv == \A q \in pending : q.of \in RW!Live

(* A forward is answered once, by the last worker on its port.              *)
AnswerInv ==
  \A i \in DOMAIN events : Answers(i) =>
    /\ events[i].of <= asked /\ ~Forwarding(events[i].of)
    /\ \A j \in DOMAIN events : Answers(j) /\ events[j].of = events[i].of => j = i

(* A port reported closed is held no more, and not about to be.             *)
ClosedInv ==
  \A i \in DOMAIN events : events[i].kind = "PortClosed" =>
    /\ events[i].of \notin ports
    /\ \A c \in workers : c.kind = "forward" /\ c.at = epoch => c.of # events[i].of

(* A port held is listed, or the event that lists it is still to come.      *)
ListInv ==
  \A p \in ports :
    Listed(p) \/ (Asked(p) /\ \E i \in DOMAIN events : Answers(i) /\ events[i].of = p /\ events[i].ok)

PortInv == HeldInv /\ WorkInv /\ AskInv /\ AnswerInv /\ ClosedInv /\ ListInv

HostInv == HostTypes /\ FollowInv /\ RunInv /\ (Patient => PortInv)

-----------------------------------------------------------------------------
(* What one message gives keeps out a sequence of events.                   *)
LEMMA EmitType ==
  ASSUME events \in Seq(Events), NEW es \in Seq(Events), RW!Emit(es)
  PROVE  events' \in Seq(Events)
  BY DEF RW!Emit

(* App::host_changed keeps a workspace shown, or not shown.                 *)
LEMMA FollowType ==
  ASSUME RW!ConstantsOK, epoch \in 0 .. MaxEpoch, NEW l \in Shows
  PROVE  RW!Follow(l) \in Shows /\ RW!Follow(l).on = l.on
<1> DEFINE cleared == IF phase = "Disconnected" THEN [l EXCEPT !.panes = 0, !.spawned = 0] ELSE l
           git == IF l.git = "none" THEN "none" ELSE IF RW!Connected THEN "online" ELSE "offline"
           started == IF RW!Stale(l) THEN RW!Terminals(cleared) ELSE cleared
<1>1. [l EXCEPT !.panes = 0, !.spawned = 0] \in Shows
  <2>1. 0 \in 0 .. MaxEpoch
    BY DEF RW!ConstantsOK
  <2> QED  BY <2>1 DEF Shows
<1>2. cleared \in Shows /\ cleared.on = l.on
  BY <1>1 DEF Shows
<1>3. started \in Shows /\ started.on = l.on
  <2> HIDE DEF cleared
  <2> QED  BY <1>2 DEF Shows, RW!Terminals
<1>4. RW!Follow(l) = IF ~l.on THEN l ELSE [started EXCEPT !.git = git]
  BY DEF RW!Follow
<1>5. git \in {"none", "online", "offline"}
  OBVIOUS
<1> HIDE DEF started, git
<1> QED  BY <1>3, <1>4, <1>5 DEF Shows

(* A master's death reports its ports closed, then that the host changed.   *)
LEMMA MasterEvents ==
  ASSUME RW!ConstantsOK, ports \subseteq PortNos, RW!MasterDied
  PROVE  \E es \in Seq(Events) : /\ RW!Emit(es) /\ es # <<>> /\ es[Len(es)] = [kind |-> "Changed"]
                                 /\ \A i \in DOMAIN es : i = Len(es) \/ es[i].kind = "PortClosed"
<1> DEFINE n == Cardinality(ports)
           cs == [i \in 1 .. n |-> [kind |-> "PortClosed", of |-> RW!InOrder(ports)[i]]]
<1>1. n \in Nat /\ n <= MaxPorts
  <2>1. IsFiniteSet(PortNos) /\ Cardinality(PortNos) = MaxPorts
    BY FS_Interval DEF PortNos, RW!ConstantsOK
  <2> QED  BY <2>1, FS_Subset, FS_CardinalityType
<1>2. cs \in Seq(Events)
  <2>1. \A i \in 1 .. n : RW!InOrder(ports)[i] \in Closable
    BY <1>1 DEF Closable, PortNos, RW!ConstantsOK
  <2>2. \A i \in 1 .. n : [kind |-> "PortClosed", of |-> RW!InOrder(ports)[i]] \in Events
    BY <2>1 DEF Events
  <2> QED  BY <1>1, <2>2
<1>3. RW!Emit(cs \o <<[kind |-> "Changed"]>>)
  BY DEF RW!MasterDied, RW!Cardinality, Cardinality
<1>4. /\ cs \o <<[kind |-> "Changed"]>> \in Seq(Events)
      /\ Len(cs) = n /\ \A i \in 1 .. n : cs[i].kind = "PortClosed"
  BY <1>1, <1>2 DEF Events
<1>5. LET es == cs \o <<[kind |-> "Changed"]>>
      IN  /\ es # <<>> /\ Len(es) = n + 1 /\ es[Len(es)] = [kind |-> "Changed"]
          /\ \A i \in 1 .. n : es[i] = cs[i]
  BY <1>1, <1>2, <1>4
<1>6. DOMAIN (cs \o <<[kind |-> "Changed"]>>) = 1 .. n + 1
  BY <1>1, <1>2, <1>4
<1> HIDE DEF cs, n
<1> QED  
  <2> DEFINE es == cs \o <<[kind |-> "Changed"]>>
  <2>1. es \in Seq(Events) /\ RW!Emit(es) /\ DOMAIN es = 1 .. n + 1 /\ Len(es) = n + 1
    BY <1>3, <1>4, <1>5, <1>6
  <2>2. \A i \in DOMAIN es : i = n + 1 \/ es[i].kind = "PortClosed"
    BY <1>1, <1>4, <1>5, <1>6
  <2>3. es # <<>> /\ es[Len(es)] = [kind |-> "Changed"]
    BY <1>5
  <2> HIDE DEF es
  <2> QED  BY <2>1, <2>2, <2>3

(* Every step keeps the types.                                              *)
LEMMA TypeStep == ASSUME RW!ConstantsOK, HostTypes, [RW!Next]_RW!vars PROVE HostTypes'
<1> USE DEF RW!ConstantsOK
<1>1. CASE RW!HandleEvent
  <2> DEFINE e == Head(events)
  <2>1. e \in Events /\ events' \in Seq(Events) /\ handling' \in BOOLEAN
    BY <1>1 DEF HostTypes, RW!HandleEvent
  <2>2. UNCHANGED <<phase, epoch, running, ports, workers, left, open, asked, wanted>>
    BY <1>1 DEF RW!HandleEvent, RW!conn
  <2>3. \/ RW!HostChanged
        \/ e \in [kind : {"PortForwarded"}, of : PortNos, ok : BOOLEAN] /\ RW!PortForwarded(e.of, e.ok)
        \/ RW!PortClosed(e.of)
        \/ e.of \in Ids /\ RW!RepoIdentity(e.of)
    BY <1>1, <2>1 DEF RW!HandleEvent, Events
  <2> HIDE DEF e
  <2>4. /\ shows' \in [Ids -> Shows] /\ typed' \in [Ids -> Nat]
        /\ forwards' \subseteq [of : Ids, port : PortNos] /\ pending' \subseteq [of : Ids, port : PortNos]
    <3>1. CASE RW!HostChanged
      BY <3>1, FollowType DEF HostTypes, RW!HostChanged, RW!Typing
    <3>2. CASE e \in [kind : {"PortForwarded"}, of : PortNos, ok : BOOLEAN] /\ RW!PortForwarded(e.of, e.ok)
      BY <3>2 DEF HostTypes, RW!PortForwarded
    <3>3. CASE RW!PortClosed(e.of)
      BY <3>3 DEF HostTypes, RW!PortClosed
    <3>4. CASE e.of \in Ids /\ RW!RepoIdentity(e.of)
      <4>1. /\ UNCHANGED <<forwards, pending, typed>>
            /\ \E git \in {"online", "offline"} :
                 shows' = shows \/ shows' = [shows EXCEPT ![e.of] = [shows[e.of] EXCEPT !.git = git]]
        BY <3>4 DEF RW!RepoIdentity
      <4>2. \A git \in {"online", "offline"} : [shows[e.of] EXCEPT !.git = git] \in Shows
        <5>1. shows[e.of] \in Shows
          BY <3>4 DEF HostTypes
        <5> QED  BY <5>1 DEF Shows
      <4> HIDE DEF Shows
      <4> QED  BY <4>1, <4>2, <3>4 DEF HostTypes
    <3> QED  BY <2>3, <3>1, <3>2, <3>3, <3>4
  <2> QED  BY <2>1, <2>2, <2>4 DEF HostTypes
<1>2. ASSUME NEW e \in running, RW!Progress(e) \/ \E p \in {"Connected", "Retrying", "Failed", phase} : RW!AttemptDone(e, p)
      PROVE  HostTypes'
  <2>1. CASE RW!Progress(e)
    BY <2>1 DEF HostTypes, RW!Progress, RW!Emit, RW!conn, RW!shown, Events
  <2>2. ASSUME NEW p \in {"Connected", "Retrying", "Failed", phase}, RW!AttemptDone(e, p)
        PROVE  HostTypes'
    <3>1. events' = events \/ events' = events \o <<[kind |-> "Changed"]>>
      BY <2>2 DEF RW!AttemptDone, RW!Emit
    <3>2. events' \in Seq(Events)
      <4>1. <<[kind |-> "Changed"]>> \in Seq(Events)
        BY DEF Events
      <4>2. events \in Seq(Events)
        BY DEF HostTypes
      <4>3. events \o <<[kind |-> "Changed"]>> \in Seq(Events)
        BY <4>1, <4>2
      <4> QED  BY <3>1, <4>2, <4>3
    <3>3. workers' \subseteq WorkerTypes /\ phase' \in Phases
      <4>1. \A v \in Ids : [kind |-> "identify", of |-> v] \in WorkerTypes
        BY DEF WorkerTypes
      <4>2. workers' = workers \/ workers' = workers \cup {[kind |-> "identify", of |-> w] : w \in {v \in RW!Live : p = "Connected"}}
        BY <2>2 DEF RW!AttemptDone
      <4>3. workers' \subseteq WorkerTypes
        BY <4>1, <4>2 DEF HostTypes, RW!Live
      <4>4. phase' = phase \/ phase' \in {"Connected", "Retrying", "Failed"}
        BY <2>2 DEF RW!AttemptDone
      <4> QED  BY <4>3, <4>4 DEF HostTypes, Phases
    <3>4. /\ running' = running \ {e}
          /\ UNCHANGED <<epoch, ports, handling, shows, left, forwards, pending, open, asked, wanted, typed>>
      BY <2>2 DEF RW!AttemptDone, RW!shown
    <3> QED  BY <3>2, <3>3, <3>4 DEF HostTypes
  <2> QED  BY <1>2, <2>1, <2>2
<1>3. CASE RW!RetryDue
  BY <1>3 DEF HostTypes, RW!RetryDue, RW!Start, RW!Emit, RW!shown, Phases, Events
<1>4. CASE RW!MasterDied
  <2>1. events' \in Seq(Events)
    BY <1>4, MasterEvents, EmitType DEF HostTypes
  <2> QED  BY <1>4, <2>1 DEF HostTypes, RW!MasterDied, RW!Start, RW!shown, Phases
<1>5. ASSUME NEW w \in workers, NEW ok \in BOOLEAN, RW!CancelDone(w) \/ RW!IdentifyDone(w) \/ RW!ForwardDone(w, ok)
      PROVE  HostTypes'
  <2>1. w \in WorkerTypes /\ workers' \subseteq WorkerTypes
    BY <1>5 DEF HostTypes, RW!CancelDone, RW!IdentifyDone, RW!ForwardDone
  <2>2. PICK v : v \in Events /\ events' = Append(events, v)
    <3>1. CASE RW!CancelDone(w)
      BY <2>1, <3>1 DEF HostTypes, RW!CancelDone, RW!Emit, WorkerTypes, Events, Closable
    <3>2. CASE RW!IdentifyDone(w)
      BY <2>1, <3>2 DEF HostTypes, RW!IdentifyDone, RW!Emit, WorkerTypes, Events
    <3>3. CASE RW!ForwardDone(w, ok)
      BY <2>1, <3>3 DEF HostTypes, RW!ForwardDone, RW!Emit, WorkerTypes, Events
    <3> QED  BY <1>5, <3>1, <3>2, <3>3
  <2>3. w.of \in PortNos \/ UNCHANGED <<ports, open>>
    BY <1>5, <2>1 DEF RW!CancelDone, RW!IdentifyDone, RW!ForwardDone, WorkerTypes
  <2>4. ports' \subseteq PortNos /\ open' \subseteq PortNos
    BY <1>5, <2>3 DEF HostTypes, RW!CancelDone, RW!IdentifyDone, RW!ForwardDone
  <2>5. UNCHANGED <<phase, epoch, running, handling, shows, left, forwards, pending, asked, wanted, typed>>
    BY <1>5 DEF RW!CancelDone, RW!IdentifyDone, RW!ForwardDone, RW!conn, RW!shown
  <2> QED  BY <2>1, <2>2, <2>4, <2>5 DEF HostTypes
<1>6. CASE RW!Disconnect \/ RW!Reconnect
  <2>1. CASE RW!Disconnect
    BY <2>1 DEF HostTypes, RW!Disconnect, RW!GoDown, RW!shown, Phases
  <2>2. CASE RW!Reconnect
    <3>1. \E p \in Phases : RW!Start(p)
      BY <2>2 DEF RW!Reconnect, Phases
    <3> QED  BY <2>2, <3>1 DEF HostTypes, RW!Reconnect, RW!Start, RW!shown
  <2> QED  BY <1>6, <2>1, <2>2
<1>7. ASSUME NEW w \in Ids, RW!CloseWorkspace(w)  PROVE HostTypes'
  BY <1>7 DEF HostTypes, RW!CloseWorkspace, RW!GoDown, RW!conn, Phases, RW!NotLive, Shows, WorkerTypes
<1>8. ASSUME NEW w \in Ids, RW!ForwardPort(w)  PROVE HostTypes'
  BY <1>8 DEF HostTypes, RW!ForwardPort, RW!conn, WorkerTypes, PortNos
<1>9. ASSUME NEW w \in Ids, NEW run \in BOOLEAN, RW!OpenRemote(w, run)  PROVE HostTypes'
  <2>1. phase' \in Phases /\ epoch' \in 0 .. MaxEpoch /\ running' \subseteq 1 .. MaxEpoch
    BY <1>9 DEF HostTypes, RW!OpenRemote, RW!Start, RW!conn, Phases
  <2>2. workers' \subseteq WorkerTypes
    BY <1>9 DEF HostTypes, RW!OpenRemote, WorkerTypes
  <2>3. shows' \in [Ids -> Shows]
    <3>1. RW!Fresh \in Shows /\ [RW!Fresh EXCEPT !.run = run] \in Shows /\ RW!Terminals(RW!Fresh) \in Shows
      <4>1. 0 \in 0 .. MaxEpoch /\ epoch \in 0 .. MaxEpoch
        BY DEF HostTypes
      <4>2. RW!NotLive \in Shows
        BY <4>1 DEF RW!NotLive, Shows
      <4>3. RW!Fresh \in Shows
        BY <4>2 DEF RW!Fresh, Shows
      <4> QED  BY <4>1, <4>3 DEF Shows, RW!Terminals
    <3>2. shows' = [shows EXCEPT ![w] = IF RW!Connected THEN RW!Terminals(RW!Fresh) ELSE [RW!Fresh EXCEPT !.run = run]]
      BY <1>9 DEF RW!OpenRemote
    <3> QED  BY <3>1, <3>2 DEF HostTypes
  <2>4. typed' \in [Ids -> Nat] /\ wanted' \subseteq Ids
    BY <1>9 DEF HostTypes, RW!OpenRemote
  <2>5. UNCHANGED <<ports, events, handling, left, forwards, pending, open, asked>>
    BY <1>9 DEF RW!OpenRemote
  <2> QED  BY <2>1, <2>2, <2>3, <2>4, <2>5 DEF HostTypes
<1>10. ASSUME NEW f \in forwards, RW!StopPort(f)  PROVE HostTypes'
  BY <1>10 DEF HostTypes, RW!StopPort, RW!conn, RW!shown, WorkerTypes
<1>11. CASE UNCHANGED RW!vars
  BY <1>11 DEF HostTypes, RW!vars, RW!conn, RW!shown
<1> QED
  BY <1>1, <1>2, <1>3, <1>4, <1>5, <1>6, <1>7, <1>8, <1>9, <1>10, <1>11 DEF RW!Next, RW!Workers, RW!User

-----------------------------------------------------------------------------
(* What a message gives comes after what was there.                         *)
LEMMA Emitted ==
  ASSUME events \in Seq(Events), NEW es \in Seq(Events), RW!Emit(es)
  PROVE  /\ \A i \in DOMAIN events : i \in DOMAIN events' /\ events'[i] = events[i]
         /\ \A i \in DOMAIN es : Len(events) + i \in DOMAIN events' /\ events'[Len(events) + i] = es[i]
         /\ \A i \in DOMAIN events' : \/ i \in DOMAIN events
                                      \/ \E j \in DOMAIN es : i = Len(events) + j /\ events'[i] = es[j]
<1>1. /\ events' = events \o es /\ Len(events) \in Nat /\ Len(es) \in Nat
      /\ DOMAIN events = 1 .. Len(events) /\ DOMAIN es = 1 .. Len(es)
      /\ DOMAIN events' = 1 .. Len(events) + Len(es)
  BY DEF RW!Emit
<1>2. ASSUME NEW i \in DOMAIN events', i \notin DOMAIN events
      PROVE  \E j \in DOMAIN es : i = Len(events) + j /\ events'[i] = es[j]
  <2>1. i - Len(events) \in DOMAIN es /\ i = Len(events) + (i - Len(events))
    BY <1>1, <1>2
  <2>2. events'[i] = es[i - Len(events)]
    BY <1>1, <1>2
  <2> QED  BY <2>1, <2>2
<1> QED  BY <1>1, <1>2

(* The first event is taken, and the others move up.                        *)
LEMMA Taken ==
  ASSUME events \in Seq(Events), events # <<>>, events' = Tail(events)
  PROVE  /\ \A i \in DOMAIN events' : i + 1 \in DOMAIN events /\ i + 1 # 1 /\ events'[i] = events[i + 1]
         /\ \A i \in DOMAIN events : i = 1 \/ (i - 1 \in DOMAIN events' /\ events'[i - 1] = events[i])
         /\ 1 \in DOMAIN events /\ Head(events) = events[1] /\ Head(events) \in Events
         /\ DOMAIN events \subseteq Nat /\ DOMAIN events' \subseteq Nat
  OBVIOUS

(* App::host_changed has the terminals on this connection, git at work just *)
(* while it is up, and drops a command only with a terminal to type it in.  *)
LEMMA FollowFacts ==
  ASSUME RW!ConstantsOK, epoch \in 0 .. MaxEpoch, NEW l \in Shows, l.panes = l.spawned,
         RW!Connected => epoch > 0, l.run => l.on /\ l.spawned = 0
  PROVE  /\ RW!Follow(l).panes = RW!Follow(l).spawned
         /\ RW!Connected /\ l.on => RW!Follow(l).spawned = epoch /\ RW!Follow(l).git # "offline"
         /\ ~RW!Connected /\ l.on => RW!Follow(l).git # "online"
         /\ RW!Follow(l).run => l.run /\ RW!Follow(l).spawned = 0
         /\ l.run => (RW!Follow(l).run <=> RW!Follow(l).spawned = l.spawned)
<1> DEFINE cleared == IF phase = "Disconnected" THEN [l EXCEPT !.panes = 0, !.spawned = 0] ELSE l
           git == IF l.git = "none" THEN "none" ELSE IF RW!Connected THEN "online" ELSE "offline"
           started == IF RW!Stale(l) THEN RW!Terminals(cleared) ELSE cleared
<1>1. RW!Follow(l) = IF ~l.on THEN l ELSE [started EXCEPT !.git = git]
  BY DEF RW!Follow
<1>2. /\ cleared \in Shows /\ cleared.panes = cleared.spawned /\ cleared.run = l.run
      /\ RW!Connected => cleared = l
      /\ l.run => cleared.spawned = 0
  <2>1. 0 \in 0 .. MaxEpoch
    BY DEF RW!ConstantsOK
  <2> QED  BY <2>1 DEF Shows, RW!Connected
<1>3. /\ started \in Shows /\ started.panes = started.spawned
      /\ RW!Connected /\ l.on => started.spawned = epoch
      /\ started.run => l.run /\ started.spawned = 0
      /\ l.run => (started.run <=> started.spawned = l.spawned)
  <2>1. CASE RW!Stale(l)
    <3> HIDE DEF cleared
    <3> QED  BY <1>2, <2>1 DEF Shows, RW!Terminals, RW!Stale
  <2>2. CASE ~RW!Stale(l)
    <3> HIDE DEF cleared
    <3> QED  BY <1>2, <2>2 DEF Shows, RW!Stale
  <2> QED  BY <2>1, <2>2
<1>4. (RW!Connected => git # "offline") /\ (~RW!Connected => git # "online")
  OBVIOUS
<1>5. CASE l.on
  <2> HIDE DEF started, git
  <2> QED  BY <1>1, <1>3, <1>4, <1>5 DEF Shows
<1>6. CASE ~l.on
  BY <1>1, <1>6 DEF Shows
<1> QED  BY <1>5, <1>6

(* Every step keeps the workspaces in step, or an event announced.          *)
LEMMA FollowStep == ASSUME RW!ConstantsOK, HostTypes, FollowInv, RunInv, [RW!Next]_RW!vars PROVE FollowInv'
<1>1. CASE RW!HandleEvent
  <2> DEFINE e == Head(events)
  <2>1. /\ UNCHANGED <<phase, epoch>> /\ events # <<>> /\ events' = Tail(events) /\ e \in Events
        /\ (RW!Connected' <=> RW!Connected)
    BY <1>1 DEF HostTypes, RW!HandleEvent, RW!conn, RW!Connected
  <2>2. \/ e.kind = "Changed" /\ RW!HostChanged
        \/ e.kind # "Changed" /\ RW!PortForwarded(e.of, e.ok)
        \/ e.kind # "Changed" /\ RW!PortClosed(e.of)
        \/ e.kind # "Changed" /\ RW!RepoIdentity(e.of) /\ e.of \in Ids
    BY <1>1, <2>1 DEF RW!HandleEvent, Events
  <2>3. e.kind # "Changed" => (Announced => Announced')
    <3> SUFFICES ASSUME e.kind # "Changed", NEW i \in DOMAIN events, events[i].kind = "Changed"
                 PROVE  \E j \in DOMAIN events' : events'[j].kind = "Changed"
      BY DEF Announced
    <3>1. /\ i = 1 \/ (i - 1 \in DOMAIN events' /\ events'[i - 1] = events[i])
          /\ e = events[1]
      BY <2>1, Taken DEF HostTypes
    <3> HIDE DEF e
    <3> QED  BY <3>1
  <2> HIDE DEF e
  <2>4. CASE RW!HostChanged
    <3>1. \A w \in Ids : shows'[w] = RW!Follow(shows[w]) /\ shows[w] \in Shows
      BY <2>4 DEF RW!HostChanged, HostTypes
    <3>2. \A w \in Ids : RW!Follow(shows[w]).on = shows[w].on
      BY <3>1, FollowType DEF HostTypes
    <3>3. \A w \in Ids : /\ shows'[w].panes = shows'[w].spawned
                         /\ RW!Connected /\ shows[w].on => shows'[w].spawned = epoch /\ shows'[w].git # "offline"
                         /\ ~RW!Connected /\ shows[w].on => shows'[w].git # "online"
      BY <3>1, FollowFacts DEF HostTypes, FollowInv, RunInv, RW!Connected
    <3>4. phase \in Lines => forwards' = {}
      BY <2>4 DEF RW!HostChanged, RW!Connected, Lines
    <3> QED  BY <2>1, <3>1, <3>2, <3>3, <3>4 DEF FollowInv, RW!Live, RW!Connected, Lines
  <2>5. CASE e.kind # "Changed" /\ (RW!PortForwarded(e.of, e.ok) \/ RW!PortClosed(e.of))
    <3>1. shows' = shows /\ (phase \in Lines /\ forwards = {} => forwards' = {})
      BY <2>5 DEF RW!PortForwarded, RW!PortClosed, Lines, RW!Connected
    <3> QED  BY <2>1, <2>3, <2>5, <3>1 DEF FollowInv, RW!Live, RW!Connected
  <2>6. CASE e.kind # "Changed" /\ RW!RepoIdentity(e.of) /\ e.of \in Ids
    <3>1. forwards' = forwards
      BY <2>6 DEF RW!RepoIdentity
    <3>2. \A w \in Ids : /\ shows'[w].panes = shows[w].panes /\ shows'[w].spawned = shows[w].spawned
                         /\ shows'[w].on = shows[w].on
                         /\ \/ shows'[w].git = shows[w].git
                            \/ shows'[w].git = IF RW!Connected THEN "online" ELSE "offline"
      BY <2>6 DEF RW!RepoIdentity, HostTypes, Shows
    <3> QED  BY <2>1, <2>3, <2>6, <3>1, <3>2 DEF FollowInv, RW!Live, RW!Connected, Lines
  <2> QED  BY <2>2, <2>4, <2>5, <2>6
<1>2. ASSUME NEW es \in Seq(Events), RW!Emit(es)
      PROVE  /\ Announced => Announced'
             /\ (\E i \in DOMAIN es : es[i].kind = "Changed") => Announced'
  BY <1>2, Emitted DEF HostTypes, Announced
<1>3. RW!Emit(<<[kind |-> "Changed"]>>) => Announced'
  <2>1. <<[kind |-> "Changed"]>> \in Seq(Events)
    BY DEF Events
  <2>2. 1 \in DOMAIN <<[kind |-> "Changed"]>> /\ <<[kind |-> "Changed"]>>[1].kind = "Changed"
    OBVIOUS
  <2> QED  BY <1>2, <2>1, <2>2
<1>4. ASSUME NEW e \in running, RW!Progress(e)  PROVE FollowInv'
  BY <1>3, <1>4 DEF RW!Progress, FollowInv, RW!conn, RW!shown, RW!Live, RW!Connected
<1>5. ASSUME NEW e \in running, NEW p \in {"Connected", "Retrying", "Failed", phase}, RW!AttemptDone(e, p)
      PROVE  FollowInv'
  <2>1. UNCHANGED <<epoch, shows, forwards>> /\ e > 0
    BY <1>5 DEF RW!AttemptDone, RW!shown, HostTypes
  <2>2. CASE phase' = phase /\ events' = events
    BY <2>1, <2>2 DEF FollowInv, Announced, RW!Live, RW!Connected
  <2>3. CASE Announced' /\ e = epoch
    BY <2>1, <2>3 DEF FollowInv
  <2> QED  BY <1>3, <1>5, <2>2, <2>3 DEF RW!AttemptDone
<1>6. CASE RW!RetryDue
  BY <1>3, <1>6 DEF RW!RetryDue, RW!Start, FollowInv, HostTypes, RW!shown
<1>7. CASE RW!MasterDied
  <2>1. Announced'
    BY <1>2, <1>7, MasterEvents DEF HostTypes
  <2> QED  BY <1>7, <2>1 DEF RW!MasterDied, RW!Start, FollowInv, HostTypes, RW!shown
<1>8. ASSUME NEW w \in workers, NEW ok \in BOOLEAN, RW!CancelDone(w) \/ RW!IdentifyDone(w) \/ RW!ForwardDone(w, ok)
      PROVE  FollowInv'
  <2>1. \E es \in Seq(Events) : RW!Emit(es)
    <3>1. w \in WorkerTypes
      BY DEF HostTypes
    <3>2. CASE RW!CancelDone(w)
      <4>1. <<[kind |-> "PortClosed", of |-> w.of]>> \in Seq(Events)
        BY <3>1, <3>2 DEF RW!CancelDone, WorkerTypes, Events, Closable
      <4> QED  BY <3>2, <4>1 DEF RW!CancelDone
    <3>3. CASE RW!IdentifyDone(w)
      <4>1. <<[kind |-> "RepoIdentity", of |-> w.of]>> \in Seq(Events)
        BY <3>1, <3>3 DEF RW!IdentifyDone, WorkerTypes, Events
      <4> QED  BY <3>3, <4>1 DEF RW!IdentifyDone
    <3>4. CASE RW!ForwardDone(w, ok)
      <4>1. <<[kind |-> "PortForwarded", of |-> w.of, ok |-> ok]>> \in Seq(Events)
        BY <3>1, <3>4 DEF RW!ForwardDone, WorkerTypes, Events
      <4> QED  BY <3>4, <4>1 DEF RW!ForwardDone
    <3> QED  BY <1>8, <3>2, <3>3, <3>4
  <2>2. Announced => Announced'
    BY <1>2, <2>1
  <2>3. UNCHANGED <<phase, epoch, shows, forwards>>
    BY <1>8 DEF RW!CancelDone, RW!IdentifyDone, RW!ForwardDone, RW!conn, RW!shown
  <2> QED  BY <2>2, <2>3 DEF FollowInv, RW!Live, RW!Connected
<1>9. CASE RW!Disconnect
  BY <1>9 DEF RW!Disconnect, RW!GoDown, FollowInv, Announced, RW!Live, RW!Connected, Lines, RW!shown
<1>10. CASE RW!Reconnect
  BY <1>10 DEF RW!Reconnect, RW!Start, FollowInv, HostTypes, Announced, RW!Live, RW!Connected, Lines, RW!shown
<1>11. ASSUME NEW w \in Ids, RW!CloseWorkspace(w)  PROVE FollowInv'
  <2>1. \A v \in Ids : shows'[v] = IF v = w THEN RW!NotLive ELSE shows[v]
    BY <1>11 DEF RW!CloseWorkspace, HostTypes
  <2>2. /\ UNCHANGED <<events, forwards>>
        /\ phase' = "Disconnected" \/ UNCHANGED <<phase, epoch>>
    BY <1>11 DEF RW!CloseWorkspace, RW!GoDown, RW!conn
  <2> QED  BY <2>1, <2>2 DEF FollowInv, RW!NotLive, Announced, RW!Live, RW!Connected, Lines
<1>12. CASE (\E w \in Ids : RW!ForwardPort(w)) \/ (\E f \in forwards : RW!StopPort(f)) \/ UNCHANGED RW!vars
  <2>1. UNCHANGED <<phase, epoch, shows, forwards, events>>
    BY <1>12 DEF RW!ForwardPort, RW!StopPort, RW!vars, RW!conn, RW!shown
  <2> QED  BY <2>1 DEF FollowInv, Announced, RW!Live, RW!Connected
<1>13. ASSUME NEW w \in Ids, NEW run \in BOOLEAN, RW!OpenRemote(w, run)  PROVE FollowInv'
  <2>1. \A v \in Ids : v # w => shows'[v] = shows[v]
    BY <1>13 DEF RW!OpenRemote, HostTypes
  <2>2. /\ shows'[w].panes = shows'[w].spawned /\ shows'[w].git = "none"
        /\ RW!Connected => shows'[w].spawned = epoch
    BY <1>13 DEF RW!OpenRemote, HostTypes, RW!Terminals, RW!Fresh, RW!NotLive
  <2>3. \/ UNCHANGED <<phase, epoch>>
        \/ phase' = "Connecting" /\ epoch' = epoch + 1
    BY <1>13 DEF RW!OpenRemote, RW!Start, RW!conn
  <2>4. UNCHANGED <<events, forwards>>
    BY <1>13 DEF RW!OpenRemote
  <2>5. /\ phase' # "Disconnected" => epoch' > 0
        /\ \A v \in Ids : shows'[v].panes = shows'[v].spawned
    BY <2>1, <2>2, <2>3 DEF FollowInv, HostTypes
  <2>6. Announced' <=> Announced
    BY <2>4 DEF Announced
  <2>7. CASE phase' = "Connecting"
    BY <2>5, <2>7 DEF FollowInv, RW!Connected, Lines
  <2>8. CASE UNCHANGED <<phase, epoch>>
    <3>1. /\ \A v \in Ids \ {w} : v \in RW!Live' <=> v \in RW!Live
          /\ RW!Connected' <=> RW!Connected
      BY <2>1, <2>8 DEF RW!Live, RW!Connected
    <3>2. CASE Announced
      BY <2>5, <2>6, <3>2 DEF FollowInv
    <3>3. CASE ~Announced
      <4>1. \A v \in RW!Live' \ {w} : /\ RW!Connected' => shows'[v].spawned = epoch' /\ shows'[v].git # "offline"
                                      /\ phase' \in Lines => shows'[v].git # "online"
        BY <2>1, <2>8, <3>1, <3>3 DEF FollowInv, RW!Live
      <4>2. /\ RW!Connected' => shows'[w].spawned = epoch' /\ shows'[w].git # "offline"
            /\ phase' \in Lines => shows'[w].git # "online"
        BY <2>2, <2>8, <3>1
      <4>3. phase' \in Lines => forwards' = {}
        BY <2>4, <2>8, <3>3 DEF FollowInv
      <4> QED  BY <2>5, <4>1, <4>2, <4>3 DEF FollowInv
    <3> QED  BY <3>2, <3>3
  <2> QED  BY <2>3, <2>7, <2>8
<1> QED
  BY <1>1, <1>4, <1>5, <1>6, <1>7, <1>8, <1>9, <1>10, <1>11, <1>12, <1>13 DEF RW!Next, RW!Workers, RW!User

(* Every step types a command once at most, and forgets none.               *)
LEMMA RunStep == ASSUME RW!ConstantsOK, HostTypes, FollowInv, RunInv, [RW!Next]_RW!vars PROVE RunInv'
<1>1. CASE RW!HandleEvent
  <2> DEFINE e == Head(events)
  <2>1. UNCHANGED <<left, wanted>>
    BY <1>1 DEF RW!HandleEvent
  <2>2. \/ RW!HostChanged
        \/ RW!PortForwarded(e.of, e.ok)
        \/ RW!PortClosed(e.of)
        \/ RW!RepoIdentity(e.of)
    BY <1>1, Taken DEF HostTypes, RW!HandleEvent, Events
  <2> HIDE DEF e
  <2>3. CASE RW!HostChanged
    <3>1. \A w \in Ids : /\ shows'[w] = RW!Follow(shows[w]) /\ shows[w] \in Shows
                         /\ typed'[w] = typed[w] + IF shows[w].run /\ shows'[w].spawned # shows[w].spawned THEN 1 ELSE 0
      BY <2>3 DEF RW!HostChanged, RW!Typing, HostTypes
    <3>2. \A w \in Ids : shows'[w].on = shows[w].on
      BY <3>1, FollowType DEF HostTypes
    <3>3. \A w \in Ids : /\ shows'[w].run => shows[w].run /\ shows'[w].spawned = 0
                         /\ shows[w].run => (shows'[w].run <=> shows'[w].spawned = shows[w].spawned)
      BY <3>1, FollowFacts DEF HostTypes, FollowInv, RunInv, RW!Connected
    <3>4. \A w \in Ids : typed[w] \in Nat
      BY DEF HostTypes
    <3> QED  BY <2>1, <3>1, <3>2, <3>3, <3>4 DEF RunInv, RW!Live
  <2>4. CASE RW!PortForwarded(e.of, e.ok) \/ RW!PortClosed(e.of)
    BY <2>1, <2>4 DEF RW!PortForwarded, RW!PortClosed, RunInv, RW!Live
  <2>5. CASE RW!RepoIdentity(e.of)
    <3>1. \A w \in Ids : /\ shows'[w].run = shows[w].run /\ shows'[w].spawned = shows[w].spawned
                         /\ shows'[w].on = shows[w].on
      BY <2>5 DEF RW!RepoIdentity, HostTypes, Shows
    <3>2. typed' = typed
      BY <2>5 DEF RW!RepoIdentity
    <3> QED  BY <2>1, <3>1, <3>2 DEF RunInv, RW!Live
  <2> QED  BY <2>2, <2>3, <2>4, <2>5
<1>2. ASSUME NEW w \in Ids, RW!CloseWorkspace(w)  PROVE RunInv'
  <2>1. \A v \in Ids : shows'[v] = IF v = w THEN RW!NotLive ELSE shows[v]
    BY <1>2 DEF RW!CloseWorkspace, HostTypes
  <2>2. left' = left \cup {w} /\ UNCHANGED <<wanted, typed>>
    BY <1>2 DEF RW!CloseWorkspace
  <2> QED  BY <2>1, <2>2 DEF RunInv, RW!NotLive, RW!Live
<1>3. ASSUME NEW w \in Ids, NEW run \in BOOLEAN, RW!OpenRemote(w, run)  PROVE RunInv'
  <2>1. \A v \in Ids : v # w => shows'[v] = shows[v] /\ typed'[v] = typed[v]
    BY <1>3 DEF RW!OpenRemote, HostTypes
  <2>2. /\ shows'[w].on /\ typed'[w] = IF run /\ RW!Connected THEN 1 ELSE 0
        /\ ~RW!Connected => shows'[w].run = run /\ shows'[w].spawned = 0
        /\ RW!Connected => ~shows'[w].run
    BY <1>3 DEF RW!OpenRemote, HostTypes, RW!Terminals, RW!Fresh, RW!NotLive
  <2>3. /\ wanted' = (IF run THEN wanted \cup {w} ELSE wanted) /\ left' = left
        /\ w \notin RW!Live \cup left
    BY <1>3 DEF RW!OpenRemote
  <2> QED  BY <2>1, <2>2, <2>3 DEF RunInv, RW!Live
<1>4. CASE RW!Next /\ ~RW!HandleEvent /\ ~(\E w \in Ids : RW!CloseWorkspace(w)) /\ ~(\E w \in Ids, run \in BOOLEAN : RW!OpenRemote(w, run))
  <2>1. UNCHANGED <<shows, typed, wanted, left>>
    BY <1>4 DEF RW!Next, RW!Workers, RW!User, RW!Progress, RW!AttemptDone, RW!RetryDue, RW!MasterDied, RW!ForwardDone, RW!CancelDone,
                RW!IdentifyDone, RW!Disconnect, RW!Reconnect, RW!ForwardPort, RW!StopPort, RW!shown
  <2> QED  BY <2>1 DEF RunInv, RW!Live
<1>5. CASE UNCHANGED RW!vars
  BY <1>5 DEF RW!vars, RW!shown, RunInv, RW!Live
<1> QED  BY <1>1, <1>2, <1>3, <1>4, <1>5

-----------------------------------------------------------------------------
(* Every step leaves each port in one hand, of a patient user.              *)
LEMMA PortStep == ASSUME Patient, RW!ConstantsOK, HostTypes, FollowInv, PortInv, [RW!Next]_RW!vars PROVE PortInv'
<1>1. CASE RW!HandleEvent
  <2> DEFINE e == Head(events)
  <2>1. /\ UNCHANGED <<phase, epoch, ports, workers, left, open, asked>>
        /\ events # <<>> /\ events' = Tail(events) /\ e = events[1] /\ 1 \in DOMAIN events
    BY <1>1, Taken DEF HostTypes, RW!HandleEvent, RW!conn
  <2>2. \/ e.kind = "Changed" /\ RW!HostChanged
        \/ e.kind = "PortForwarded" /\ RW!PortForwarded(e.of, e.ok)
        \/ e.kind = "PortClosed" /\ RW!PortClosed(e.of)
        \/ e.kind = "RepoIdentity" /\ RW!RepoIdentity(e.of) /\ e.of \in Ids
    BY <1>1, Taken DEF HostTypes, RW!HandleEvent, Events
  <2> HIDE DEF e
  \* what is left to handle, and the workspaces there are
  <2>3. /\ \A i \in DOMAIN events' : i + 1 \in DOMAIN events /\ events'[i] = events[i + 1] /\ (Answers(i)' <=> Answers(i + 1))
        /\ \A i \in DOMAIN events : i # 1 => i - 1 \in DOMAIN events' /\ events'[i - 1] = events[i] /\ (Answers(i - 1)' <=> Answers(i))
        /\ DOMAIN events \subseteq Nat /\ DOMAIN events' \subseteq Nat
    BY <2>1, Taken DEF HostTypes, Answers
  <2>4. RW!Live' = RW!Live
    <3>1. CASE RW!HostChanged
      <4>1. \A w \in Ids : shows'[w] = RW!Follow(shows[w]) /\ shows[w] \in Shows
        BY <3>1 DEF RW!HostChanged, HostTypes
      <4> QED  BY <4>1, FollowType DEF HostTypes, RW!Live
    <3>2. CASE RW!PortForwarded(e.of, e.ok) \/ RW!PortClosed(e.of)
      BY <3>2 DEF RW!PortForwarded, RW!PortClosed, RW!Live
    <3>3. CASE RW!RepoIdentity(e.of)
      BY <3>3 DEF RW!RepoIdentity, HostTypes, Shows, RW!Live
    <3> QED  BY <2>2, <3>1, <3>2, <3>3
  <2>5. \A p \in ports : Listed(p) \/ (Asked(p) /\ \E i \in DOMAIN events : Answers(i) /\ events[i].of = p /\ events[i].ok)
    BY DEF PortInv, ListInv
  <2>6. pending' \subseteq pending
    BY <2>2 DEF RW!HostChanged, RW!PortForwarded, RW!PortClosed, RW!RepoIdentity
  \* a forward that is answered was asked for, and by no other
  <2>7. \A p : RW!Connected /\ ~(e.kind = "PortForwarded" /\ e.of = p) => (Asked(p) => Asked(p)')
    BY <2>2 DEF RW!HostChanged, RW!PortForwarded, RW!PortClosed, RW!RepoIdentity, Asked
  <2>8. \A p \in ports : Listed(p) => Listed(p)'
    <3>1. (RW!Connected /\ (e.kind = "PortClosed" => e.of \notin ports)) \/ ports = {}
      BY <2>1 DEF PortInv, HeldInv, ClosedInv
    <3> QED  BY <2>2, <2>4, <3>1 DEF RW!HostChanged, RW!PortForwarded, RW!PortClosed, RW!RepoIdentity, Listed
  <2>9. \A p \in ports : \/ Listed(p)'
                         \/ Asked(p)' /\ \E i \in DOMAIN events' : Answers(i)' /\ events'[i].of = p /\ events'[i].ok
    <3> SUFFICES ASSUME NEW p \in ports, ~Listed(p)
                 PROVE  \/ Listed(p)'
                        \/ Asked(p)' /\ \E i \in DOMAIN events' : Answers(i)' /\ events'[i].of = p /\ events'[i].ok
      BY <2>8
    <3>1. PICK i \in DOMAIN events : Answers(i) /\ events[i].of = p /\ events[i].ok
      BY <2>5
    <3>2. Asked(p) /\ RW!Connected
      BY <2>5 DEF PortInv, HeldInv
    <3>3. CASE i = 1
      <4>1. RW!PortForwarded(p, TRUE)
        BY <2>1, <2>2, <3>1, <3>3 DEF Answers, HostTypes, Events
      <4>2. \E q \in pending : q.port = p /\ q \in forwards' /\ q.of \in RW!Live
        BY <3>2, <4>1 DEF RW!PortForwarded, Asked, PortInv, AskInv
      <4> QED  BY <2>4, <4>2 DEF Listed
    <3>4. CASE i # 1
      <4>1. ~(e.kind = "PortForwarded" /\ e.of = p)
        BY <2>1, <3>1, <3>4 DEF PortInv, AnswerInv, Answers
      <4> QED  BY <2>3, <2>7, <3>1, <3>2, <3>4, <4>1
    <3> QED  BY <3>3, <3>4
  <2>10. \A c \in workers : c.kind = "forward" /\ c.at = epoch /\ epoch > 0 => Asked(c.of)'
    <3> SUFFICES ASSUME NEW c \in workers, c.kind = "forward", c.at = epoch, epoch > 0
                 PROVE  Asked(c.of)'
      OBVIOUS
    <3>1. RW!Connected /\ Asked(c.of)
      BY DEF PortInv, WorkInv
    <3>2. ~(e.kind = "PortForwarded" /\ e.of = c.of)
      BY <2>1 DEF PortInv, AnswerInv, Answers, Forwarding
    <3> QED  BY <2>7, <3>1, <3>2
  <2>11. /\ RW!Connected' <=> RW!Connected
         /\ \A p : (Forwarding(p)' <=> Forwarding(p)) /\ (Cancelling(p)' <=> Cancelling(p))
    BY <2>1 DEF RW!Connected, Forwarding, Cancelling
  <2>12. HeldInv' /\ WorkInv' /\ AskInv'
    BY <2>1, <2>4, <2>6, <2>10, <2>11 DEF PortInv, HeldInv, WorkInv, AskInv
  <2>13. AnswerInv' /\ ClosedInv'
    BY <2>1, <2>3, <2>11 DEF PortInv, AnswerInv, ClosedInv
  <2> QED  BY <2>1, <2>9, <2>12, <2>13 DEF PortInv, ListInv
\* the events emitted, but for the answer of a forward
<1>2. ASSUME NEW es \in Seq(Events), RW!Emit(es), \A j \in DOMAIN es : es[j].kind # "PortForwarded"
      PROVE  /\ \A i : Answers(i)' <=> Answers(i)
             /\ \A i \in DOMAIN events : i \in DOMAIN events' /\ events'[i] = events[i]
             /\ \A i \in DOMAIN events' : i \in DOMAIN events \/ \E j \in DOMAIN es : events'[i] = es[j]
  BY <1>2, Emitted DEF HostTypes, Answers
<1>3. ASSUME NEW ev \in Events, RW!Emit(<<ev>>), ev.kind # "PortForwarded"
      PROVE  /\ \A i : Answers(i)' <=> Answers(i)
             /\ \A i \in DOMAIN events : i \in DOMAIN events' /\ events'[i] = events[i]
             /\ \A i \in DOMAIN events' : i \in DOMAIN events \/ events'[i] = ev
  <2>1. <<ev>> \in Seq(Events) /\ DOMAIN <<ev>> = {1} /\ <<ev>>[1] = ev
    OBVIOUS
  <2> QED  BY <1>2, <1>3, <2>1
<1>4. [kind |-> "Changed"] \in Events
  BY DEF Events
\* a message that answers no forward
<1>5. ASSUME \A i : Answers(i)' <=> Answers(i),
             \A i \in DOMAIN events : i \in DOMAIN events' /\ events'[i] = events[i],
             UNCHANGED <<asked, pending, shows, forwards>>, ports' \subseteq ports,
             \A c \in workers' : c \in workers \/ c.kind = "identify",
             workers \subseteq workers'
      PROVE  /\ AskInv' /\ AnswerInv' /\ ListInv'
             /\ \A p : /\ Forwarding(p)' <=> Forwarding(p)
                       /\ Cancelling(p)' <=> Cancelling(p)
                       /\ Asked(p)' <=> Asked(p)
  <2>1. \A p : /\ Forwarding(p)' <=> Forwarding(p)
               /\ Cancelling(p)' <=> Cancelling(p)
               /\ Asked(p)' <=> Asked(p)
               /\ Listed(p)' <=> Listed(p)
    BY <1>5 DEF Forwarding, Cancelling, Asked, Listed, RW!Live
  <2>2. AskInv'
    BY <1>5 DEF PortInv, AskInv, RW!Live
  <2>3. AnswerInv'
    <3>1. \A i : Answers(i) => i \in DOMAIN events
      BY DEF Answers
    <3> QED  BY <1>5, <2>1, <3>1 DEF PortInv, AnswerInv
  <2>4. ListInv'
    BY <1>5, <2>1 DEF PortInv, ListInv
  <2> QED  BY <2>1, <2>2, <2>3, <2>4
<1>6. ASSUME NEW e \in running, RW!Progress(e)  PROVE PortInv'
  <2>1. UNCHANGED <<phase, epoch, ports, workers, shows, forwards, pending, open, asked>>
    BY <1>6 DEF RW!Progress, RW!conn, RW!shown
  <2>2. RW!Emit(<<[kind |-> "Changed"]>>)
    BY <1>6 DEF RW!Progress
  <2>3. /\ AskInv' /\ AnswerInv' /\ ListInv'
        /\ \A p : /\ Forwarding(p)' <=> Forwarding(p)
                  /\ Cancelling(p)' <=> Cancelling(p)
                  /\ Asked(p)' <=> Asked(p)
    BY <1>3, <1>4, <1>5, <2>1, <2>2
  <2>4. HeldInv' /\ WorkInv' /\ ClosedInv'
    BY <1>3, <1>4, <2>1, <2>2, <2>3 DEF PortInv, HeldInv, WorkInv, ClosedInv, RW!Connected
  <2> QED  BY <2>3, <2>4 DEF PortInv
<1>7. ASSUME NEW e \in running, NEW p \in {"Connected", "Retrying", "Failed", phase}, RW!AttemptDone(e, p)
      PROVE  PortInv'
  <2>1. UNCHANGED <<epoch, ports, shows, forwards, pending, open, asked>>
    BY <1>7 DEF RW!AttemptDone, RW!shown
  <2>2. (\A c \in workers' : c \in workers \/ c.kind = "identify") /\ workers \subseteq workers'
    BY <1>7 DEF RW!AttemptDone
  <2>3. \/ phase' = phase /\ events' = events
        \/ e = epoch /\ e > 0 /\ ~RW!Connected /\ RW!Emit(<<[kind |-> "Changed"]>>)
    BY <1>7 DEF RW!AttemptDone, HostTypes, RW!Connected
  <2>4. /\ \A i : Answers(i)' <=> Answers(i)
        /\ \A i \in DOMAIN events : i \in DOMAIN events' /\ events'[i] = events[i]
        /\ \A i \in DOMAIN events' : i \in DOMAIN events \/ events'[i].kind = "Changed"
    BY <1>3, <1>4, <2>3 DEF Answers
  <2>5. /\ AskInv' /\ AnswerInv' /\ ListInv'
        /\ \A q : /\ Forwarding(q)' <=> Forwarding(q)
                  /\ Cancelling(q)' <=> Cancelling(q)
                  /\ Asked(q)' <=> Asked(q)
    BY <1>5, <2>1, <2>2, <2>4
  \* no forward was asked for on a connection that is only coming up
  <2>6. \/ phase' = phase
        \/ ports = {} /\ \A c \in workers : c.kind = "forward" => c.at # epoch
    BY <2>3 DEF PortInv, HeldInv, WorkInv
  <2>7. HeldInv' /\ WorkInv'
    BY <2>1, <2>2, <2>5, <2>6 DEF PortInv, HeldInv, WorkInv, RW!Connected
  <2>8. ClosedInv'
    BY <2>1, <2>2, <2>4 DEF PortInv, ClosedInv
  <2> QED  BY <2>5, <2>7, <2>8 DEF PortInv
\* a connection that ends takes its ports with it
<1>8. CASE RW!RetryDue \/ RW!MasterDied
  <2>1. UNCHANGED <<workers, shows, forwards, pending, asked>> /\ epoch' = epoch + 1
    BY <1>8 DEF RW!RetryDue, RW!MasterDied, RW!Start, RW!shown
  <2>2. ports' = {} /\ (open' = {} \/ (ports = {} /\ open' = open))
    BY <1>8 DEF RW!RetryDue, RW!MasterDied, PortInv, HeldInv, RW!Connected
  <2>3. PICK es \in Seq(Events) : RW!Emit(es) /\ \A j \in DOMAIN es : es[j].kind # "PortForwarded"
    <3>1. CASE RW!MasterDied
      <4>1. PICK es \in Seq(Events) : /\ RW!Emit(es) /\ es[Len(es)] = [kind |-> "Changed"]
                                      /\ \A i \in DOMAIN es : i = Len(es) \/ es[i].kind = "PortClosed"
        BY <3>1, MasterEvents DEF HostTypes
      <4>2. es[Len(es)].kind = "Changed"
        BY <4>1
      <4>3. \A j \in DOMAIN es : es[j].kind # "PortForwarded"
        <5> TAKE j \in DOMAIN es
        <5> QED  BY <4>1, <4>2
      <4> QED  BY <4>1, <4>3 DEF RW!Emit
    <3>2. CASE RW!RetryDue
      <4>1. <<[kind |-> "Changed"]>> \in Seq(Events)
        BY <1>4
      <4>2. \A j \in DOMAIN <<[kind |-> "Changed"]>> : <<[kind |-> "Changed"]>>[j].kind # "PortForwarded"
        OBVIOUS
      <4>3. RW!Emit(<<[kind |-> "Changed"]>>)
        BY <3>2 DEF RW!RetryDue
      <4> QED  BY <4>1, <4>2, <4>3, Zenon
    <3> QED  BY <1>8, <3>1, <3>2
  <2>4. \A c \in workers : c.kind = "forward" => c.at < epoch' /\ c.at <= epoch'
    BY <2>1 DEF PortInv, WorkInv, HostTypes, WorkerTypes
  <2>5. /\ AskInv' /\ AnswerInv' /\ ListInv'
        /\ \A q : /\ Forwarding(q)' <=> Forwarding(q)
                  /\ Cancelling(q)' <=> Cancelling(q)
    BY <1>2, <1>5, <2>1, <2>2, <2>3
  <2>6. HeldInv'
    BY <2>2, <2>5 DEF PortInv, HeldInv
  <2>7. WorkInv'
    <3>1. \A c \in workers : c.kind = "forward" => c.at # epoch'
      BY <2>1, <2>4 DEF HostTypes, WorkerTypes
    <3> QED  BY <2>1, <2>2, <2>4, <2>5, <3>1 DEF PortInv, WorkInv
  <2>8. ClosedInv'
    BY <1>2, <2>1, <2>2, <2>3, <2>4 DEF PortInv, ClosedInv, HostTypes
  <2> QED  BY <2>5, <2>6, <2>7, <2>8 DEF PortInv
<1>9. ASSUME NEW w \in workers, RW!IdentifyDone(w) \/ RW!CancelDone(w)  PROVE PortInv'
  <2>1. /\ UNCHANGED <<phase, epoch, ports, shows, forwards, pending, asked>>
        /\ workers' = workers \ {w} /\ w \in WorkerTypes /\ w.kind \in {"identify", "cancel"}
        /\ open' = open \/ (w.kind = "cancel" /\ open' = open \ {w.of})
        /\ w.kind = "identify" => open' = open
    BY <1>9 DEF RW!IdentifyDone, RW!CancelDone, RW!conn, RW!shown, HostTypes
  <2>2. PICK ev \in Events : /\ RW!Emit(<<ev>>)
                             /\ \/ ev.kind = "RepoIdentity"
                                \/ ev.kind = "PortClosed" /\ ev.of = w.of /\ w.kind = "cancel"
    <3>1. CASE RW!IdentifyDone(w)
      BY <2>1, <3>1 DEF RW!IdentifyDone, WorkerTypes, Events
    <3>2. CASE RW!CancelDone(w)
      BY <2>1, <3>2 DEF RW!CancelDone, WorkerTypes, Events, Closable
    <3> QED  BY <1>9, <3>1, <3>2
  <2>3. /\ \A i : Answers(i)' <=> Answers(i)
        /\ \A i \in DOMAIN events : i \in DOMAIN events' /\ events'[i] = events[i]
        /\ \A i \in DOMAIN events' : i \in DOMAIN events \/ events'[i] = ev
    BY <1>3, <2>2
  <2>4. \A p : /\ Forwarding(p)' <=> Forwarding(p)
               /\ Cancelling(p)' \/ p = w.of \/ ~Cancelling(p)
               /\ Asked(p)' <=> Asked(p)
               /\ Listed(p)' <=> Listed(p)
    BY <2>1 DEF Forwarding, Cancelling, Asked, Listed, RW!Live
  <2>5. HeldInv'
    <3>1. w.kind = "identify" => \A p : Cancelling(p) => Cancelling(p)'
      BY <2>1 DEF Cancelling
    <3> QED  BY <1>9, <2>1, <2>4, <3>1 DEF PortInv, HeldInv, RW!Connected, RW!CancelDone, RW!IdentifyDone
  <2>6. WorkInv' /\ AskInv' /\ ListInv'
    BY <2>1, <2>3, <2>4 DEF PortInv, WorkInv, AskInv, ListInv, RW!Connected, RW!Live
  <2>7. AnswerInv'
    <3>1. \A i : Answers(i) => i \in DOMAIN events
      BY DEF Answers
    <3> QED  BY <2>1, <2>3, <2>4, <3>1 DEF PortInv, AnswerInv
  <2>8. ClosedInv'
    <3>1. ev.kind = "PortClosed" => ev.of \notin ports /\ ~Forwarding(ev.of)
      BY <2>1, <2>2 DEF PortInv, WorkInv
    <3>2. \A c \in workers : c.kind = "forward" => Forwarding(c.of)
      BY DEF Forwarding
    <3> QED  BY <2>1, <2>3, <3>1, <3>2 DEF PortInv, ClosedInv
  <2> QED  BY <2>5, <2>6, <2>7, <2>8 DEF PortInv
<1>10. ASSUME NEW w \in workers, NEW ok \in BOOLEAN, RW!ForwardDone(w, ok)  PROVE PortInv'
  <2> DEFINE p == w.of
             ev == [kind |-> "PortForwarded", of |-> p, ok |-> ok]
  <2>1. /\ UNCHANGED <<phase, epoch, shows, forwards, pending, asked>>
        /\ workers' = workers \ {w} /\ w \in WorkerTypes /\ w.kind = "forward" /\ p \in PortNos
        /\ ok => RW!Connected /\ w.at = epoch
        /\ ports' = (IF ok THEN ports \cup {p} ELSE ports) /\ open' = (IF ok THEN open \cup {p} ELSE open)
    BY <1>10 DEF RW!ForwardDone, RW!conn, RW!shown, HostTypes, WorkerTypes
  <2>2. ev \in Events /\ RW!Emit(<<ev>>)
    BY <1>10, <2>1 DEF RW!ForwardDone, Events
  <2>3. /\ \A i \in DOMAIN events : i \in DOMAIN events' /\ events'[i] = events[i]
        /\ \A i \in DOMAIN events' : i \in DOMAIN events \/ (i = Len(events) + 1 /\ events'[i] = ev)
        /\ Len(events) + 1 \in DOMAIN events' /\ events'[Len(events) + 1] = ev /\ Len(events) + 1 \notin DOMAIN events
    <3>1. <<ev>> \in Seq(Events) /\ DOMAIN <<ev>> = {1} /\ <<ev>>[1] = ev
      BY <2>2
    <3>2. Len(events) + 1 \notin DOMAIN events /\ events \in Seq(Events)
      BY DEF HostTypes
    <3> HIDE DEF ev
    <3>3. /\ \A i \in DOMAIN events : i \in DOMAIN events' /\ events'[i] = events[i]
          /\ \A i \in DOMAIN <<ev>> : Len(events) + i \in DOMAIN events' /\ events'[Len(events) + i] = <<ev>>[i]
          /\ \A i \in DOMAIN events' : \/ i \in DOMAIN events
                                       \/ \E j \in DOMAIN <<ev>> : i = Len(events) + j /\ events'[i] = <<ev>>[j]
      BY <2>2, <3>1, <3>2, Emitted
    <3> QED  BY <3>1, <3>2, <3>3
  <2>4. ev.kind = "PortForwarded" /\ ev.of = p /\ (ok => ev.ok)
    OBVIOUS
  <2> HIDE DEF ev
  \* nobody else forwards this port, and nothing else was said of it
  <2>5. /\ Forwarding(p) /\ p \notin ports /\ p <= asked /\ ~Cancelling(p)
        /\ \A c \in workers' : c.kind = "forward" => c.of # p
        /\ \A i \in DOMAIN events : Answers(i) => events[i].of # p
        /\ ok => /\ \A i \in DOMAIN events : events[i].kind = "PortClosed" => events[i].of # p
                 /\ epoch > 0 /\ Asked(p)
    <3>1. Forwarding(p)
      BY <2>1 DEF Forwarding
    <3>2. ~Cancelling(p)
      BY <3>1 DEF PortInv, WorkInv, Cancelling
    <3>3. \A c \in workers' : c.kind = "forward" => c.of # p
      BY <2>1 DEF PortInv, WorkInv
    <3>4. ok => epoch > 0
      BY <2>1 DEF FollowInv, RW!Connected
    <3> QED  BY <2>1, <3>1, <3>2, <3>3, <3>4 DEF PortInv, WorkInv, AnswerInv, ClosedInv
  <2>6. \A q : /\ Forwarding(q)' => Forwarding(q) /\ q # p
               /\ Cancelling(q)' <=> Cancelling(q)
               /\ Asked(q)' <=> Asked(q)
               /\ Listed(q)' <=> Listed(q)
    BY <2>1, <2>5 DEF Forwarding, Cancelling, Asked, Listed, RW!Live
  <2>7. HeldInv' /\ AskInv'
    <3>1. p \in 1 .. asked
      BY <2>1, <2>5 DEF HostTypes, PortNos
    <3>2. HeldInv'
      BY <2>1, <2>6, <3>1 DEF PortInv, HeldInv, RW!Connected
    <3> QED  BY <2>1, <3>2 DEF PortInv, AskInv, RW!Live
  <2>8. WorkInv'
    <3>1. \A c \in workers' : c.kind = "cancel" => c.of # p
      BY <2>1, <2>5 DEF Cancelling
    <3> QED  BY <2>1, <2>5, <2>6, <3>1 DEF PortInv, WorkInv, RW!Connected
  <2>9. AnswerInv'
    <3>1. \A i : Answers(i)' <=> (Answers(i) \/ i = Len(events) + 1)
      BY <2>3, <2>4 DEF Answers
    <3>2. \A i \in DOMAIN events' : Answers(i)' =>
            \/ i \in DOMAIN events /\ Answers(i) /\ events'[i] = events[i] /\ events[i].of # p
            \/ i = Len(events) + 1 /\ events'[i].of = p
      BY <2>3, <2>4, <2>5, <3>1 DEF Answers
    <3> QED  BY <2>1, <2>5, <2>6, <3>2 DEF PortInv, AnswerInv
  <2>10. ClosedInv'
    BY <2>1, <2>3, <2>4, <2>5 DEF PortInv, ClosedInv
  <2>11. ListInv'
    <3>1. \A i \in DOMAIN events : Answers(i) => Answers(i)'
      BY <2>3 DEF Answers
    <3>2. CASE ok
      <4>1. ev.ok
        BY <3>2, <2>4
      <4>2. \E i \in DOMAIN events' : Answers(i)' /\ events'[i].of = p /\ events'[i].ok
        <5>1. PICK i \in DOMAIN events' : events'[i] = ev
          BY <2>3
        <5>2. Answers(i)'
          BY <2>4, <5>1 DEF Answers
        <5>3. events'[i].of = p /\ events'[i].ok
          BY <2>4, <4>1, <5>1
        <5> QED  BY <5>1, <5>2, <5>3
      <4>3. ports' = ports \cup {p} /\ Asked(p)
        BY <2>1, <2>5, <3>2
      <4> QED  BY <2>3, <2>6, <3>1, <4>2, <4>3 DEF PortInv, ListInv
    <3>3. CASE ~ok
      <4>1. ports' = ports
        BY <2>1, <3>3
      <4> QED  BY <2>3, <2>6, <3>1, <4>1 DEF PortInv, ListInv
    <3> QED  BY <3>2, <3>3
  <2> QED  BY <2>7, <2>8, <2>9, <2>10, <2>11 DEF PortInv
\* the user, between polls
<1>11. RW!BetweenPolls => events = <<>> /\ DOMAIN events = {}
  BY DEF RW!BetweenPolls
<1>12. CASE RW!Disconnect \/ RW!Reconnect
  <2>1. /\ UNCHANGED <<workers, events, shows, forwards, pending, asked>> /\ events = <<>> /\ DOMAIN events = {}
        /\ epoch' = epoch + 1
    BY <1>11, <1>12 DEF RW!Disconnect, RW!Reconnect, RW!GoDown, RW!Start, RW!shown
  <2>2. ports' = {} /\ open' = open \ ports /\ (phase' # "Connected")
    BY <1>12 DEF RW!Disconnect, RW!Reconnect, RW!GoDown, RW!Start, PortInv, HeldInv, RW!Connected
  <2>3. \A c \in workers : c.kind = "forward" => c.at <= epoch' /\ c.at # epoch'
    BY <2>1 DEF PortInv, WorkInv, HostTypes, WorkerTypes
  <2>4. \A p : (Forwarding(p)' <=> Forwarding(p)) /\ (Cancelling(p)' <=> Cancelling(p))
    BY <2>1 DEF Forwarding, Cancelling
  <2>5. HeldInv' /\ AskInv'
    BY <2>1, <2>2, <2>4 DEF PortInv, HeldInv, AskInv, RW!Live
  <2>6. WorkInv'
    BY <2>1, <2>2, <2>3, <2>4 DEF PortInv, WorkInv
  <2> QED  BY <2>1, <2>2, <2>5, <2>6 DEF PortInv, AnswerInv, ClosedInv, ListInv
<1>13. ASSUME NEW w \in Ids, RW!CloseWorkspace(w)  PROVE PortInv'
  <2> DEFINE mine == {f.port : f \in {g \in forwards : g.of = w}} \cap ports
  <2>1. /\ UNCHANGED <<events, forwards, pending, asked>> /\ events = <<>> /\ DOMAIN events = {}
        /\ workers' = workers \cup {[kind |-> "cancel", of |-> p] : p \in mine}
        /\ \A q \in pending : q.of # w
        /\ RW!Live' = RW!Live \ {w}
    BY <1>11, <1>13 DEF RW!CloseWorkspace, RW!NotLive, RW!Live, HostTypes
  <2>2. \/ ports' = {} /\ open' = open \ ports /\ epoch' = epoch + 1 /\ phase' = "Disconnected"
        \/ ports' = ports \ mine /\ UNCHANGED <<open, epoch, phase>>
    BY <1>13 DEF RW!CloseWorkspace, RW!GoDown, RW!conn
  <2>3. \A p \in ports \ mine : Listed(p) => Listed(p)'
    BY <2>1 DEF Listed
  <2> HIDE DEF mine
  <2>4. mine \subseteq ports /\ ports' \cap mine = {} /\ ports' \subseteq ports
    BY <2>2 DEF mine
  <2>5. /\ \A c \in workers' : c \in workers \/ (c.kind = "cancel" /\ c.of \in mine)
        /\ \A p \in mine : \E c \in workers' : c.kind = "cancel" /\ c.of = p
        /\ workers \subseteq workers'
    <3>1. \A c \in workers' : c \in workers \/ \E p \in mine : c = [kind |-> "cancel", of |-> p]
      BY <2>1
    <3>2. \A p \in mine : [kind |-> "cancel", of |-> p] \in workers'
      BY <2>1, Zenon
    <3>3. \A p : [kind |-> "cancel", of |-> p].kind = "cancel" /\ [kind |-> "cancel", of |-> p].of = p
      OBVIOUS
    <3>4. \A c \in workers' : c \in workers \/ (c.kind = "cancel" /\ c.of \in mine)
      BY <3>1, <3>3, Zenon
    <3>5. \A p \in mine : \E c \in workers' : c.kind = "cancel" /\ c.of = p
      BY <3>2, <3>3, Zenon
    <3>6. workers \subseteq workers'
      BY <2>1
    <3> QED  BY <3>4, <3>5, <3>6
  <2>6. \A p : /\ Forwarding(p)' <=> Forwarding(p)
               /\ Cancelling(p)' <=> Cancelling(p) \/ p \in mine
               /\ Asked(p)' <=> Asked(p)
    BY <2>1, <2>5 DEF Forwarding, Cancelling, Asked
  <2>7. \A c \in workers : c.kind = "forward" =>
          c.at <= epoch' /\ c.of \notin mine /\ (epoch' # epoch => c.at # epoch')
    BY <2>2, <2>4 DEF PortInv, WorkInv, HostTypes, WorkerTypes
  <2>8. HeldInv' /\ AskInv'
    BY <2>1, <2>2, <2>4, <2>6 DEF PortInv, HeldInv, AskInv, RW!Connected
  <2>9. WorkInv'
    <3>1. \A p \in mine : ~Forwarding(p) /\ p <= asked
      <4>1. \A p \in ports : p <= asked
        BY DEF PortInv, HeldInv
      <4>2. \A p \in mine : ~Forwarding(p)
        BY <2>7 DEF Forwarding
      <4> QED  BY <2>4, <4>1, <4>2
    <3>2. /\ asked' = asked /\ ports' \subseteq ports /\ ports' \cap mine = {}
          /\ epoch' = epoch => phase' = phase
      BY <2>1, <2>2, <2>4, RW!ConstantsOK DEF HostTypes
    <3>3. \A c \in workers' : c.kind = "forward" => c \in workers
      BY <2>5
    <3>4. ASSUME NEW c \in workers, c.kind = "forward"
          PROVE  /\ c.at <= epoch'
                 /\ c.at = epoch' /\ epoch' > 0 => RW!Connected' /\ Asked(c.of)'
                 /\ \A d \in workers : d.kind = "forward" /\ d.of = c.of => d = c
      <4>1. /\ c.at = epoch /\ epoch > 0 => RW!Connected /\ Asked(c.of)
            /\ \A d \in workers : d.kind = "forward" /\ d.of = c.of => d = c
        BY <3>4 DEF PortInv, WorkInv
      <4> QED  BY <2>6, <2>7, <3>2, <3>4, <4>1 DEF RW!Connected
    <3>5. \A c \in workers' : c.kind = "cancel" => ~Forwarding(c.of)'
      BY <2>5, <2>6, <3>1 DEF PortInv, WorkInv
    <3>6. \A c \in workers' : c.kind \in {"cancel", "forward"} => c.of <= asked' /\ c.of \notin ports'
      BY <2>5, <3>1, <3>2 DEF PortInv, WorkInv
    <3> QED  BY <3>3, <3>4, <3>5, <3>6 DEF WorkInv
  <2>10. ListInv'
    BY <2>1, <2>2, <2>3 DEF PortInv, ListInv
  <2> QED  BY <2>1, <2>8, <2>9, <2>10 DEF PortInv, AnswerInv, ClosedInv
<1>14. ASSUME NEW w \in Ids, RW!ForwardPort(w)  PROVE PortInv'
  <2> DEFINE c0 == [kind |-> "forward", of |-> asked + 1, at |-> IF RW!Connected THEN epoch ELSE 0]
  <2>1. /\ UNCHANGED <<phase, epoch, ports, events, shows, forwards, open>> /\ events = <<>> /\ DOMAIN events = {}
        /\ asked' = asked + 1 /\ workers' = workers \cup {c0} /\ w \in RW!Live
        /\ pending' = pending \cup {[of |-> w, port |-> asked + 1]}
    BY <1>11, <1>14 DEF RW!ForwardPort, RW!conn
  <2>2. c0.kind = "forward" /\ c0.of = asked + 1 /\ c0.at <= epoch /\ (c0.at = epoch /\ epoch > 0 => RW!Connected)
    BY DEF HostTypes
  <2>3. asked \in Nat /\ \A p \in ports : p \in Nat /\ p <= asked
    BY DEF HostTypes, PortInv, HeldInv
  <2>4. \A c \in workers : c.kind \in {"cancel", "forward"} => c.of \in Nat /\ c.of <= asked
    BY DEF HostTypes, PortInv, WorkInv, WorkerTypes, PortNos
  <2> HIDE DEF c0
  <2>5. \A p : /\ Forwarding(p)' <=> Forwarding(p) \/ p = asked + 1
               /\ Cancelling(p)' <=> Cancelling(p)
               /\ Asked(p)' <=> Asked(p) \/ p = asked + 1
               /\ Listed(p)' <=> Listed(p)
    <3>1. [of |-> w, port |-> asked + 1].port = asked + 1
      OBVIOUS
    <3> QED  BY <2>1, <2>2, <3>1 DEF Forwarding, Cancelling, Asked, Listed, RW!Live
  <2>6. HeldInv' /\ AskInv'
    BY <2>1, <2>3, <2>5 DEF PortInv, HeldInv, AskInv, RW!Connected, RW!Live
  <2>7. WorkInv'
    BY <2>1, <2>2, <2>3, <2>4, <2>5 DEF PortInv, WorkInv, RW!Connected
  <2>8. ListInv'
    BY <2>1, <2>5 DEF PortInv, ListInv
  <2> QED  BY <2>1, <2>6, <2>7, <2>8 DEF PortInv, AnswerInv, ClosedInv
<1>15. ASSUME NEW w \in Ids, NEW run \in BOOLEAN, RW!OpenRemote(w, run)  PROVE PortInv'
  <2>1. /\ UNCHANGED <<ports, events, forwards, pending, open, asked>> /\ events = <<>> /\ DOMAIN events = {}
        /\ \A c \in workers' : c \in workers \/ c.kind = "identify"
        /\ workers \subseteq workers'
    BY <1>11, <1>15 DEF RW!OpenRemote
  <2>2. \/ UNCHANGED <<phase, epoch>>
        \/ epoch' = epoch + 1 /\ ~RW!Connected /\ ~RW!Connected'
    BY <1>15 DEF RW!OpenRemote, RW!Start, RW!conn, RW!Connected
  <2>3. RW!Live \subseteq RW!Live'
    BY <1>15 DEF RW!OpenRemote, RW!Live, HostTypes, RW!Fresh, RW!NotLive, RW!Terminals
  <2>4. \A p : /\ Forwarding(p)' <=> Forwarding(p)
               /\ Cancelling(p)' <=> Cancelling(p)
               /\ Asked(p)' <=> Asked(p)
               /\ Listed(p) => Listed(p)'
    BY <2>1, <2>3 DEF Forwarding, Cancelling, Asked, Listed
  <2>5. \A c \in workers : c.kind = "forward" => c.at <= epoch' /\ (epoch' # epoch => c.at # epoch')
    BY <2>2 DEF PortInv, WorkInv, HostTypes, WorkerTypes
  <2>6. HeldInv' /\ AskInv' /\ ListInv'
    BY <2>1, <2>2, <2>3, <2>4 DEF PortInv, HeldInv, AskInv, ListInv, RW!Connected
  <2>7. WorkInv'
    BY <2>1, <2>2, <2>4, <2>5 DEF PortInv, WorkInv, RW!Connected
  <2> QED  BY <2>1, <2>6, <2>7 DEF PortInv, AnswerInv, ClosedInv
<1>16. ASSUME NEW f \in forwards, RW!StopPort(f)  PROVE PortInv'
  <2> DEFINE c0 == [kind |-> "cancel", of |-> f.port]
  <2>1. /\ UNCHANGED <<phase, epoch, events, shows, forwards, pending, open, asked>> /\ events = <<>> /\ DOMAIN events = {}
        /\ ports' = ports \ {f.port} /\ f.port \in ports /\ workers' = workers \cup {c0}
    BY <1>11, <1>16 DEF RW!StopPort, RW!conn, RW!shown
  <2>2. c0.kind = "cancel" /\ c0.of = f.port
    OBVIOUS
  <2> HIDE DEF c0
  <2>3. \A p : /\ Forwarding(p)' <=> Forwarding(p)
               /\ Cancelling(p)' <=> Cancelling(p) \/ p = f.port
               /\ Asked(p)' <=> Asked(p)
               /\ Listed(p)' <=> Listed(p)
    BY <2>1, <2>2 DEF Forwarding, Cancelling, Asked, Listed, RW!Live
  <2>4. ~Forwarding(f.port) /\ f.port <= asked
    <3>1. f.port \in 1 .. asked
      BY <2>1 DEF PortInv, HeldInv
    <3> QED  BY <2>1, <3>1 DEF PortInv, WorkInv, Forwarding, HostTypes
  <2>5. HeldInv' /\ AskInv' /\ ListInv'
    BY <2>1, <2>3 DEF PortInv, HeldInv, AskInv, ListInv, RW!Connected, RW!Live
  <2>6. WorkInv'
    BY <2>1, <2>2, <2>3, <2>4 DEF PortInv, WorkInv, RW!Connected
  <2> QED  BY <2>1, <2>5, <2>6 DEF PortInv, AnswerInv, ClosedInv
<1>17. CASE UNCHANGED RW!vars
  BY <1>17 DEF RW!vars, RW!conn, RW!shown, PortInv, HeldInv, WorkInv, AskInv, AnswerInv, ClosedInv, ListInv,
               Forwarding, Cancelling, Asked, Listed, Answers, RW!Live, RW!Connected
<1> QED
  BY <1>1, <1>6, <1>7, <1>8, <1>9, <1>10, <1>12, <1>13, <1>14, <1>15, <1>16, <1>17 DEF RW!Next, RW!Workers, RW!User

-----------------------------------------------------------------------------
(* The app's hosts are a run of RemoteWorkspaces.                           *)
LEMMA Hosting == RW!ConstantsOK /\ (FairSpec => RW!Init /\ [][RW!Next]_RW!vars)
<1>1. Init => RW!Init
  BY DEF Init
<1>2. [Next]_vars => [RW!Next]_RW!vars
  BY DEF Next, vars, remoteVars, RW!vars, RW!conn, RW!shown
<1> QED  BY <1>1, <1>2, ConstantsAssumption, PTL DEF FairSpec

(* The invariant holds, whatever the connection and the user do.            *)
THEOREM HostInvariance == FairSpec => []HostInv
<1>1. RW!Init => HostInv
  <2> SUFFICES ASSUME RW!Init PROVE HostInv
    OBVIOUS
  <2>1. RW!NotLive \in Shows
    BY Hosting DEF RW!NotLive, Shows, RW!ConstantsOK
  <2>2. HostTypes
    <3>1. /\ phase \in Phases /\ epoch \in 0 .. MaxEpoch /\ running \subseteq 1 .. MaxEpoch
          /\ asked \in 0 .. MaxPorts
      BY Hosting DEF RW!Init, Phases, RW!ConstantsOK
    <3>2. shows \in [Ids -> Shows] /\ typed \in [Ids -> Nat]
      BY <2>1 DEF RW!Init
    <3>3. <<>> \in Seq(Events)
      OBVIOUS
    <3> QED  BY <3>1, <3>2, <3>3 DEF RW!Init, HostTypes
  <2>3. DOMAIN events = {}
    BY DEF RW!Init
  <2> QED
    BY <2>2, <2>3 DEF RW!Init, HostInv, FollowInv, RunInv, PortInv, HeldInv, WorkInv, AskInv,
                AnswerInv, ClosedInv, ListInv, RW!NotLive, RW!Live, RW!Connected, Lines
<1>2. HostInv /\ [RW!Next]_RW!vars => HostInv'
  BY Hosting, TypeStep, FollowStep, RunStep, PortStep DEF HostInv
<1> QED  BY <1>1, <1>2, Hosting, PTL

(* Terminals, git panes and the command of `--run` follow the connection    *)
(* (App::host_changed), however often it is lost and whatever the user does *)
(* between two polls.                                                       *)
THEOREM HostFollowed == FairSpec => []HostIsFollowed
<1>1. HostInv => HostIsFollowed
  BY DEF HostInv, HostTypes, FollowInv, RunInv, HostIsFollowed, RW!HostIsFollowed,
         RW!TerminalsFollow, RW!RunIsTypedOnce, RW!GitFollows, RW!Handled, Announced, RW!Live,
         Lines, RW!Connected
<1> QED  BY <1>1, HostInvariance, PTL

(* An open forward is listed under a workspace there is, and a lost         *)
(* connection's forwards are not (Remote::forwards), of a user who waits    *)
(* for a forward before closing its workspace.                              *)
THEOREM ForwardsListed == ASSUME Patient PROVE FairSpec => []ForwardsAreListed
<1>1. HostInv => ForwardsAreListed
  BY DEF HostInv, HostTypes, FollowInv, PortInv, HeldInv, ListInv, ForwardsAreListed,
         RW!ForwardsAreListed, RW!Settled, RW!Handled, Announced, Cancelling, Listed, Lines,
         RW!Connected
<1> QED  BY <1>1, HostInvariance, PTL
=============================================================================
