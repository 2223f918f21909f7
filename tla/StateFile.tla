------------------------------ MODULE StateFile ------------------------------
(***************************************************************************)
(* state.json on disk (src/model/state.rs, AppState::load and save): the   *)
(* saver thread writes the newest state it was sent (src/ui/app.rs,        *)
(* spawn_saver), and a quit writes the last one itself (App::on_exit).     *)
(* Both write the same temporary file, then rename it over state.json.     *)
(*                                                                         *)
(* The app's state is the number of its last change.  Files have an        *)
(* identity apart from their name.  One app runs at a time; it may be      *)
(* killed anywhere, and the next one has another process id, so another    *)
(* temporary file.                                                         *)
(***************************************************************************)
EXTENDS Naturals

CONSTANTS
  Files,      \* identities of files (bound: those in use at once)
  NoFile,     \* no file of that name
  MaxChanges, \* bound: changes of the state
  Quiet       \* the user quits only after the last change was saved

ConstantsOK == NoFile \notin Files /\ MaxChanges \in Nat /\ Quiet \in BOOLEAN

VARIABLES
  changes,  \* changes ever made
  app,      \* "up", "quit" (on_exit has returned) or "killed"
  mem,      \* the state of the app that is or was up
  dirty,    \* it changed since the last frame's persist()
  queue,    \* the newest state in the saver's channel, or 0
  writers,  \* where the saver and on_exit are: state and file in hand
  tmp,      \* the file named .state.json.tmp.<pid>
  file,     \* the file named state.json
  content   \* each file's: a state, or half of one

vars == <<changes, app, mem, dirty, queue, writers, tmp, file, content>>

Half == MaxChanges + 1   \* the content of a file that does not parse
States == 1 .. MaxChanges
Idle == [at |-> "idle", state |-> 0, file |-> NoFile]
At(w, at) == writers[w].at = at

\* AppState::load: a missing file and an unreadable one both give the default
\* state; the unreadable one is renamed away
Load_Defaults(f, c) == 0
Load(f, c) == IF f # NoFile /\ c[f] \in States THEN c[f] ELSE 0

Init ==
  /\ changes = 0 /\ app = "up" /\ mem = 0 /\ dirty = FALSE /\ queue = 0
  /\ writers = [w \in {"saver", "quit"} |-> Idle]
  /\ tmp = NoFile /\ file = NoFile
  /\ content = [f \in Files |-> Half]

\* App::new, after a quit or a crash
Launch ==
  /\ app # "up"
  /\ app' = "up" /\ mem' = Load(file, content)
  /\ file' = IF file # NoFile /\ content[file] = Half THEN NoFile ELSE file
  /\ tmp' = NoFile /\ dirty' = FALSE /\ queue' = 0
  /\ writers' = [w \in {"saver", "quit"} |-> Idle]
  /\ UNCHANGED <<changes, content>>

Change ==
  /\ app = "up" /\ At("quit", "idle") /\ changes < MaxChanges
  /\ changes' = changes + 1 /\ mem' = changes' /\ dirty' = TRUE
  /\ UNCHANGED <<app, queue, writers, tmp, file, content>>

\* App::persist, at the end of a frame
Persist ==
  /\ app = "up" /\ At("quit", "idle") /\ dirty
  /\ queue' = mem /\ dirty' = FALSE
  /\ UNCHANGED <<changes, app, mem, writers, tmp, file, content>>

\* spawn_saver: wait for a state, then take the newest one sent
Take ==
  /\ app = "up" /\ At("saver", "idle") /\ queue # 0
  /\ writers' = [writers EXCEPT !["saver"] = [at |-> "open", state |-> queue, file |-> NoFile]]
  /\ queue' = 0
  /\ UNCHANGED <<changes, app, mem, dirty, tmp, file, content>>

\* App::on_exit, after the last frame
Quit ==
  /\ app = "up" /\ At("quit", "idle") /\ ~dirty
  /\ Quiet => queue = 0 /\ At("saver", "idle")
  /\ writers' = [writers EXCEPT !["quit"] = [at |-> "open", state |-> mem, file |-> NoFile]]
  /\ UNCHANGED <<changes, app, mem, dirty, queue, tmp, file, content>>

\* save(): fs::write creates or truncates the temporary file ...
InUse == {tmp, file} \cup {writers[w].file : w \in DOMAIN writers}

Opens_InPlace(w, f) ==
  /\ app = "up" /\ At(w, "open")
  /\ IF file # NoFile THEN f = file ELSE f \notin InUse
  /\ file' = f /\ content' = [content EXCEPT ![f] = Half]
  /\ writers' = [writers EXCEPT ![w].at = "write", ![w].file = f]
  /\ UNCHANGED <<changes, app, mem, dirty, queue, tmp>>

Opens(w, f) ==
  /\ app = "up" /\ At(w, "open")
  /\ IF tmp # NoFile THEN f = tmp ELSE f \notin InUse
  /\ tmp' = f
  /\ content' = [content EXCEPT ![f] = Half]
  /\ writers' = [writers EXCEPT ![w].at = "write", ![w].file = f]
  /\ UNCHANGED <<changes, app, mem, dirty, queue, file>>

\* ... and writes it from its start, over what the other wrote there: what is
\* left of a longer one makes the file unreadable.  A full disk is left out.
Writes(w) ==
  /\ app = "up" /\ At(w, "write")
  /\ \E c \in {writers[w].state, IF content[writers[w].file] = Half THEN writers[w].state ELSE Half} :
       content' = [content EXCEPT ![writers[w].file] = c]
  /\ writers' = [writers EXCEPT ![w].at = "rename"]
  /\ UNCHANGED <<changes, app, mem, dirty, queue, tmp, file>>

Ends(w) ==
  /\ writers' = [writers EXCEPT ![w] = Idle]
  /\ app' = IF w = "quit" THEN "quit" ELSE app

\* ... then renames whatever has the temporary name by now, if anything has
Renames(w) ==
  /\ app = "up" /\ At(w, "rename")
  /\ IF tmp # NoFile THEN file' = tmp /\ tmp' = NoFile ELSE UNCHANGED <<file, tmp>>
  /\ Ends(w)
  /\ UNCHANGED <<changes, mem, dirty, queue, content>>

Crash ==
  /\ app = "up"
  /\ app' = "killed"
  /\ UNCHANGED <<changes, mem, dirty, queue, writers, tmp, file, content>>

Next ==
  \/ Launch \/ Change \/ Persist \/ Take \/ Quit \/ Crash
  \/ \E w \in {"saver", "quit"} : Writes(w) \/ Renames(w) \/ \E f \in Files : Opens(w, f)

Saves == Take \/ Writes("saver") \/ Renames("saver") \/ \E f \in Files : Opens("saver", f)
Spec == Init /\ [][Next]_vars
FairSpec == Spec /\ WF_vars(Persist) /\ WF_vars(Saves)

-----------------------------------------------------------------------------
Stored == IF file = NoFile THEN 0 ELSE content[file]

\* state.json is never half-written, at any point a crash or a reader could
\* find it ("a crash or concurrent read never sees a half-written state.json",
\* AppState::save).
NeverHalfWritten == Stored # Half

\* A quit leaves the state it quit with: the saver, which may still be at work
\* with an older one and the same temporary file, neither overwrites nor
\* damages it (spawn_saver, on_exit).
QuitKeepsLatest == app = "quit" => Stored = mem

\* What the next launch finds is whole, and the latest after a quit.
SavedIsWhole == NeverHalfWritten /\ QuitKeepsLatest

\* What is on disk only gets newer, over crashes and restarts: nothing saved
\* is taken back, and a state on disk is never replaced by one that does not
\* build on it (the saver drains its channel to the newest state).
NothingIsTakenBack == [][Stored' >= Stored]_vars

\* A change reaches the disk if the app stays up, with no quit (persist,
\* spawn_saver).
ChangesAreSaved == \A v \in States :
  (app = "up" /\ mem = v) ~> (app # "up" \/ ~At("quit", "idle") \/ Stored >= v)
=============================================================================
