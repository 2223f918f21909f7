----------------------------- MODULE AgentStatus -----------------------------
(***************************************************************************)
(* What the user is told of one terminal's agent: the status its tracker   *)
(* settles on among sources of different confidence (src/agent/status.rs), *)
(* some of whose reports were queued on a host and come late, and the rows *)
(* of the notification panel (src/agent/notifications.rs), as the app      *)
(* drives them (src/ui/app/events.rs, surface.rs).                         *)
(*                                                                         *)
(* A row is its id and whether it is this terminal's, as opposed to        *)
(* another's; texts, levels and system notifications are left out.         *)
(***************************************************************************)
EXTENDS Integers, SequencesExt

CONSTANTS
  StaleAfter,  \* STALE_AFTER_SECS
  Cap,         \* rows the panel keeps
  MaxNow,      \* bound: time
  MaxReports,  \* bound: reports a tracker gets
  MaxRows      \* bound: rows ever pushed

ConstantsOK == {StaleAfter, Cap, MaxNow, MaxReports, MaxRows} \subseteq Nat

VARIABLES
  now,      \* seconds
  current,  \* Tracker::current, as a sequence of at most one report
  reports,  \* every report since the tracker was cleared
  visible,  \* the terminal's tab is on screen
  rows,     \* Store::items, newest first
  nextId,   \* Store::next_id
  saved,    \* notifications.jsonl
  pushed    \* ids of the rows pushed since the panel was last emptied or loaded

tracker == <<current, reports>>
panel == <<rows, nextId, pushed>>
vars == <<now, tracker, visible, panel, saved>>

Statuses == {"Idle", "Running", "NeedsInput"}

\* Source, by its rank
ShellIntegration == 1
Osc == 2
Hook == 3

Init ==
  /\ now = 0 /\ current = <<>> /\ reports = <<>> /\ visible = TRUE
  /\ rows = <<>> /\ nextId = 0 /\ saved = <<>> /\ pushed = {}

Accepts_Newer(cur, r) == r.source > cur.source \/ r.at >= cur.at + StaleAfter
Accepts(cur, r) == r.source >= cur.source \/ r.at >= cur.at + StaleAfter

\* Tracker::observe
Observe(status, source, at) ==
  LET r == [status |-> status, source |-> source, at |-> at]
  IN /\ Len(reports) < MaxReports
     /\ reports' = Append(reports, r)
     /\ current' = IF current = <<>> \/ Accepts(current[1], r) THEN <<r>> ELSE current

\* The oldest go beyond CAP
Kept(s) == SubSeq(s, 1, Min({Len(s), Cap}))

\* Store::push; the app mutes no workspace
Push(mine) ==
  LET id == Max({nextId, 1})
  IN /\ id <= MaxRows
     /\ nextId' = id + 1
     /\ rows' = Kept(<<[id |-> id, mine |-> mine, read |-> FALSE]>> \o rows)
     /\ pushed' = pushed \cup {id}

Tick ==
  /\ now < MaxNow /\ now' = now + 1
  /\ UNCHANGED <<tracker, visible, panel, saved>>

\* Command::AgentEvent, live or drained from a host's queue with its own time
HookReport(status, notifies, at) ==
  /\ at <= now
  /\ Observe(status, Hook, at)
  /\ IF notifies \/ status = "NeedsInput" THEN Push(TRUE) ELSE UNCHANGED panel
  /\ UNCHANGED <<now, visible, saved>>

\* Command::SetStatus
SetStatus(status, at) ==
  /\ at <= now
  /\ Observe(status, Hook, at)
  /\ UNCHANGED <<now, visible, panel, saved>>

ClearStatus ==
  /\ current' = <<>> /\ reports' = <<>>
  /\ UNCHANGED <<now, visible, panel, saved>>

\* App::poll_terminals: OSC 9, 99 and 777; OSC 133; BEL where nobody looks
OscNotify ==
  /\ Observe("NeedsInput", Osc, now) /\ Push(TRUE)
  /\ UNCHANGED <<now, visible, saved>>

Prompt(status) ==
  /\ Observe(status, ShellIntegration, now)
  /\ UNCHANGED <<now, visible, panel, saved>>

Bell ==
  /\ ~visible
  /\ Observe("NeedsInput", Osc, now)
  /\ UNCHANGED <<now, visible, panel, saved>>

\* `amalgum notify`, here and in the other terminals
Notify(mine) ==
  /\ Push(mine)
  /\ UNCHANGED <<now, tracker, visible, saved>>

\* Store::mark_tab_read, for this terminal
MarkTabRead ==
  /\ rows' = [i \in DOMAIN rows |-> [rows[i] EXCEPT !.read = @ \/ rows[i].mine]]
  /\ UNCHANGED <<nextId, pushed>>

\* A click on the pane: App::focus_pane
FocusPane ==
  /\ visible
  /\ MarkTabRead
  /\ UNCHANGED <<now, tracker, visible, saved>>

\* The strip, the keys and the sidebar show the tab and mark nothing
Show(v) ==
  /\ visible' = v
  /\ UNCHANGED <<now, tracker, panel, saved>>

\* A click on a row of the panel, which then shows the row's workspace
ClickRow(v) ==
  /\ \E i \in DOMAIN rows : rows[i].mine
  /\ MarkTabRead /\ visible' = v
  /\ UNCHANGED <<now, tracker, saved>>

ClearAll ==
  /\ rows' = <<>> /\ pushed' = {}
  /\ UNCHANGED <<now, tracker, visible, nextId, saved>>

\* Store::load goes on from the highest id it finds
Load(s) ==
  /\ rows' = s
  /\ nextId' = Max({s[i].id : i \in DOMAIN s} \cup {0}) + 1
  /\ pushed' = {s[i].id : i \in DOMAIN s}

\* A quit saves the rows, a crash does not, and the next launch loads them
Launch(s) ==
  /\ Load(s) /\ saved' = s
  /\ current' = <<>> /\ reports' = <<>> /\ visible' = TRUE
  /\ UNCHANGED now

Quit == Launch(rows)
Crash == Launch(saved)

Next ==
  \/ Tick \/ OscNotify \/ Bell \/ ClearStatus \/ FocusPane \/ ClearAll \/ Quit \/ Crash
  \/ \E status \in Statuses, at \in 0 .. MaxNow :
       SetStatus(status, at) \/ \E n \in BOOLEAN : HookReport(status, n, at)
  \/ \E status \in {"Idle", "Running"} : Prompt(status)
  \/ \E b \in BOOLEAN : Notify(b) \/ Show(b) \/ ClickRow(b)

Spec == Init /\ [][Next]_vars

-----------------------------------------------------------------------------
\* "Highest confidence wins, each with a 10 s staleness after which the next
\* source may override": a hook's word stands until a report that may replace
\* it, and nothing weaker and fresh is shown over it, however late the reports
\* of a host's queue come among the live ones.
Stands(i) == \A j \in i + 1 .. Len(reports) : ~Accepts(reports[i], reports[j])

StatusIsStrongest ==
  /\ current = <<>> <=> reports = <<>>
  /\ \A i \in DOMAIN reports : Stands(i) =>
       IF reports[i].source = Hook THEN current = <<reports[i]>>
         ELSE current[1].source >= reports[i].source \/ current[1].at >= reports[i].at

\* The panel holds the newest rows, at most CAP, each under an id of its own,
\* over any number of quits, crashes and clears.
PanelKeepsNewest ==
  /\ Len(rows) = Min({Cap, Cardinality(pushed)})
  /\ \A i \in DOMAIN rows :
       /\ rows[i].id \in pushed
       /\ Cardinality({id \in pushed : id > rows[i].id}) = i - 1

\* What the user has read stays read, as long as the app is not killed.
StaysRead ==
  [][ \A i \in DOMAIN rows, j \in DOMAIN rows' :
        rows[i].read /\ rows'[j].id = rows[i].id => rows'[j].read \/ Crash ]_vars

UserIsTold == [](StatusIsStrongest /\ PanelKeepsNewest) /\ StaysRead
=============================================================================
