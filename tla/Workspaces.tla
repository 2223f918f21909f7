----------------------------- MODULE Workspaces -----------------------------
(***************************************************************************)
(* The sidebar's tree of repositories, remotes and workspaces              *)
(* (src/model/state.rs, AppState), the active one and those that run       *)
(* (App::live), under everything that changes them (src/ui/app/            *)
(* workspace.rs, actions.rs, remote.rs, events.rs): the user, the control  *)
(* socket, workers that resolve a folder, and identities of remote clones  *)
(* that come in at any time.                                               *)
(*                                                                         *)
(* A workspace is its id; its name, its tabs and the recents are left out. *)
(***************************************************************************)
EXTENDS Naturals, SequencesExt

CONSTANTS
  Roots,    \* repository folders of this machine
  Folder,   \* a folder inside one of them
  Inside,   \* that one
  Hosted,   \* repository folders of hosts
  Repos,    \* identities of repositories: what their remotes' URLs normalize to
  Remotes,  \* names of remotes
  None,     \* no workspace
  MaxIds,   \* bound: workspaces ever opened
  Restores  \* settings: restore_workspaces

ConstantsOK == /\ Inside \in Roots /\ Folder \notin Roots \cup Hosted
               /\ None \notin Nat /\ MaxIds \in Nat

VARIABLES
  repos,   \* AppState::repos
  place,   \* each workspace's location
  active,  \* AppState::active
  nextId,  \* AppState::next_id
  live,    \* the workspaces with a runtime (App::live)
  jobs     \* folders being resolved by workers

vars == <<repos, place, active, nextId, live, jobs>>

Unlisted == "local"   \* the remote group of a clone without remotes
Homes == {[repo |-> r, remote |-> m] : r \in Repos, m \in Remotes}
\* identity() of a clone without remotes is its location, and so is the
\* placeholder of a remote one that was not identified yet
Itself(l) == [repo |-> l, remote |-> Unlisted]

InRepo(r) == FlattenSeq([g \in DOMAIN r.groups |-> r.groups[g].list])
Order(rs) == FlattenSeq([r \in DOMAIN rs |-> InRepo(rs[r])])
Open == Range(Order(repos))
IndexOf(s, x) == CHOOSE i \in DOMAIN s : s[i] = x
HomeOf(rs, w) ==
  CHOOSE h \in [repo : {rs[r].id : r \in DOMAIN rs}, remote : Remotes \cup {Unlisted}] :
    \E r \in DOMAIN rs, g \in 1..Cardinality(Remotes) + 1 :
      /\ rs[r].id = h.repo /\ g \in DOMAIN rs[r].groups
      /\ rs[r].groups[g].name = h.remote /\ w \in Range(rs[r].groups[g].list)

\* AppState::add_workspace, but for `active`
Added(rs, h, w) ==
  LET rs1 == IF \E r \in DOMAIN rs : rs[r].id = h.repo THEN rs
               ELSE Append(rs, [id |-> h.repo, groups |-> <<>>])
      i   == CHOOSE r \in DOMAIN rs1 : rs1[r].id = h.repo
      gs  == rs1[i].groups
      gs1 == IF \E g \in DOMAIN gs : gs[g].name = h.remote THEN gs
               ELSE Append(gs, [name |-> h.remote, list |-> <<>>])
      j   == CHOOSE g \in DOMAIN gs1 : gs1[g].name = h.remote
  IN [rs1 EXCEPT ![i].groups = [gs1 EXCEPT ![j].list = Append(@, w)]]

Without(rs, w) ==
  [r \in DOMAIN rs |-> [rs[r] EXCEPT !.groups =
    [g \in DOMAIN @ |-> [@[g] EXCEPT !.list = SelectSeq(@, LAMBDA x : x # w)]]]]

Rehomed_Drops(rs, w, h) ==
  LET from == HomeOf(rs, w).repo
      left == SelectSeq(Without(rs, w), LAMBDA r : r.id # from)
  IN IF HomeOf(rs, w) = h THEN rs ELSE Added(left, h, w)

\* AppState::rehome_workspace: a repository left empty by the move goes
Rehomed(rs, w, h) ==
  LET from == HomeOf(rs, w).repo
      left == SelectSeq(Without(rs, w), LAMBDA r : r.id # from \/ InRepo(r) # <<>>)
  IN IF HomeOf(rs, w) = h THEN rs ELSE Added(left, h, w)

Runs(w) == live' = live \cup {w}

Init ==
  /\ repos = <<>> /\ place = <<>> /\ active = None /\ nextId = 1
  /\ live = {} /\ jobs = {}

\* App::activate, from the sidebar, the palette, the keys that cycle, or a
\* repository that is open already
Activate(w) ==
  /\ w \in Open
  /\ active' = w /\ Runs(w)
  /\ UNCHANGED <<repos, place, nextId, jobs>>

NewWorkspace(l, h) ==
  /\ repos' = Added(repos, h, nextId)
  /\ place' = Append(place, l)
  /\ active' = nextId /\ nextId' = nextId + 1
  /\ Runs(nextId)

At(l) == {w \in Open : place[w] = l}

\* App::open: a worker resolves a folder of this machine; a host's becomes a
\* workspace at once, until it is identified
OpenLocal(l) ==
  /\ l \in Roots \cup {Folder} /\ At(l) = {}
  /\ jobs' = jobs \cup {l}
  /\ UNCHANGED <<repos, place, active, nextId, live>>

OpenRemote(l) ==
  /\ l \in Hosted /\ At(l) = {} /\ nextId <= MaxIds
  /\ NewWorkspace(l, Itself(l))
  /\ UNCHANGED jobs

OpenAgain(l) == \E w \in At(l) : Activate(w)

Root(l) == IF l = Folder THEN Inside ELSE l

Opened_Anew(l) ==
  /\ l \in jobs /\ jobs' = jobs \ {l}
  /\ \/ /\ nextId <= MaxIds
        /\ \E h \in Homes \cup {Itself(Root(l))} : NewWorkspace(Root(l), h)
     \/ UNCHANGED <<repos, place, active, nextId, live>>

\* App::on_opened, when the worker is done; the folder may have been opened
\* meanwhile, or not be a repository
Opened(l) ==
  /\ l \in jobs /\ jobs' = jobs \ {l}
  /\ \/ /\ At(Root(l)) # {}
        /\ active' \in At(Root(l))
        /\ UNCHANGED <<repos, place, nextId, live>>
     \/ /\ At(Root(l)) = {} /\ nextId <= MaxIds
        /\ \E h \in Homes \cup {Itself(Root(l))} : NewWorkspace(Root(l), h)
     \/ UNCHANGED <<repos, place, active, nextId, live>>

\* App::on_identity: what a host says a clone's remotes are, now
Identified(w) ==
  /\ w \in Open /\ place[w] \in Hosted
  /\ \E h \in Homes \cup {Itself(place[w])} : repos' = Rehomed(repos, w, h)
  /\ UNCHANGED <<place, active, nextId, live, jobs>>

\* App::bind_active_to_remote
Bind(m) ==
  /\ active # None
  /\ LET from == HomeOf(repos, active)
     IN IF from.remote = m THEN UNCHANGED repos
          ELSE repos' = Added(Without(repos, active), [from EXCEPT !.remote = m], active)
  /\ UNCHANGED <<place, active, nextId, live, jobs>>

\* AppState::move_workspace
Swap(s, i, j) == [s EXCEPT ![i] = s[j], ![j] = s[i]]

Move(w, up) ==
  /\ \E r \in DOMAIN repos : \E g \in DOMAIN repos[r].groups :
       LET list == repos[r].groups[g].list
           to   == IF up THEN IndexOf(list, w) - 1 ELSE IndexOf(list, w) + 1
       IN /\ w \in Range(list) /\ to \in DOMAIN list
          /\ repos' = [repos EXCEPT ![r].groups[g].list = Swap(list, IndexOf(list, w), to)]
  /\ UNCHANGED <<place, active, nextId, live, jobs>>

\* The first of `order` after position i that stays, else the last before it
\* (AppState::remove_workspace, forget_repo)
Heir(order, i, stays) ==
  LET after  == {j \in i + 1 .. Len(order) : order[j] \in stays}
      before == {j \in 1 .. i - 1 : order[j] \in stays}
  IN CASE after # {} -> order[Min(after)]
       [] after = {} /\ before # {} -> order[Max(before)]
       [] OTHER -> None

Gone(ws) ==
  LET order == Order(repos)
  IN /\ active' = IF active \in ws
                    THEN Heir(order, IndexOf(order, active), Open \ ws) ELSE active
     /\ live' = live \ ws

\* App::finish_close; a question asked before it may have outlived the
\* workspace
Close(w) ==
  /\ w \in Open
  /\ Gone({w}) /\ repos' = Without(repos, w)
  /\ UNCHANGED <<place, nextId, jobs>>

ForgetRepo(r) ==
  /\ r \in DOMAIN repos
  /\ Gone(Range(InRepo(repos[r]))) /\ repos' = RemoveAt(repos, r)
  /\ UNCHANGED <<place, nextId, jobs>>

\* `amalgum focus`, `amalgum run`, a notification: the workspace is shown
\* without being started
Focus(w) ==
  /\ w \in Open
  /\ active' = w
  /\ UNCHANGED <<repos, place, nextId, live, jobs>>

\* The app quits or is killed and starts again (App::new)
Restart ==
  /\ live' = IF Restores THEN Open ELSE {}
  /\ jobs' = {}
  /\ UNCHANGED <<repos, place, active, nextId>>

Next ==
  \/ \E l \in Roots \cup Hosted \cup {Folder} :
       OpenLocal(l) \/ OpenRemote(l) \/ OpenAgain(l) \/ Opened(l)
  \/ \E w \in Open :
       \/ Activate(w) \/ Identified(w) \/ Close(w) \/ Focus(w)
       \/ \E up \in BOOLEAN : Move(w, up)
  \/ \E m \in Remotes : Bind(m)
  \/ \E r \in DOMAIN repos : ForgetRepo(r)
  \/ Restart

Spec == Init /\ [][Next]_vars

-----------------------------------------------------------------------------
\* Whatever was opened, moved, identified and closed in whatever order, each
\* workspace is in one place of the tree, no repository or remote is listed
\* twice and no folder is open twice, although folders are resolved by
\* workers and remote clones are identified late.
TreeIsSound ==
  /\ IsInjective(Order(repos))
  /\ IsInjective([r \in DOMAIN repos |-> repos[r].id])
  /\ \A r \in DOMAIN repos :
       IsInjective([g \in DOMAIN repos[r].groups |-> repos[r].groups[g].name])
  /\ \A v, w \in Open : place[v] = place[w] => v = w

\* What runs is open, and one workspace is active as long as any is open.
ActiveIsOpen ==
  /\ live \subseteq Open
  /\ IF Open = {} THEN active = None ELSE active \in Open

\* The workspace the user looks at runs (with restore_workspaces on).
ActiveRuns == active # None => active \in live

SidebarIsSound == TreeIsSound /\ ActiveIsOpen /\ ActiveRuns

\* No workspace disappears but with a close or its repository forgotten: not
\* when a repository it is about to leave, or was meant for, is dropped.
ClosedStep ==
  Open \ Open' # {} =>
    \/ \E w \in Open : Close(w)
    \/ \E r \in DOMAIN repos : ForgetRepo(r)
OnlyClosingCloses == [][ClosedStep]_vars
=============================================================================
