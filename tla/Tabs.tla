-------------------------------- MODULE Tabs --------------------------------
(***************************************************************************)
(* The terminal tabs of one workspace: each a tree of splits whose leaves  *)
(* are panes (src/model/layout.rs), the panes' terminals and the status    *)
(* trackers their agents' hooks drive (src/ui/app/workspace.rs, events.rs, *)
(* surface.rs, actions.rs).                                                *)
(*                                                                         *)
(* A tree maps the place of each leaf, the sequence of turns from the root *)
(* (0: first child, 1: second), to its pane.  Axes and ratios are left     *)
(* out, and with them which pane is geometrically next to which.           *)
(*                                                                         *)
(* The workspace is a local one.  A remote workspace's terminals are       *)
(* cleared by Disconnect and run again by the next connection              *)
(* (src/ui/app/remote.rs) while their statuses are kept: not modelled.     *)
(***************************************************************************)
EXTENDS Naturals, SequencesExt

CONSTANTS
  MaxPanes,  \* bound: panes ever made
  MaxDepth,  \* bound: splits in splits
  MaxHooks   \* bound: hook events under way

ConstantsOK == MaxPanes \in Nat \ {0} /\ MaxDepth \in Nat /\ MaxHooks \in Nat

VARIABLES
  tabs,      \* Workspace::tabs
  activeTab, \* Workspace::active_tab, counted from 1
  nextTab,   \* AppState::next_id, for tabs
  made,      \* panes ever made
  terms,     \* Live::panes: the terminal of each pane that has one
  trackers,  \* Live::trackers: the pane each key's status came from
  hooks,     \* hook events an agent raised and the app has not read
  late       \* keys whose status came from a terminal that was gone

vars == <<tabs, activeTab, nextTab, made, terms, trackers, hooks, late>>

Leaf(pane) == (<<>> :> pane)
Panes(tab) == Range(tab.tree)
AllPanes == UNION {Panes(tabs[i]) : i \in DOMAIN tabs}
PlaceOf(tree, pane) == CHOOSE p \in DOMAIN tree : tree[p] = pane
Under(tree, p) == {q \in DOMAIN tree : IsPrefix(p, q)}
Key(tab, pane) == <<tab.id, pane>>

\* Tree::split: the leaf becomes a split of itself and the new one
SplitTree(tree, pane, new) ==
  LET p == PlaceOf(tree, pane)
  IN [q \in (DOMAIN tree \ {p}) \cup {Append(p, 0), Append(p, 1)} |->
        IF q = Append(p, 0) THEN pane ELSE IF q = Append(p, 1) THEN new ELSE tree[q]]

\* Tree::close: the split around the leaf is replaced by its other child
Sibling(p) == Append(Front(p), 1 - Last(p))

CloseTree(tree, pane) ==
  LET p    == PlaceOf(tree, pane)
      up   == Len(p)
      kept == DOMAIN tree \ Under(tree, Front(p))
      Lifted(q) == Front(p) \o SubSeq(q, up + 1, Len(q))
  IN [q \in kept \cup {Lifted(r) : r \in Under(tree, Sibling(p))} |->
        IF q \in kept THEN tree[q]
          ELSE tree[Sibling(p) \o SubSeq(q, up, Len(q))]]

\* ... and the focus goes to the leaf of that child nearest to the closed one
NextFocus(tree, pane) ==
  LET p == PlaceOf(tree, pane)
  IN tree[CHOOSE q \in Under(tree, Sibling(p)) :
            \A i \in Len(p) + 1 .. Len(q) : q[i] = Last(p)]

\* App::next_pane_id, over the panes of every workspace
NextPane == IF AllPanes = {} THEN 1 ELSE Max(AllPanes) + 1

Terminal(pane) == terms' \in {terms, (pane :> made') @@ terms}

Init ==
  /\ tabs = <<[id |-> 1, tree |-> Leaf(1), panes |-> {1}, focused |-> 1]>>
  /\ activeTab = 1 /\ nextTab = 2 /\ made = 1
  /\ terms = (1 :> 1) /\ trackers = <<>> /\ hooks = {} /\ late = {}

\* App::new_tab; the terminal may fail to start, or wait for a host
NewTab ==
  /\ made < MaxPanes /\ made' = made + 1
  /\ tabs' = Append(tabs, [id |-> nextTab, tree |-> Leaf(NextPane),
                           panes |-> {NextPane}, focused |-> NextPane])
  /\ activeTab' = Len(tabs') /\ nextTab' = nextTab + 1
  /\ Terminal(NextPane)
  /\ UNCHANGED <<trackers, hooks, late>>

Current == tabs[activeTab]

\* App::split
Split ==
  /\ tabs # <<>>
  /\ made < MaxPanes /\ Len(PlaceOf(Current.tree, Current.focused)) < MaxDepth
  /\ made' = made + 1
  /\ tabs' = [tabs EXCEPT ![activeTab] =
       [@ EXCEPT !.tree = SplitTree(@, Current.focused, NextPane),
                 !.panes = @ \cup {NextPane}, !.focused = NextPane]]
  /\ Terminal(NextPane)
  /\ UNCHANGED <<activeTab, nextTab, trackers, hooks, late>>

\* App::close_pane, and the tab with its last pane
Dropped(f, k) == [x \in DOMAIN f \ {k} |-> f[x]]

Close_KeepsTab ==
  /\ tabs # <<>>
  /\ LET pane == Current.focused
     IN /\ IF Current.tree = Leaf(pane)
             THEN tabs' = RemoveAt(tabs, activeTab)
             ELSE tabs' = [tabs EXCEPT ![activeTab] =
                    [@ EXCEPT !.tree = CloseTree(@, pane), !.panes = @ \ {pane},
                              !.focused = NextFocus(Current.tree, pane)]]
        /\ terms' = Dropped(terms, pane)
        /\ trackers' = Dropped(trackers, Key(Current, pane))
        /\ late' = late \ {Key(Current, pane)}
  /\ UNCHANGED <<activeTab, nextTab, made, hooks>>

Close ==
  /\ tabs # <<>>
  /\ LET pane == Current.focused
         key  == Key(Current, pane)
     IN /\ IF Current.tree = Leaf(pane)
             THEN /\ tabs' = RemoveAt(tabs, activeTab)
                  /\ activeTab' = Max({1, Min({activeTab, Len(tabs')})})
             ELSE /\ tabs' = [tabs EXCEPT ![activeTab] =
                       [@ EXCEPT !.tree = CloseTree(@, pane), !.panes = @ \ {pane},
                                 !.focused = NextFocus(Current.tree, pane)]]
                  /\ UNCHANGED activeTab
        /\ terms' = Dropped(terms, pane)
        /\ trackers' = Dropped(trackers, key)
        /\ late' = late \ {key}
  /\ UNCHANGED <<nextTab, made, hooks>>

\* A click in the strip, or App::cycle_tab
SelectTab(i) ==
  /\ activeTab' = i
  /\ UNCHANGED <<tabs, nextTab, made, terms, trackers, hooks, late>>

\* App::focus_pane, after a click or from move_focus
FocusPane(pane) ==
  /\ tabs # <<>> /\ pane \in Panes(Current)
  /\ tabs' = [tabs EXCEPT ![activeTab].focused = pane]
  /\ UNCHANGED <<activeTab, nextTab, made, terms, trackers, hooks, late>>

\* The agent in a terminal raises an event: AMALGUM_TAB names its pane
RaiseHook(tab, pane) ==
  /\ pane \in Panes(tab) \cap DOMAIN terms /\ Cardinality(hooks) < MaxHooks
  /\ hooks' = hooks \cup {[key |-> Key(tab, pane), from |-> terms[pane]]}
  /\ UNCHANGED <<tabs, activeTab, nextTab, made, terms, trackers, late>>

\* App::observe, App::tracker: the event is read, from the socket or from a
\* host's queue, maybe long after
ReadHook(h) ==
  /\ h \in hooks /\ hooks' = hooks \ {h}
  /\ trackers' = (h.key :> h.from) @@ trackers
  /\ late' = IF h.from \in Range(terms) THEN late \ {h.key} ELSE late \cup {h.key}
  /\ UNCHANGED <<tabs, activeTab, nextTab, made, terms>>

ClearStatus(key) ==
  /\ trackers' = Dropped(trackers, key) /\ late' = late \ {key}
  /\ UNCHANGED <<tabs, activeTab, nextTab, made, terms, hooks>>

\* The app starts again: tabs come from state.json, their terminals anew
Restart ==
  /\ made + Cardinality(AllPanes) <= MaxPanes
  /\ made' = made + Cardinality(AllPanes)
  /\ terms' \in {f \in [AllPanes -> made + 1 .. made'] : IsInjective(f)}
  /\ trackers' = <<>> /\ late' = {}
  /\ UNCHANGED <<tabs, activeTab, nextTab, hooks>>

Next ==
  \/ NewTab \/ Split \/ Close \/ Restart
  \/ \E i \in DOMAIN tabs :
       \/ SelectTab(i)
       \/ \E pane \in Panes(tabs[i]) :
            FocusPane(pane) \/ RaiseHook(tabs[i], pane) \/ ClearStatus(Key(tabs[i], pane))
  \/ \E h \in hooks : ReadHook(h)

Spec == Init /\ [][Next]_vars

-----------------------------------------------------------------------------
\* The leaves of a tab's tree are its panes, each once; no pane is in two
\* tabs; every split has two children; the focus and the active tab exist;
\* every terminal is some pane's; and, in a local workspace, every status is
\* of a pane and of the terminal it has now, unless its report was late.
Full(tree) ==
  \A p \in DOMAIN tree : \A i \in 1 .. Len(p) :
    Under(tree, Append(SubSeq(p, 1, i - 1), 1 - p[i])) # {}

StatusesAreTheirs ==
  \A key \in DOMAIN trackers \ late :
    \E i \in DOMAIN tabs : \E pane \in Panes(tabs[i]) \cap DOMAIN terms :
      key = Key(tabs[i], pane) /\ terms[pane] = trackers[key]

TabsAreSound ==
  /\ \A i \in DOMAIN tabs :
       /\ IsInjective(tabs[i].tree) /\ Full(tabs[i].tree)
       /\ Panes(tabs[i]) = tabs[i].panes
       /\ tabs[i].focused \in tabs[i].panes
       /\ \A j \in DOMAIN tabs \ {i} : Panes(tabs[i]) \cap Panes(tabs[j]) = {}
  /\ IF tabs = <<>> THEN activeTab = 1 ELSE activeTab \in DOMAIN tabs
  /\ DOMAIN terms \subseteq AllPanes
  /\ StatusesAreTheirs
=============================================================================
