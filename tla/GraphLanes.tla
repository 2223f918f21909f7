----------------------------- MODULE GraphLanes -----------------------------
(***************************************************************************)
(* The lanes of the commit graph (src/git/graph.rs): Layout::push lays out *)
(* one commit of the log at a time, children before parents, and never     *)
(* revisits a row.  Commits are numbered in log order; what a commit's     *)
(* parents are, and which branch names it, is chosen as it comes.          *)
(***************************************************************************)
EXTENDS Naturals, Sequences, Functions

CONSTANTS
  MaxCommits, \* bound: commits of the log; MaxCommits + 1 never comes
  MaxParents, \* bound: parents of a commit
  Colors      \* LANE_COLORS

ConstantsOK == MaxCommits \in Nat /\ MaxParents \in Nat /\ Colors \in Nat \ {0}

VARIABLES
  lanes,   \* what each lane waits for and its colour, from the left
  parents, \* the parents of each commit drawn
  row,     \* the last row
  lines,   \* the lanes in which each drawn commit's lines leave the last row
  met      \* <<c, d>>: a line that left c downwards ended in d

vars == <<lanes, parents, row, lines, met>>

Free == [wait |-> 0, color |-> 0]
Waits(ls, c) == {i \in DOMAIN ls : ls[i].wait = c}
Active(ls) == {i \in DOMAIN ls : ls[i] # Free}
Least(S) == CHOOSE i \in S : \A j \in S : i <= j
Hue(i) == (i - 1) % Colors

\* the leftmost of the lanes, or the leftmost free one, or a new one
Leftmost(ls, S) ==
  IF S # {} THEN Least(S)
  ELSE IF Active(ls) # DOMAIN ls THEN Least(DOMAIN ls \ Active(ls))
  ELSE Len(ls) + 1

\* Vec::resize, then the lane set
Put(ls, i, lane) == [j \in 1 .. (IF i > Len(ls) THEN i ELSE Len(ls)) |->
                       IF j = i THEN lane ELSE IF j <= Len(ls) THEN ls[j] ELSE Free]

\* lanes at the right end that are free are given back
Tight(ls) == SubSeq(ls, 1, CHOOSE n \in 0 .. Len(ls) :
                              /\ \A i \in n + 1 .. Len(ls) : ls[i] = Free
                              /\ n > 0 => ls[n] # Free)

Top(from, to, color) == [half |-> "top", from |-> from, to |-> to, color |-> color]
Bottom(from, to, color) == [half |-> "bottom", from |-> from, to |-> to, color |-> color]

\* a further parent's lane, and the lines into it; acc carries the lanes so
\* far, the segments and the lanes touched
Join_NoVertical(old, node, acc, p) ==
  LET i == Leftmost(acc.lanes, Waits(acc.lanes, p))
      ls == IF Waits(acc.lanes, p) # {} THEN acc.lanes
            ELSE Put(acc.lanes, i, [wait |-> p, color |-> Hue(i)])
  IN [lanes |-> ls, touched |-> acc.touched \cup {i},
      segments |-> acc.segments \cup {Bottom(node, i, ls[i].color)}]

Join(old, node, acc, p) ==
  LET there == Waits(acc.lanes, p)
      i == Leftmost(acc.lanes, there)
      ls == IF there # {} THEN acc.lanes ELSE Put(acc.lanes, i, [wait |-> p, color |-> Hue(i)])
      vertical == IF there # {} /\ i \in Active(old) THEN {Bottom(i, i, ls[i].color)} ELSE {}
  IN [lanes |-> ls, touched |-> acc.touched \cup {i},
      segments |-> acc.segments \cup vertical \cup {Bottom(node, i, ls[i].color)}]

\* the further parents, one after the other
Joined(old, node, first, ps) ==
  LET after[k \in 0 .. Len(ps)] ==
        IF k <= 1 THEN first ELSE Join(old, node, after[k - 1], ps[k])
  IN after[Len(ps)]

\* Layout::push; hint is the colour of the branch that names the commit, if any
Row(old, c, ps, hint) ==
  LET waiting == Waits(old, c)
      node == Leftmost(old, waiting)
      color == IF waiting # {} THEN old[node].color
               ELSE IF hint # {} THEN CHOOSE h \in hint : TRUE ELSE Hue(node)
      tops == {Top(i, IF i \in waiting THEN node ELSE i, old[i].color) : i \in Active(old)}
      emptied == [i \in DOMAIN old |-> IF i \in waiting THEN Free ELSE old[i]]
      first == IF ps = <<>> THEN [lanes |-> Put(emptied, node, Free), touched |-> {node}, segments |-> tops]
               ELSE [lanes |-> Put(emptied, node, [wait |-> ps[1], color |-> color]),
                     touched |-> {node}, segments |-> tops \cup {Bottom(node, node, color)}]
      all == Joined(old, node, first, ps)
      through == {Bottom(i, i, all.lanes[i].color) : i \in Active(all.lanes) \ all.touched}
  IN [node |-> node, color |-> color, segments |-> all.segments \cup through,
      width |-> Len(all.lanes), lanes |-> all.lanes]

Half(r, half) == {s \in r.segments : s.half = half}

-----------------------------------------------------------------------------
NoRow == [node |-> 1, color |-> 0, segments |-> {}, width |-> 1, lanes |-> <<>>]

Init == lanes = <<>> /\ parents = <<>> /\ row = NoRow /\ lines = <<>> /\ met = {}

\* what the lines on screen show: those of c that enter the row in lanes S
Through(r, S) == {s.to : s \in {t \in Half(r, "top") : t.from \in S}}
Leaving(r, S) == {s.to : s \in {t \in Half(r, "bottom") : t.from \in S}}

Push(ps, hint) ==
  LET c == Len(parents) + 1
      r == Row(lanes, c, ps, hint)
  IN /\ c <= MaxCommits
     /\ lanes' = Tight(r.lanes) /\ parents' = Append(parents, ps) /\ row' = r
     /\ lines' = [b \in 1 .. c |-> IF b = c THEN Leaving(r, {r.node})
                                   ELSE Leaving(r, Through(r, lines[b]) \ {r.node})]
     /\ met' = met \cup {<<b, c>> : b \in {d \in 1 .. c - 1 : r.node \in Through(r, lines[d])}}

ParentLists(c) == UNION {Injection(1 .. n, c + 1 .. MaxCommits + 1) : n \in 0 .. MaxParents}

Next == \E ps \in ParentLists(Len(parents) + 1), hint \in {{}, {0}} : Push(ps, hint)

Spec == Init /\ [][Next]_vars

-----------------------------------------------------------------------------
\* The lines drawn under a commit lead to each of its parents that is drawn and
\* to no other commit, and the rest of them wait, in lanes of the last row, for
\* the parents yet to come; they leave it in the colours they will enter the
\* next row with, and the row is as wide as what is drawn in it.
LinesLeadToParents ==
  LET drawn == 1 .. Len(parents) IN
  /\ met = {e \in drawn \X drawn : e[2] \in Range(parents[e[1]])}
  /\ \A c \in drawn : {lanes[i].wait : i \in lines[c]} = Range(parents[c]) \ drawn
  /\ {<<s.to, s.color>> : s \in Half(row, "bottom")} = {<<i, lanes[i].color>> : i \in Active(lanes)}
  /\ \A s \in row.segments : s.from <= row.width /\ s.to <= row.width
=============================================================================
