---------------------------- MODULE HunkStaging ----------------------------
(***************************************************************************)
(* Staging, unstaging and discarding parts of a file (patch_for in         *)
(* src/git/diff.rs, and the Changes view, src/ui/git_pane/changes.rs).     *)
(* The view shows a diff read some time ago; a button turns one hunk of it *)
(* into a patch that `git apply` puts into the index or the worktree, at   *)
(* the nearest place that matches, whatever they hold by then.             *)
(*                                                                         *)
(* A line is its text, whether it ends in a newline, and an identity that  *)
(* git does not see: the index and the worktree share the identities of    *)
(* the lines they have in common.  The view's buttons take whole hunks;    *)
(* patch_for is offered for any range of lines, so that is what is taken.  *)
(***************************************************************************)
EXTENDS Naturals, Sequences, SequencesExt

CONSTANTS
  Texts,     \* what an edit may write in a line
  Committed, \* what the committed file may say
  MaxLines,  \* bound: lines of the committed file
  MaxEdits,  \* bound: edits of the worktree
  MaxClicks, \* bound: patches applied
  Context,   \* lines of context around a change
  Absent,    \* no file
  Fresh      \* a patch is made only from a diff that still holds

ConstantsOK ==
  /\ MaxLines \in Nat /\ \A ts \in Committed : Len(ts) <= MaxLines
  /\ MaxEdits \in Nat /\ MaxClicks \in Nat /\ Context \in Nat
  /\ Fresh \in BOOLEAN

VARIABLES
  head, index, work, \* the file as committed, in the index and in the worktree
  nextId, clicks,    \* what names the next line written; patches so far
  side, diff,        \* what the view shows: "unstaged" or "staged", and its diff
  last               \* history: the patch just made, and the file it left

vars == <<head, index, work, nextId, clicks, side, diff, last>>

Nothing == [op |-> "none"]

Line(t, i, n) == [text |-> t, id |-> i, nl |-> n]
Ids(f) == IF f = Absent THEN {} ELSE {f[k].id : k \in DOMAIN f}
Lines(f) == IF f = Absent THEN <<>> ELSE f

In(l, f) == \E k \in DOMAIN f : f[k].id = l.id

LastId == MaxLines + 6 + 3 * MaxEdits

\* git diff: what was taken out before what was put in
Script(old, new) ==
  LET S[i \in 1 .. Len(old) + 1, j \in 1 .. Len(new) + 1] ==
        IF i <= Len(old) /\ ~In(old[i], new) THEN <<[kind |-> "del", line |-> old[i]]>> \o S[i + 1, j]
        ELSE IF j <= Len(new) /\ ~In(new[j], old) THEN <<[kind |-> "add", line |-> new[j]]>> \o S[i, j + 1]
        ELSE IF i <= Len(old) THEN <<[kind |-> "ctx", line |-> old[i]]>> \o S[i + 1, j + 1]
        ELSE <<>>
  IN S[1, 1]

Diff(old, new) ==
  [isNew |-> old = Absent, isDeleted |-> new = Absent, script |-> Script(Lines(old), Lines(new))]

Changed(s) == {k \in DOMAIN s : s[k].kind # "ctx"}

\* the hunks: ranges of the script no further than the context from a change
Near(s) == {k \in DOMAIN s : \E c \in Changed(s) : k <= c + Context /\ c <= k + Context}
Hunks(s) ==
  {h \in (DOMAIN s) \X (DOMAIN s) :
     h[1] <= h[2] /\ h[1] .. h[2] \subseteq Near(s) /\ h[1] - 1 \notin Near(s) /\ h[2] + 1 \notin Near(s)}

\* what git apply is given: the two sides and where to look
\* (the lines of a side before the hunk tell where it starts)
Before(s, a, gone) == Len(SelectSeq(SubSeq(s, 1, a - 1), LAMBDA x : x.kind # gone))
Start_OldSide(s, a, reverse) == Before(s, a, "add")
Start(s, a, reverse) == Before(s, a, IF reverse THEN "del" ELSE "add")

\* patch_for: a change not selected is dropped, or becomes context when the
\* file being patched has the line
OnSide(x, picked, of, reverse) ==
  \/ x.kind = "ctx"
  \/ picked /\ x.kind = (IF of = "old" THEN "del" ELSE "add")
  \/ ~picked /\ x.kind = (IF reverse THEN "add" ELSE "del")

\* a side loses its last newline only with the line that is last on it
\* (a line that gets its newline is another line)
Ending(lines, i) ==
  [k \in DOMAIN lines |-> IF k = Len(lines) \/ lines[k].nl THEN lines[k] ELSE Line(lines[k].text, i, TRUE)]

LinesAt(s, ks) == [n \in DOMAIN ks |-> s[ks[n]].line]
Positions(a, b) == [n \in 1 .. b + 1 - a |-> a + n - 1]

Side(d, h, sel, of, reverse) ==
  LET kept(k) == OnSide(d.script[k], k \in sel, of, reverse)
  IN Ending(LinesAt(d.script, SelectSeq(Positions(h[1], h[2]), kept)), LastId + 1)

Whole(d, h, sel) == Changed(d.script) \subseteq sel

\* patch_header: the patch creates or deletes the file only when it must
Patch(d, h, sel, reverse) ==
  LET lacks == IF reverse THEN d.isDeleted ELSE d.isNew
      removes == IF reverse THEN d.isNew ELSE d.isDeleted
      old == Side(d, h, sel, "old", reverse)
      new == Side(d, h, sel, "new", reverse)
      context == old # <<>> /\ new # <<>> /\ Last(old).id = Last(new).id
  IN [creates |-> lacks, deletes |-> ~lacks /\ removes /\ Whole(d, h, sel),
      pre |-> IF reverse THEN new ELSE old, post |-> IF reverse THEN old ELSE new,
      at |-> Start(d.script, h[1], reverse), trailing |-> context]

-----------------------------------------------------------------------------
\* git apply: the place nearest to where the patch says, forwards on a tie; a
\* patch at the file's start or without context at its end applies only there

Same(l, m) == l.text = m.text /\ l.nl = m.nl
Matches(f, p, k) ==
  /\ k + Len(p.pre) <= Len(f)
  /\ \A n \in DOMAIN p.pre : Same(p.pre[n], f[k + n])
  /\ p.at = 0 => k = 0
  /\ ~p.trailing => k + Len(p.pre) = Len(f)

Gap(k, at) == IF k >= at THEN 2 * (k - at) ELSE 2 * (at - k) + 1
Places(f, p) == {k \in 0 .. Len(f) : Matches(f, p, k)}
Place(f, p) == CHOOSE k \in Places(f, p) : \A m \in Places(f, p) : Gap(k, p.at) <= Gap(m, p.at)

Applies(f, p) ==
  /\ p.creates <=> f = Absent
  /\ Places(Lines(f), p) # {}
  /\ p.deletes => Len(p.pre) = Len(Lines(f)) /\ p.post = <<>>

\* a context line stays the file's own
Kept(f, p, k, l) ==
  LET own == {n \in DOMAIN p.pre : p.pre[n].id = l.id}
  IN IF own = {} THEN l ELSE f[k + CHOOSE n \in own : TRUE]

Applied(f, p) ==
  LET lines == Lines(f)
      k == Place(lines, p)
  IN IF p.deletes THEN Absent
     ELSE SubSeq(lines, 1, k) \o [n \in DOMAIN p.post |-> Kept(lines, p, k, p.post[n])]
            \o SubSeq(lines, k + Len(p.pre) + 1, Len(lines))

-----------------------------------------------------------------------------
Files ==
  {Absent} \cup
  {[k \in DOMAIN ts |-> Line(ts[k], k, k # Len(ts) \/ n)] : ts \in Committed, n \in BOOLEAN}

\* an edit: a line more or less, the last newline or not, or the file gone
Edited(f, id) ==
  LET ls == Lines(f)
      ins(k, t) == InsertAt(ls, k, Line(t, id, TRUE))
      plain == {ins(k, t) : k \in 1 .. Len(ls) + 1, t \in Texts} \cup {RemoveAt(ls, k) : k \in DOMAIN ls}
      ended(g) == Ending(g, id + 1)
      cut(g) == [k \in DOMAIN g |-> IF k = Len(g) THEN Line(g[k].text, id + 2, FALSE) ELSE g[k]]
  IN {ended(g) : g \in plain} \cup {cut(ended(g)) : g \in plain} \cup (IF f = Absent THEN {} ELSE {Absent})

Current(s) == IF s = "staged" THEN Diff(head, index) ELSE Diff(index, work)

Init ==
  /\ head \in Files
  /\ index \in {head} \cup Edited(head, MaxLines + 1)
  /\ work \in {index} \cup Edited(index, MaxLines + 4)
  /\ nextId = MaxLines + 7 /\ clicks = 0
  /\ side \in {"unstaged", "staged"} /\ diff = Current(side)
  /\ last = Nothing

\* an editor, an agent: the diff on screen stays
Edit ==
  /\ nextId < LastId /\ clicks < MaxClicks
  /\ work' \in Edited(work, nextId) /\ nextId' = nextId + 3 /\ last' = Nothing
  /\ UNCHANGED <<head, index, clicks, side, diff>>

\* dispatch_changes_diff and apply_changes_diff
Show(s) ==
  /\ clicks < MaxClicks /\ side' = s /\ diff' = Current(s) /\ last' = Nothing
  /\ UNCHANGED <<head, index, work, nextId, clicks>>

\* what a button may take of the diff on screen
Selections(h) == {a .. b : a \in h[1] .. h[2], b \in h[1] .. h[2]}
Picks ==
  UNION {{[d |-> diff, h |-> h, sel |-> sel] :
            sel \in {S \in Selections(h) : S \cap Changed(diff.script) # {}}} : h \in Hunks(diff.script)}

\* dispatch_hunk: git apply runs, and the diff is read again if it succeeds
PatchOf(op, p) == Patch(p.d, p.h, p.sel, op # "stage")

Buttons == IF side = "staged" THEN {"unstage"} ELSE {"stage", "discard"}

Apply(op, p) ==
  /\ clicks' = clicks + 1
  /\ Fresh => diff = Current(side)
  /\ UNCHANGED <<head, nextId, side>>
  /\ LET patch == PatchOf(op, p)
         f == IF op = "discard" THEN work ELSE index
     IN IF Applies(f, patch)
        THEN /\ index' = IF op = "discard" THEN index ELSE Applied(f, patch)
             /\ work' = IF op = "discard" THEN Applied(f, patch) ELSE work
             /\ diff' \in {diff, Current(side)'}
             /\ last' = [op |-> op, pick |-> p, was |-> f, got |-> Applied(f, patch)]
        ELSE last' = [op |-> op, pick |-> p, was |-> f, got |-> f] /\ UNCHANGED <<index, work, diff>>

Next ==
  \/ Edit
  \/ \E s \in {"unstaged", "staged"} : Show(s)
  \/ clicks < MaxClicks /\ \E op \in Buttons, p \in Picks : Apply(op, p)

Spec == Init /\ [][Next]_vars

-----------------------------------------------------------------------------
\* the file with the lines picked, and only those, taken over or taken back
Meant(op, p) ==
  LET s == p.d.script
      reverse == op # "stage"
      kept(k) == \/ s[k].kind = "ctx"
                 \/ (k \in p.sel) = (s[k].kind = IF reverse THEN "del" ELSE "add")
      removes == IF reverse THEN p.d.isNew ELSE p.d.isDeleted
  IN IF removes /\ Whole(p.d, p.h, p.sel) THEN Absent
     ELSE Ending(LinesAt(s, SelectSeq(Positions(1, Len(s)), kept)), LastId + 1)

\* A patch made from a diff that holds applies, and does to the file what was
\* shown: the picked lines go or come, and no other line does.
OnlyWhatWasPicked == last # Nothing => last.got = Meant(last.op, last.pick)
=============================================================================
