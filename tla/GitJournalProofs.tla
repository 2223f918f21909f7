-------------------------- MODULE GitJournalProofs --------------------------
(***************************************************************************)
(* Proofs about the git journal (GitJournal), for any cap and any number   *)
(* of jobs and of states of the repository, as long as the user starts     *)
(* nothing while something else is under way (Careful).                    *)
(*                                                                         *)
(* The argument: the entries not undone come first (Upto), and read one    *)
(* after the other they lead from state to state (Walk); the journal tells *)
(* a state when the walk is there after the last entry not undone (Tells). *)
(* Recording after a move, letting entries wait that moved nothing, the    *)
(* cap, and marking the entry an undo took back or a redo brought back all *)
(* keep that (RecordTells, FlushTells, NewestTells, MarkTells).  The rest  *)
(* says where HEAD may be meanwhile: where a job or a stopped operation    *)
(* found it or left it (JobInv, PendingInv), and at one end of the entry   *)
(* an undo runs (WorkerInv).                                               *)
(***************************************************************************)
EXTENDS GitJournal, FiniteSetTheorems, TLAPS

Entries ==
  [id : Nat, before : Nat, after : Nat, moves : BOOLEAN, inverse : BOOLEAN, undone : BOOLEAN]

(* The first d entries are those not undone.                                *)
Upto(s, d) == \A i \in 1 .. Len(s) : s[i].undone <=> i > d

(* The states p between the entries: an entry that moved HEAD leads from    *)
(* where it began to where it left it.                                      *)
Walk(s, p) ==
  \A i \in 1 .. Len(s) :
    IF s[i].moves THEN p[i - 1] = s[i].before /\ p[i] = s[i].after ELSE p[i] = p[i - 1]

(* A journal s that is at h.                                                *)
Tells(s, h) ==
  \E d \in 0 .. Len(s), p \in [0 .. Len(s) -> Nat] : Upto(s, d) /\ Walk(s, p) /\ p[d] = h

AllDone(s) == \A i \in 1 .. Len(s) : ~s[i].undone

(* A set of numbers that is not empty has a least one.                      *)
LEMMA Least ==
  ASSUME NEW T \in SUBSET Nat, T # {}
  PROVE  \E n \in T : \A m \in T : n <= m
<1> DEFINE C == {1 .. n : n \in T}
<1>1. C \subseteq FiniteSubsetsOf(Nat)
  <2>1. ASSUME NEW n \in T PROVE 1 .. n \in FiniteSubsetsOf(Nat)
    <3>1. n \in Int /\ 1 .. n \subseteq Nat
      OBVIOUS
    <3>2. IsFiniteSet(1 .. n)
      BY <3>1, FS_Interval
    <3> QED  BY ONLY <3>1, <3>2 DEF FiniteSubsetsOf
  <2> QED  BY <2>1
<1>2. C # {}
  OBVIOUS
<1>3. PICK c \in C : \A d \in C : ~ <<d, c>> \in StrictSubsetOrdering(Nat)
  <2> HIDE DEF C
  <2> QED  BY <1>1, <1>2, FS_StrictSubsetOrderingWellFounded, WFMin
<1>4. PICK n \in T : c = 1 .. n
  OBVIOUS
<1>5. ASSUME NEW m \in T PROVE n <= m
  <2>1. ~ <<1 .. m, 1 .. n>> \in StrictSubsetOrdering(Nat)
    BY <1>3, <1>4
  <2> QED  BY <2>1 DEF StrictSubsetOrdering
<1> QED  BY <1>5

LEMMA EntryFields ==
  ASSUME NEW e \in Entries
  PROVE  /\ e.id \in Nat /\ e.before \in Nat /\ e.after \in Nat
         /\ e.moves \in BOOLEAN /\ e.inverse \in BOOLEAN /\ e.undone \in BOOLEAN
  BY DEF Entries

(* Where those undone are the last, the others are the first.               *)
LEMMA NotUndoneIs ==
  ASSUME NEW s \in Seq(Entries), NEW d \in 0 .. Len(s), Upto(s, d)
  PROVE  /\ NotUndone(s) = SubSeq(s, 1, d)
         /\ UndoIndices(s) = 1 .. d
<1>1. UndoIndices(s) = 1 .. d
  BY DEF UndoIndices, IsDone, Upto
<1>2. \A i \in 0 .. d : Cardinality(1 .. i) = i
  BY FS_Interval
<1>3. Cardinality(1 .. d) = d
  BY <1>2
<1>4. ASSUME NEW n \in 1 .. d
      PROVE  (CHOOSE i \in 1 .. d : Cardinality((1 .. d) \cap (1 .. i)) = n) = n
  <2>1. \A i \in 1 .. d : Cardinality((1 .. d) \cap (1 .. i)) = i
    <3> SUFFICES ASSUME NEW i \in 1 .. d PROVE Cardinality((1 .. d) \cap (1 .. i)) = i
      OBVIOUS
    <3>1. (1 .. d) \cap (1 .. i) = 1 .. i /\ i \in 0 .. d
      OBVIOUS
    <3> QED  BY <3>1, <1>2, Zenon
  <2> QED  BY <2>1
<1>5. NotUndone(s) = [n \in 1 .. d |-> s[n]]
  <2>1. NotUndone(s) = [n \in 1 .. Cardinality(UndoIndices(s)) |->
                          s[CHOOSE i \in UndoIndices(s) : Cardinality(UndoIndices(s) \cap (1 .. i)) = n]]
    BY DEF NotUndone
  <2>2. NotUndone(s) = [n \in 1 .. d |-> s[CHOOSE i \in 1 .. d : Cardinality((1 .. d) \cap (1 .. i)) = n]]
    BY <2>1, <1>1, <1>3
  <2> QED  BY <2>2, <1>4
<1>6. SubSeq(s, 1, d) = [n \in 1 .. d |-> s[n]]
  OBVIOUS
<1> QED  BY <1>1, <1>5, <1>6

(* The newest entries: all but the k oldest.                                *)
LEMMA NewestIs ==
  ASSUME NEW s \in Seq(Entries)
  PROVE  \E k \in 0 .. Len(s) :
           /\ Newest(s) \in Seq(Entries) /\ Len(Newest(s)) = Len(s) - k
           /\ s # <<>> => k < Len(s)
           /\ \A i \in 1 .. Len(s) - k : Newest(s)[i] = s[i + k]
           /\ k = IF Len(s) > Cap THEN Len(s) - Cap ELSE 0
<1> DEFINE k == IF Len(s) > Cap THEN Len(s) - Cap ELSE 0
<1>1. Cap \in Nat /\ Cap > 0 /\ Len(s) \in Nat
  BY CapAssumption
<1>2. k \in 0 .. Len(s) /\ (s # <<>> => k < Len(s))
  BY <1>1
<1>3. CASE Len(s) > Cap
  <2>1. Newest(s) = SubSeq(s, k + 1, Len(s))
    BY <1>3, <1>1 DEF Newest
  <2>2. k \in Nat /\ k < Len(s)
    BY <1>1, <1>2, <1>3
  <2> HIDE DEF k
  <2>3. /\ SubSeq(s, k + 1, Len(s)) \in Seq(Entries)
        /\ Len(SubSeq(s, k + 1, Len(s))) = Len(s) - k
    BY <2>2, <1>1
  <2>4. ASSUME NEW i \in 1 .. Len(s) - k PROVE SubSeq(s, k + 1, Len(s))[i] = s[i + k]
    <3>1. i \in 1 .. (Len(s) - (k + 1) + 1) /\ (k + 1) + i - 1 = i + k
      BY <2>2, <1>1
    <3> QED  BY <3>1, <2>2, <1>1
  <2> QED  BY <2>1, <2>3, <2>4, <1>2 DEF k
<1>4. CASE ~(Len(s) > Cap)
  <2>1. Newest(s) = s /\ k = 0
    BY <1>4, <1>1 DEF Newest
  <2> QED  BY <2>1, <1>1, <1>2
<1> QED  BY <1>3, <1>4

(* The newest of what is added to the newest are the newest of all.         *)
LEMMA NewestTwice ==
  ASSUME NEW s \in Seq(Entries), NEW e \in Entries
  PROVE  Newest(Append(Newest(s), e)) = Newest(Append(s, e))
<1> DEFINE a == Newest(s)
           b == Append(a, e)
           c == Append(s, e)
<1>1. PICK k \in 0 .. Len(s) :
        /\ a \in Seq(Entries) /\ Len(a) = Len(s) - k
        /\ \A i \in 1 .. Len(s) - k : a[i] = s[i + k]
        /\ k = IF Len(s) > Cap THEN Len(s) - Cap ELSE 0
  BY NewestIs
<1> HIDE DEF a
<1>2. /\ Cap \in Nat /\ Cap > 0 /\ Len(s) \in Nat
      /\ b \in Seq(Entries) /\ Len(b) = Len(s) - k + 1
      /\ c \in Seq(Entries) /\ Len(c) = Len(s) + 1
      /\ \A i \in 1 .. Len(s) - k + 1 : b[i] = c[i + k]
  <2>1. Cap \in Nat /\ Cap > 0 /\ Len(s) \in Nat /\ Len(a) \in Nat
    BY <1>1, CapAssumption
  <2>2. b \in Seq(Entries) /\ Len(b) = Len(a) + 1 /\ c \in Seq(Entries) /\ Len(c) = Len(s) + 1
    BY <1>1
  <2>3. ASSUME NEW i \in 1 .. Len(s) - k + 1 PROVE b[i] = c[i + k]
    <3>1. CASE i = Len(s) - k + 1
      <4>1. i = Len(a) + 1 /\ i + k = Len(s) + 1
        BY <3>1, <1>1, <2>1
      <4>2. b[Len(a) + 1] = e /\ c[Len(s) + 1] = e
        BY <1>1
      <4> HIDE DEF b, c
      <4> QED  BY <4>1, <4>2
    <3>2. CASE i # Len(s) - k + 1
      <4>1. i \in 1 .. Len(s) - k /\ i + k \in 1 .. Len(s) /\ i \in 1 .. Len(a)
        BY <3>2, <1>1, <2>1
      <4>2. b[i] = a[i]
        BY <4>1, <1>1 DEF b
      <4>3. c[i + k] = s[i + k]
        BY <4>1, <1>1 DEF c
      <4> QED  BY <4>1, <4>2, <4>3, <1>1
    <3> QED  BY <3>1, <3>2
  <2> QED  BY <1>1, <2>1, <2>2, <2>3
<1> HIDE DEF b, c
<1>3. PICK m \in 0 .. Len(b) :
        /\ Newest(b) \in Seq(Entries) /\ Len(Newest(b)) = Len(b) - m
        /\ \A i \in 1 .. Len(b) - m : Newest(b)[i] = b[i + m]
        /\ m = IF Len(b) > Cap THEN Len(b) - Cap ELSE 0
  BY <1>2, NewestIs
<1>4. PICK n \in 0 .. Len(c) :
        /\ Newest(c) \in Seq(Entries) /\ Len(Newest(c)) = Len(c) - n
        /\ \A i \in 1 .. Len(c) - n : Newest(c)[i] = c[i + n]
        /\ n = IF Len(c) > Cap THEN Len(c) - Cap ELSE 0
  BY <1>2, NewestIs
<1>5. n = m + k /\ Len(b) - m = Len(c) - n /\ m \in Nat /\ k \in Nat
  <2>1. /\ k = IF Len(s) > Cap THEN Len(s) - Cap ELSE 0
        /\ n = IF Len(s) + 1 > Cap THEN Len(s) + 1 - Cap ELSE 0
        /\ m = IF Len(s) - k + 1 > Cap THEN Len(s) - k + 1 - Cap ELSE 0
    BY <1>1, <1>2, <1>3, <1>4
  <2>2. n = m + k /\ m \in Nat /\ k \in Nat
    <3>1. ASSUME NEW l \in Nat, NEW C \in Nat,
                 k = IF l > C THEN l - C ELSE 0,
                 n = IF l + 1 > C THEN l + 1 - C ELSE 0,
                 m = IF l - k + 1 > C THEN l - k + 1 - C ELSE 0
          PROVE  n = m + k /\ m \in Nat /\ k \in Nat
      <4>1. CASE l > C
        <5>1. k = l - C /\ l - k + 1 = C + 1
          BY <3>1, <4>1
        <5>2. m = 1 /\ n = l + 1 - C
          BY <5>1, <3>1, <4>1
        <5> QED  BY <5>1, <5>2, <4>1
      <4>2. CASE ~(l > C)
        BY <4>2, <3>1
      <4> QED  BY <4>1, <4>2
    <3> QED  BY <3>1, <2>1, <1>2
  <2> QED  BY <2>2, <1>2
<1>6. ASSUME NEW i \in 1 .. Len(c) - n PROVE Newest(b)[i] = Newest(c)[i]
  <2>1. i \in 1 .. Len(b) - m /\ i + m \in 1 .. Len(s) - k + 1 /\ i + n = (i + m) + k
    <3>1. i \in 1 .. Len(b) - m /\ i \in Nat /\ i >= 1 /\ i <= Len(b) - m
      BY <1>5, <1>2
    <3> QED  BY <3>1, <1>2, <1>5
  <2>2. b[i + m] = c[(i + m) + k]
    BY <2>1, <1>2
  <2> QED  BY <2>1, <2>2, <1>3, <1>4
<1>7. Len(Newest(b)) = Len(c) - n
  BY <1>3, <1>5
<1>8. Newest(b) = Newest(c)
  <2> DEFINE x == Newest(b)
             y == Newest(c)
  <2>1. /\ x \in Seq(Entries) /\ y \in Seq(Entries) /\ Len(x) = Len(y)
        /\ \A i \in 1 .. Len(y) : x[i] = y[i]
    BY <1>3, <1>4, <1>6, <1>7
  <2> HIDE DEF x, y
  <2>2. x = y
    BY <2>1
  <2> QED  BY <2>2 DEF x, y
<1> QED  BY <1>8 DEF a, b, c

LEMMA AllKept ==
  ASSUME NEW s \in Seq(Entries), AllDone(s)
  PROVE  NotUndone(s) = s
<1>1. Len(s) \in 0 .. Len(s) /\ Upto(s, Len(s))
  BY DEF AllDone, Upto
<1>2. NotUndone(s) = SubSeq(s, 1, Len(s))
  BY <1>1, NotUndoneIs
<1> QED  BY <1>2

LEMMA NewestDone ==
  ASSUME NEW s \in Seq(Entries), AllDone(s)
  PROVE  AllDone(Newest(s))
<1>1. PICK k \in 0 .. Len(s) :
        /\ Newest(s) \in Seq(Entries) /\ Len(Newest(s)) = Len(s) - k
        /\ \A i \in 1 .. Len(s) - k : Newest(s)[i] = s[i + k]
  BY NewestIs
<1>2. \A i \in 1 .. Len(s) - k : i + k \in 1 .. Len(s)
  OBVIOUS
<1> QED  BY <1>1, <1>2 DEF AllDone

(* What is not undone, and a list recorded on top of it.                    *)
LEMMA Joined ==
  ASSUME NEW s \in Seq(Entries), NEW d \in 0 .. Len(s), Upto(s, d),
         NEW list \in Seq(Entries), AllDone(list)
  PROVE  LET a == NotUndone(s) \o list
         IN  /\ NotUndone(s) \in Seq(Entries) /\ Len(NotUndone(s)) = d
             /\ a \in Seq(Entries) /\ Len(a) = d + Len(list)
             /\ \A i \in 1 .. d : a[i] = s[i]
             /\ \A i \in 1 .. Len(list) : a[d + i] = list[i]
             /\ AllDone(a)
<1> DEFINE t == NotUndone(s)
           a == t \o list
<1>1. t \in Seq(Entries) /\ Len(t) = d /\ \A i \in 1 .. d : t[i] = s[i] /\ ~s[i].undone
  <2>1. t = SubSeq(s, 1, d)
    BY NotUndoneIs
  <2>2. \A i \in 1 .. d : ~s[i].undone
    BY DEF Upto
  <2> HIDE DEF t
  <2> QED  BY <2>1, <2>2
<1> HIDE DEF t
<1>2. a \in Seq(Entries) /\ Len(a) = d + Len(list)
  BY <1>1
<1>3. ASSUME NEW i \in 1 .. d PROVE a[i] = s[i]
  BY <1>1
<1>4. ASSUME NEW i \in 1 .. Len(list) PROVE a[d + i] = list[i]
  BY <1>1
<1>5. AllDone(a)
  <2> HIDE DEF a
  <2>1. ASSUME NEW i \in 1 .. Len(a) PROVE ~a[i].undone
    <3>1. CASE i <= d
      BY <3>1, <1>1, <1>3
    <3>2. CASE ~(i <= d)
      <4>1. i - d \in 1 .. Len(list) /\ d + (i - d) = i
        BY <3>2, <1>2
      <4>2. a[d + (i - d)] = list[i - d] /\ ~list[i - d].undone
        BY <4>1, <1>4 DEF AllDone
      <4> QED  BY <4>1, <4>2
    <3> QED  BY <3>1, <3>2
  <2> QED  BY <2>1 DEF AllDone
<1> QED  BY <1>1, <1>2, <1>3, <1>4, <1>5 DEF t

(* Entries recorded one by one are as if recorded at once (flush_journal).  *)
LEMMA FlushedAtOnce ==
  ASSUME NEW s \in Seq(Entries), NEW d \in 0 .. Len(s), Upto(s, d),
         NEW list \in Seq(Entries), AllDone(list), list # <<>>
  PROVE  Flushed(s, list) = Newest(NotUndone(s) \o list)
<1> DEFINE L == Len(list)
           A(n) == NotUndone(s) \o SubSeq(list, 1, n)
           g == [n \in 0 .. L |-> IF n = 0 THEN s ELSE Newest(A(n))]
<1>1. L \in Nat /\ L > 0
  OBVIOUS
<1>2. ASSUME NEW n \in 1 .. L
      PROVE  /\ SubSeq(list, 1, n) \in Seq(Entries) /\ AllDone(SubSeq(list, 1, n))
             /\ list[n] \in Entries
  BY DEF AllDone
<1>3. NotUndone(s) \in Seq(Entries)
  BY Joined
<1>4. ASSUME NEW n \in 1 .. L PROVE A(n) \in Seq(Entries) /\ AllDone(A(n))
  BY <1>2, Joined
<1>5. ASSUME NEW n \in 1 .. L, n > 1 PROVE A(n) = Append(A(n - 1), list[n])
  <2> DEFINE x == SubSeq(list, 1, n - 1)
             y == SubSeq(list, 1, n)
             t == NotUndone(s)
  <2>1. x \in Seq(Entries) /\ y = Append(x, list[n]) /\ list[n] \in Entries
    <3>1. y \in Seq(Entries) /\ x \in Seq(Entries) /\ Len(x) = n - 1 /\ Len(y) = n /\ list[n] \in Entries
      BY <1>2, <1>5
    <3>2. \A i \in 1 .. n : y[i] = list[i]
      BY <1>5
    <3>3. \A i \in 1 .. n - 1 : x[i] = list[i]
      BY <1>5
    <3> HIDE DEF x, y
    <3>4. /\ Append(x, list[n]) \in Seq(Entries) /\ Len(Append(x, list[n])) = n
          /\ \A i \in 1 .. n : Append(x, list[n])[i] = IF i <= n - 1 THEN x[i] ELSE list[n]
      BY <3>1
    <3>5. \A i \in 1 .. n : Append(x, list[n])[i] = y[i]
      BY <3>2, <3>3, <3>4
    <3> QED  BY <3>1, <3>4, <3>5
  <2> HIDE DEF x, y, t
  <2>2. t \in Seq(Entries)
    BY <1>3 DEF t
  <2>3. t \o Append(x, list[n]) = Append(t \o x, list[n])
    BY <2>1, <2>2
  <2> QED  BY <2>1, <2>3 DEF t, x, y
<1>6. A(1) = Append(NotUndone(s), list[1])
  <2>1. SubSeq(list, 1, 1) = <<list[1]>> /\ list[1] \in Entries
    <3>1. SubSeq(list, 1, 1) \in Seq(Entries) /\ Len(SubSeq(list, 1, 1)) = 1 /\ SubSeq(list, 1, 1)[1] = list[1]
      BY <1>1
    <3>2. list[1] \in Entries
      BY <1>1
    <3> DEFINE x == SubSeq(list, 1, 1)
               y == <<list[1]>>
    <3>3. y \in Seq(Entries) /\ Len(y) = 1 /\ y[1] = list[1]
      BY <3>2
    <3>4. x \in Seq(Entries) /\ Len(x) = 1 /\ x[1] = list[1]
      BY <3>1
    <3> HIDE DEF A, g, x, y
    <3>5. \A i \in 1 .. 1 : x[i] = y[i]
      BY <3>3, <3>4
    <3>6. x = y
      BY <3>3, <3>4, <3>5
    <3> QED  BY <3>2, <3>6 DEF x, y
  <2> QED  BY <2>1, <1>3
<1>7. \A n \in 1 .. L : g[n] = Newest(A(n))
  BY <1>1
<1>8. g[0] = s
  BY <1>1
<1>9. ASSUME NEW n \in 1 .. L PROVE g[n] = Recorded(g[n - 1], list[n])
  <2>1. CASE n = 1
    <3>1. n - 1 = 0
      BY <2>1
    <3>2. Recorded(s, list[1]) = Newest(Append(NotUndone(s), list[1]))
      BY DEF Recorded
    <3> HIDE DEF g, A
    <3> QED  BY <2>1, <3>1, <3>2, <1>6, <1>7, <1>8
  <2>2. CASE n # 1
    <3>1. n - 1 \in 1 .. L /\ n > 1
      BY <2>2
    <3>2. g[n - 1] = Newest(A(n - 1)) /\ g[n] = Newest(A(n))
      BY <3>1, <1>7
    <3>3. A(n - 1) \in Seq(Entries) /\ AllDone(A(n - 1)) /\ list[n] \in Entries
      BY <3>1, <1>4, <1>2
    <3>4. A(n) = Append(A(n - 1), list[n])
      BY <3>1, <1>5
    <3> HIDE DEF A, g
    <3>5. Newest(A(n - 1)) \in Seq(Entries) /\ AllDone(Newest(A(n - 1)))
      BY <3>3, NewestDone, NewestIs
    <3>6. NotUndone(Newest(A(n - 1))) = Newest(A(n - 1))
      BY <3>5, AllKept
    <3>7. Recorded(g[n - 1], list[n]) = Newest(Append(Newest(A(n - 1)), list[n]))
      BY <3>2, <3>6 DEF Recorded
    <3> QED  BY <3>2, <3>3, <3>4, <3>7, NewestTwice
  <2> QED  BY <2>1, <2>2
<1> DEFINE Rec(f) == f = [n \in 0 .. L |-> IF n = 0 THEN s ELSE Recorded(f[n - 1], list[n])]
<1>10. Rec(g)
  <2> DEFINE h == [n \in 0 .. L |-> IF n = 0 THEN s ELSE Recorded(g[n - 1], list[n])]
  <2>1. \A n \in 0 .. L : g[n] = h[n]
    <3> HIDE DEF g
    <3> QED  BY <1>8, <1>9, <1>1
  <2>2. g = [n \in 0 .. L |-> g[n]]
    OBVIOUS
  <2> HIDE DEF g
  <2> QED  BY <2>1, <2>2
<1>11. ASSUME NEW f, Rec(f) PROVE f[L] = g[L]
  <2> DEFINE T == {n \in 0 .. L : f[n] # g[n]}
  <2>0. \A n \in 0 .. L : f[n] # g[n] => n \in T
    OBVIOUS
  <2>1. CASE T = {}
    <3> HIDE DEF T, g
    <3> QED  BY <2>0, <2>1, <1>1
  <2>2. CASE T # {}
    <3>1. PICK n \in T : \A m \in T : n <= m
      <4>1. T \in SUBSET Nat
        OBVIOUS
      <4> HIDE DEF T
      <4> QED  BY <4>1, <2>2, Least
    <3>2. n \in 0 .. L /\ f[n] # g[n]
      BY <3>1
    <3>3. f[0] = s /\ \A k \in 1 .. L : f[k] = Recorded(f[k - 1], list[k])
      <4>1. f = [n_1 \in 0 .. L |-> IF n_1 = 0 THEN s ELSE Recorded(f[n_1 - 1], list[n_1])]
        BY <1>11
      <4>2. 0 \in 0 .. L /\ \A k \in 1 .. L : k \in 0 .. L /\ k # 0
        BY <1>1
      <4> QED  BY <4>1, <4>2
    <3> HIDE DEF g
    <3>4. n # 0
      BY <3>2, <3>3, <1>8
    <3>5. n - 1 \in 0 .. L /\ n \in 1 .. L /\ ~(n <= n - 1)
      BY <3>2, <3>4
    <3>6. f[n - 1] = g[n - 1]
      BY <3>1, <3>5
    <3> QED  BY <3>2, <3>3, <3>5, <3>6, <1>9
  <2> QED  BY <2>1, <2>2
<1>12. Flushed(s, list) = (CHOOSE f : Rec(f))[L]
  BY DEF Flushed
<1>13. Flushed(s, list) = g[L]
  <2> HIDE DEF Rec, g
  <2> QED  BY <1>10, <1>11, <1>12
<1>14. SubSeq(list, 1, L) = list
  OBVIOUS
<1>15. g[L] = Newest(A(L))
  BY <1>1, <1>7
<1> QED  BY <1>13, <1>14, <1>15

(* The cap forgets only the beginning of the walk.                          *)
LEMMA NewestTells ==
  ASSUME NEW a \in Seq(Entries), AllDone(a), NEW w \in [0 .. Len(a) -> Nat], Walk(a, w)
  PROVE  Tells(Newest(a), w[Len(a)])
<1>1. PICK k \in 0 .. Len(a) :
        /\ Newest(a) \in Seq(Entries) /\ Len(Newest(a)) = Len(a) - k
        /\ \A i \in 1 .. Len(a) - k : Newest(a)[i] = a[i + k]
  BY NewestIs
<1> DEFINE m == Len(a) - k
           b == Newest(a)
           v == [i \in 0 .. m |-> w[i + k]]
<1>2. m \in Nat /\ k \in Nat /\ Len(a) = m + k /\ Len(b) = m
  BY <1>1
<1>3. AllDone(b)
  BY NewestDone
<1>4. \A i \in 0 .. m : i + k \in 0 .. Len(a)
  BY <1>2
<1>5. v \in [0 .. Len(b) -> Nat]
  <2> HIDE DEF m, b
  <2> QED  BY <1>2, <1>4
<1>6. \A i \in 0 .. m : v[i] = w[i + k]
  OBVIOUS
<1>7. Upto(b, m)
  <2> HIDE DEF m, b
  <2> QED  BY <1>2, <1>3 DEF Upto, AllDone
<1>8. Walk(b, v)
  <2>1. ASSUME NEW i \in 1 .. m
        PROVE IF b[i].moves THEN v[i - 1] = b[i].before /\ v[i] = b[i].after ELSE v[i] = v[i - 1]
    <3>1. b[i] = a[i + k] /\ i + k \in 1 .. Len(a) /\ i - 1 \in 0 .. m /\ (i + k) - 1 = (i - 1) + k
      BY <1>1, <1>2
    <3>2. v[i] = w[i + k] /\ v[i - 1] = w[(i + k) - 1]
      BY <3>1, <1>6
    <3> HIDE DEF v, b
    <3> QED  BY <3>1, <3>2 DEF Walk
  <2> HIDE DEF m, b, v
  <2> QED  BY <2>1, <1>2 DEF Walk
<1>9. v[m] = w[Len(a)] /\ m \in 0 .. Len(b)
  BY <1>2, <1>6
<1> HIDE DEF v, b, m
<1> QED  BY <1>2, <1>5, <1>7, <1>8, <1>9 DEF Tells, b

(* What is recorded where the journal is leads on from there.               *)
LEMMA Extended ==
  ASSUME NEW s \in Seq(Entries), NEW h, Tells(s, h), NEW list \in Seq(Entries), AllDone(list),
         NEW q \in [0 .. Len(list) -> Nat], Walk(list, q), q[0] = h
  PROVE  Tells(Newest(NotUndone(s) \o list), q[Len(list)])
<1>1. PICK d \in 0 .. Len(s), p \in [0 .. Len(s) -> Nat] : Upto(s, d) /\ Walk(s, p) /\ p[d] = h
  BY DEF Tells
<1> DEFINE a == NotUndone(s) \o list
           n == Len(list)
           w == [i \in 0 .. d + n |-> IF i <= d THEN p[i] ELSE q[i - d]]
<1>2. /\ a \in Seq(Entries) /\ Len(a) = d + n
      /\ \A i \in 1 .. d : a[i] = s[i]
      /\ \A i \in 1 .. n : a[d + i] = list[i]
      /\ AllDone(a)
  BY <1>1, Joined
<1> HIDE DEF a
<1>3. d \in Nat /\ n \in Nat /\ n = Len(list)
  BY <1>1
<1>4. \A i \in 0 .. d : w[i] = p[i]
  BY <1>3
<1>5. ASSUME NEW i \in 0 .. n PROVE w[d + i] = q[i]
  <2>1. d + i \in 0 .. d + n /\ (d + i) - d = i
    BY <1>3
  <2>2. CASE i = 0
    BY <2>1, <2>2, <1>1, <1>3
  <2>3. CASE i # 0
    <3>1. ~(d + i <= d)
      BY <2>3, <1>3
    <3> QED  BY <2>1, <3>1
  <2> QED  BY <2>2, <2>3
<1>6. w \in [0 .. Len(a) -> Nat]
  <2>1. ASSUME NEW i \in 0 .. d + n PROVE (IF i <= d THEN p[i] ELSE q[i - d]) \in Nat
    <3>1. CASE i <= d
      <4>1. i \in 0 .. Len(s)
        BY <3>1, <1>1
      <4> QED  BY <3>1, <4>1
    <3>2. CASE ~(i <= d)
      <4>1. i - d \in 0 .. Len(list)
        BY <3>2, <1>3
      <4> QED  BY <3>2, <4>1
    <3> QED  BY <3>1, <3>2
  <2> HIDE DEF n
  <2> QED  BY <2>1, <1>2
<1> HIDE DEF w, n
<1>7. Walk(a, w)
  <2>1. ASSUME NEW i \in 1 .. d + n
        PROVE IF a[i].moves THEN w[i - 1] = a[i].before /\ w[i] = a[i].after ELSE w[i] = w[i - 1]
    <3>1. CASE i <= d
      <4>1. a[i] = s[i] /\ w[i] = p[i] /\ w[i - 1] = p[i - 1] /\ i \in 1 .. Len(s)
        BY <3>1, <1>1, <1>2, <1>3, <1>4
      <4> QED  BY <4>1, <1>1 DEF Walk
    <3>2. CASE ~(i <= d)
      <4> DEFINE j == i - d
      <4>1. j \in 1 .. n /\ i = d + j /\ i - 1 = d + (j - 1) /\ j - 1 \in 0 .. n /\ j \in 0 .. n
        BY <3>2, <1>3
      <4> HIDE DEF j
      <4>2. a[i] = list[j] /\ w[i] = q[j] /\ w[i - 1] = q[j - 1]
        BY <4>1, <1>2, <1>5
      <4> QED  BY <4>1, <4>2, <1>3 DEF Walk
    <3> QED  BY <3>1, <3>2
  <2> QED  BY <2>1, <1>2 DEF Walk
<1>8. w[Len(a)] = q[n]
  BY <1>2, <1>3, <1>5
<1>9. Tells(Newest(a), w[Len(a)])
  BY <1>2, <1>6, <1>7, NewestTells
<1> QED  BY <1>8, <1>9 DEF a, n

(* An entry that begins where the journal is leads to where it ends         *)
(* (Journal::record).                                                       *)
LEMMA RecordTells ==
  ASSUME NEW s \in Seq(Entries), NEW h \in Nat, Tells(s, h), NEW e \in Entries, ~e.undone,
         e.moves => e.before = h
  PROVE  Tells(Recorded(s, e), IF e.moves THEN e.after ELSE h)
<1> DEFINE list == <<e>>
           q == [i \in 0 .. 1 |-> IF i = 1 /\ e.moves THEN e.after ELSE h]
<1>1. list \in Seq(Entries) /\ Len(list) = 1 /\ list[1] = e
  OBVIOUS
<1>2. q \in [0 .. 1 -> Nat] /\ q[0] = h /\ q[1] = IF e.moves THEN e.after ELSE h
  BY EntryFields
<1> HIDE DEF list, q
<1>3. AllDone(list)
  BY <1>1 DEF AllDone
<1>4. Walk(list, q)
  <2>1. \A i \in 1 .. 1 : i = 1 /\ i - 1 = 0
    OBVIOUS
  <2> QED  BY <2>1, <1>1, <1>2 DEF Walk
<1>5. Tells(Newest(NotUndone(s) \o list), q[1])
  BY <1>1, <1>2, <1>3, <1>4, Extended
<1>6. NotUndone(s) \in Seq(Entries)
  BY <1>1, <1>3, Joined DEF Tells
<1>7. Recorded(s, e) = Newest(NotUndone(s) \o list)
  <2> DEFINE t == NotUndone(s)
  <2> HIDE DEF t
  <2>1. t \in Seq(Entries) => Append(t, e) = t \o <<e>>
    OBVIOUS
  <2> QED  BY <1>6, <2>1 DEF Recorded, list, t
<1> QED  BY <1>2, <1>5, <1>7

(* Entries that moved nothing leave the journal where it is                 *)
(* (flush_journal).                                                         *)
LEMMA FlushTells ==
  ASSUME NEW s \in Seq(Entries), NEW h \in Nat, Tells(s, h), NEW list \in Seq(Entries), list # <<>>,
         \A i \in 1 .. Len(list) : ~list[i].undone /\ ~list[i].moves
  PROVE  Tells(Flushed(s, list), h)
<1> DEFINE q == [i \in 0 .. Len(list) |-> h]
<1>1. q \in [0 .. Len(list) -> Nat] /\ q[0] = h /\ q[Len(list)] = h
  OBVIOUS
<1>2. Walk(list, q) /\ AllDone(list)
  BY DEF Walk, AllDone
<1> HIDE DEF q
<1>3. Tells(Newest(NotUndone(s) \o list), h)
  BY <1>1, <1>2, Extended
<1>4. Flushed(s, list) = Newest(NotUndone(s) \o list)
  BY <1>2, FlushedAtOnce DEF Tells
<1> QED  BY <1>3, <1>4

(* The entry undo takes is the last of those not undone, redo's the next.   *)
LEMMA PeekIs ==
  ASSUME NEW s \in Seq(Entries), NEW d \in 0 .. Len(s), Upto(s, d), NEW is_undo \in BOOLEAN,
         NEW i \in Peek(is_undo, s)
  PROVE  /\ i \in 1 .. Len(s)
         /\ i = IF is_undo THEN d ELSE d + 1
<1>1. CASE is_undo
  <2>1. i \in PeekUndo(s) /\ UndoIndices(s) = 1 .. d
    BY <1>1, NotUndoneIs DEF Peek
  <2>2. i \in 1 .. d /\ \A k \in 1 .. d : k <= i
    BY <2>1 DEF PeekUndo
  <2>3. d \in 1 .. d
    BY <2>2
  <2> QED  BY <1>1, <2>2, <2>3
<1>2. CASE ~is_undo
  <2>1. i \in 1 .. Len(s) /\ s[i].undone /\ (i > 1 => ~s[i - 1].undone)
    BY <1>2 DEF Peek, PeekRedo, IsDone
  <2>2. i > d
    BY <2>1 DEF Upto
  <2>3. i - 1 <= d
    BY <2>1 DEF Upto
  <2> QED  BY <1>2, <2>1, <2>2, <2>3
<1> QED  BY <1>1, <1>2

(* Marking that entry moves where the journal is over it, and no further.   *)
LEMMA Marked ==
  ASSUME NEW s \in Seq(Entries), NEW d \in 0 .. Len(s), Upto(s, d), NEW is_undo \in BOOLEAN,
         NEW i \in Peek(is_undo, s)
  PROVE  LET t == [s EXCEPT ![i].undone = is_undo]
         IN  /\ t \in Seq(Entries) /\ Len(t) = Len(s) /\ Ids(t) = Ids(s)
             /\ Upto(t, IF is_undo THEN d - 1 ELSE d + 1)
             /\ (IF is_undo THEN d - 1 ELSE d + 1) \in 0 .. Len(t)
             /\ \A k \in 1 .. Len(s) : t[k].moves = s[k].moves /\ t[k].before = s[k].before
                                       /\ t[k].after = s[k].after
<1> DEFINE t == [s EXCEPT ![i].undone = is_undo]
           c == IF is_undo THEN d - 1 ELSE d + 1
<1>1. i \in 1 .. Len(s) /\ i = IF is_undo THEN d ELSE d + 1
  BY PeekIs
<1>2. /\ DOMAIN s = 1 .. Len(s) /\ Len(s) \in Nat /\ DOMAIN t = 1 .. Len(s)
      /\ \A k \in 1 .. Len(s) : s[k] \in Entries
  OBVIOUS
<1>3. ASSUME NEW k \in 1 .. Len(s)
      PROVE  /\ t[k] \in Entries /\ t[k].id = s[k].id /\ t[k].moves = s[k].moves
             /\ t[k].before = s[k].before /\ t[k].after = s[k].after
             /\ t[k].undone = IF k = i THEN is_undo ELSE s[k].undone
  <2>1. s[k] \in Entries
    BY <1>2
  <2>2. t[k] = IF k = i THEN [s[k] EXCEPT !.undone = is_undo] ELSE s[k]
    BY <1>1, <1>2
  <2>3. ASSUME NEW e \in Entries
        PROVE  LET x == [e EXCEPT !.undone = is_undo]
               IN  /\ x \in Entries /\ x.id = e.id /\ x.moves = e.moves
                   /\ x.before = e.before /\ x.after = e.after /\ x.undone = is_undo
    BY DEF Entries
  <2> HIDE DEF t
  <2> QED  BY <2>1, <2>2, <2>3
<1>4. t \in Seq(Entries) /\ Len(t) = Len(s)
  <2> DEFINE f == [k \in 1 .. Len(s) |-> t[k]]
  <2>1. t = f
    BY <1>2
  <2>2. f \in Seq(Entries) /\ Len(f) = Len(s)
    <3> HIDE DEF t
    <3> QED  BY <1>2, <1>3
  <2> HIDE DEF t, f
  <2> QED  BY <2>1, <2>2
<1> HIDE DEF t
<1>5. Ids(t) = Ids(s)
  <2>1. Ids(t) = {t[k].id : k \in 1 .. Len(s)} /\ Ids(s) = {s[k].id : k \in 1 .. Len(s)}
    BY <1>2, <1>4 DEF Ids, Range
  <2>2. {t[k].id : k \in 1 .. Len(s)} = {s[k].id : k \in 1 .. Len(s)}
    BY <1>3
  <2> QED  BY <2>1, <2>2
<1>6. c \in 0 .. Len(t)
  BY <1>1, <1>4, <1>2
<1>7. Upto(t, c)
  <2>1. ASSUME NEW k \in 1 .. Len(s) PROVE t[k].undone <=> k > c
    <3>1. CASE k = i
      BY <3>1, <1>1, <1>3
    <3>2. CASE k # i
      <4>1. t[k].undone = s[k].undone /\ (s[k].undone <=> k > d)
        BY <3>2, <1>3 DEF Upto
      <4>2. k > d <=> k > c
        BY <3>2, <1>1
      <4> QED  BY <4>1, <4>2
    <3> QED  BY <3>1, <3>2
  <2> HIDE DEF c
  <2> QED  BY <2>1, <1>4 DEF Upto
<1> QED  BY <1>3, <1>4, <1>5, <1>6, <1>7 DEF t

(* Undone or redone, the entry's other end is where the journal is          *)
(* (Journal::settle).                                                       *)
LEMMA MarkTells ==
  ASSUME NEW s \in Seq(Entries), NEW h \in Nat, NEW g \in Nat, Tells(s, h), NEW is_undo \in BOOLEAN,
         NEW i \in Peek(is_undo, s),
         s[i].moves => g = IF is_undo THEN s[i].before ELSE s[i].after,
         ~s[i].moves => g = h
  PROVE  Tells([s EXCEPT ![i].undone = is_undo], g)
<1>1. PICK d \in 0 .. Len(s), p \in [0 .. Len(s) -> Nat] : Upto(s, d) /\ Walk(s, p) /\ p[d] = h
  BY DEF Tells
<1> DEFINE t == [s EXCEPT ![i].undone = is_undo]
           c == IF is_undo THEN d - 1 ELSE d + 1
<1>2. /\ t \in Seq(Entries) /\ Len(t) = Len(s) /\ Upto(t, c) /\ c \in 0 .. Len(t)
      /\ \A k \in 1 .. Len(s) : t[k].moves = s[k].moves /\ t[k].before = s[k].before
                                /\ t[k].after = s[k].after
  BY <1>1, Marked
<1> HIDE DEF t
<1>3. i \in 1 .. Len(s) /\ i = IF is_undo THEN d ELSE d + 1
  BY <1>1, PeekIs
<1>4. Walk(t, p)
  BY <1>1, <1>2 DEF Walk
<1>5. p[c] = g
  <2>1. IF s[i].moves THEN p[i - 1] = s[i].before /\ p[i] = s[i].after ELSE p[i] = p[i - 1]
    BY <1>1, <1>3 DEF Walk
  <2>2. CASE is_undo
    BY <2>1, <2>2, <1>1, <1>3
  <2>3. CASE ~is_undo
    <3>1. i - 1 = d /\ c = i
      BY <2>3, <1>3, <1>1
    <3> QED  BY <2>1, <2>3, <3>1, <1>1
  <2> QED  BY <2>2, <2>3
<1> HIDE DEF c
<1> QED  BY <1>1, <1>2, <1>4, <1>5 DEF Tells, t

(* Where the journal is, its entries say.                                   *)
LEMMA TellsWhere ==
  ASSUME NEW s \in Seq(Entries), NEW h, Tells(s, h)
  PROVE  /\ \A i, k \in 1 .. Len(s) : i < k /\ s[i].undone => s[k].undone
         /\ \A i \in 1 .. Len(s) :
              /\ s[i].moves /\ ~s[i].undone
              /\ \A k \in 1 .. Len(s) : s[k].moves /\ ~s[k].undone => k <= i
              => h = s[i].after
         /\ \A i \in 1 .. Len(s) :
              /\ s[i].moves /\ s[i].undone
              /\ \A k \in 1 .. Len(s) : s[k].moves /\ s[k].undone => i <= k
              => h = s[i].before
<1>1. PICK d \in 0 .. Len(s), p \in [0 .. Len(s) -> Nat] : Upto(s, d) /\ Walk(s, p) /\ p[d] = h
  BY DEF Tells
<1>2. ASSUME NEW i \in 1 .. Len(s), NEW k \in 1 .. Len(s), i < k, s[i].undone PROVE s[k].undone
  BY <1>1, <1>2 DEF Upto
<1>3. ASSUME NEW a \in 0 .. Len(s), NEW b \in a .. Len(s), \A k \in a + 1 .. b : ~s[k].moves
      PROVE  p[b] = p[a]
  <2> DEFINE T == {n \in a .. b : p[n] # p[a]}
  <2>1. CASE T = {}
    <3>1. b \in a .. b
      BY <1>3
    <3> QED  BY <2>1, <3>1
  <2>2. CASE T # {}
    <3>1. PICK n \in T : \A m \in T : n <= m
      <4>1. T \in SUBSET Nat
        BY <1>3
      <4> HIDE DEF T
      <4> QED  BY <4>1, <2>2, Least
    <3>2. n \in a .. b /\ p[n] # p[a] /\ \A m \in a .. b : p[m] # p[a] => n <= m
      BY <3>1
    <3>3. n \in a + 1 .. b /\ n - 1 \in a .. b /\ n \in 1 .. Len(s) /\ ~(n <= n - 1)
      BY <3>2, <1>3
    <3>4. p[n] = p[n - 1]
      BY <3>3, <1>1, <1>3 DEF Walk
    <3> QED  BY <3>2, <3>3, <3>4
  <2> QED  BY <2>1, <2>2
<1>4. ASSUME NEW i \in 1 .. Len(s), s[i].moves, ~s[i].undone,
             \A k \in 1 .. Len(s) : s[k].moves /\ ~s[k].undone => k <= i
      PROVE  h = s[i].after
  <2>1. i <= d /\ i \in 0 .. Len(s) /\ d \in i .. Len(s)
    BY <1>1, <1>4 DEF Upto
  <2>2. \A k \in i + 1 .. d : ~s[k].moves
    BY <1>1, <1>4, <2>1 DEF Upto
  <2>3. p[d] = p[i]
    BY <2>1, <2>2, <1>3
  <2> QED  BY <2>3, <1>1, <1>4 DEF Walk
<1>5. ASSUME NEW i \in 1 .. Len(s), s[i].moves, s[i].undone,
             \A k \in 1 .. Len(s) : s[k].moves /\ s[k].undone => i <= k
      PROVE  h = s[i].before
  <2>1. i > d /\ i - 1 \in d .. Len(s)
    BY <1>1, <1>5 DEF Upto
  <2>2. \A k \in d + 1 .. i - 1 : ~s[k].moves
    BY <1>1, <1>5, <2>1 DEF Upto
  <2>3. p[i - 1] = p[d]
    BY <2>1, <2>2, <1>3
  <2> QED  BY <2>3, <1>1, <1>5 DEF Walk
<1> QED  BY <1>2, <1>4, <1>5

-----------------------------------------------------------------------------
(* What a job, and an undo's worker, may be.                                *)
Jobs ==
  [kind : {"op", "sync", "commit", "stash", "upstream", "finish"}, id : Nat,
   at : {"read", "run", "reread", "done"}, before : Nat, after : Nat,
   outcome : {"none", "moved", "left", "stopped", "nothing"}]
Undoing ==
  [at : {"read", "run", "settle", "done"}, is_undo : BOOLEAN, entries : Seq(Entries), now : Nat,
   ran : BOOLEAN, failed : BOOLEAN, crossed : BOOLEAN]

JournalTypes ==
  /\ head \in Nat /\ made \in Nat
  /\ stopped \in BOOLEAN /\ strayed \in BOOLEAN /\ finishing \in BOOLEAN
  /\ journal \in Seq(Entries) /\ saved \in Seq(Entries) /\ waiting \in Seq(Entries)
  /\ jobs \subseteq Jobs /\ pending \subseteq Jobs /\ started \in Nat
  /\ undo_busy => undo \in Undoing

(* The journal, wherever it is.                                             *)
Held == IF undo_busy THEN undo.entries ELSE journal

(* One job at a time; while an operation is stopped, only the one that      *)
(* settles it.                                                              *)
JobsInv ==
  /\ \A j, k \in jobs : j = k
  /\ \A p, q \in pending : p = q
  /\ \A j \in jobs :
       /\ j.kind = "finish" => finishing /\ pending # {} /\ j.at \in {"read", "done"}
       /\ j.kind # "finish" => pending = {}
       /\ j.kind = "upstream" => j.outcome \notin {"moved", "stopped"}
       /\ j.at \in {"read", "run"} => j.outcome = "none"
       /\ j.at = "reread" => j.outcome \in {"moved", "left"}
       /\ j.at = "done" => j.outcome # "none"
       /\ j.kind = "finish" => j.outcome # "left"

(* An undo has the journal, and only an upstream is set meanwhile, whose    *)
(* entry waits.                                                             *)
UndoInv ==
  /\ undo_busy =>
       /\ journal = <<>> /\ pending = {} /\ Ids(undo.entries) = Ids(saved)
       /\ \A j \in jobs : j.kind = "upstream"
       /\ undo.at # "done" => Peek(undo.is_undo, undo.entries) # {}
  /\ ~undo_busy => saved = journal
  /\ \A i \in 1 .. Len(waiting) : ~waiting[i].undone /\ ~waiting[i].moves
  /\ given \subseteq Ids(saved) \cup Ids(waiting)
  /\ \E d \in 0 .. Len(Held) : Upto(Held, d)

(* Between two jobs the journal tells where HEAD is; during one, where it   *)
(* was.                                                                     *)
RestInv ==
  (\A j \in jobs : j.outcome # "moved") /\ pending = {} /\ undo.at # "settle" => Tells(Held, head)

(* Where a job found HEAD the journal is until its entry is recorded.       *)
JobInv ==
  \A j \in jobs :
    /\ j.at = "run" /\ j.kind # "upstream" => j.before = head
    /\ j.kind # "finish" /\ j.outcome = "moved" =>
         Tells(Held, j.before) /\ (j.at = "done" => j.after = head)
    /\ j.kind = "op" /\ j.outcome = "stopped" => j.before = head
    /\ j.kind = "finish" /\ j.outcome = "moved" => ~stopped /\ j.after = head
    /\ j.kind = "finish" /\ j.outcome = "nothing" => ~stopped /\ j.before = head

(* A stopped operation began where the journal still is.                    *)
PendingInv ==
  \A p \in pending : Tells(Held, p.before) /\ \A j \in jobs : j.before = p.before

(* An undo runs from where its entry is; it gets where the entry leads, or  *)
(* stays.                                                                   *)
WorkerInv ==
  undo_busy =>
    /\ ~stopped
    /\ undo.at = "run" => undo.now = head /\ Permitted(undo, head)
    /\ undo.at = "settle" =>
         /\ Tells(Held, undo.now) /\ undo.now = From(undo)
         /\ \/ UndoEntry(undo).moves /\ head = To(undo)
            \/ head = undo.now /\ (UndoEntry(undo).moves => undo.failed)

HeadInv == RestInv /\ JobInv /\ PendingInv /\ WorkerInv

JournalInv == JournalTypes /\ JobsInv /\ UndoInv /\ (~strayed => HeadInv)

LEMMA JobFields ==
  ASSUME NEW j \in Jobs
  PROVE  /\ j.kind \in {"op", "sync", "commit", "stash", "upstream", "finish"} /\ j.id \in Nat
         /\ j.at \in {"read", "run", "reread", "done"} /\ j.before \in Nat /\ j.after \in Nat
         /\ j.outcome \in {"none", "moved", "left", "stopped", "nothing"}
  BY DEF Jobs

LEMMA UndoFields ==
  ASSUME NEW u \in Undoing
  PROVE  /\ u.at \in {"read", "run", "settle", "done"} /\ u.is_undo \in BOOLEAN
         /\ u.entries \in Seq(Entries) /\ u.now \in Nat /\ u.ran \in BOOLEAN /\ u.failed \in BOOLEAN
         /\ u.crossed \in BOOLEAN
         /\ u # NoUndo
<1>1. u.at # "none"
  BY DEF Undoing
<1>2. NoUndo.at = "none"
  BY DEF NoUndo
<1> QED  BY <1>1, <1>2 DEF Undoing

(* The entry of a job's reply.                                              *)
LEMMA EntryIs ==
  ASSUME NEW j \in Jobs, HasEntry(j)
  PROVE  LET e == EntryOf(j)
         IN  /\ e \in Entries /\ e.id = j.id /\ e.before = j.before /\ e.after = j.after
             /\ (e.moves <=> j.outcome = "moved") /\ ~e.undone
<1> DEFINE m == j.outcome = "moved"
           v == j.kind = "sync" => j.outcome = "moved"
<1>1. m \in BOOLEAN /\ v \in BOOLEAN
  OBVIOUS
<1>2. EntryOf(j) = [id |-> j.id, before |-> j.before, after |-> j.after, moves |-> m,
                    inverse |-> v, undone |-> FALSE]
  BY DEF EntryOf, Entry
<1>3. j.id \in Nat /\ j.before \in Nat /\ j.after \in Nat
  BY JobFields
<1> HIDE DEF m, v
<1>4. /\ EntryOf(j) \in Entries /\ EntryOf(j).id = j.id /\ EntryOf(j).before = j.before
      /\ EntryOf(j).after = j.after /\ EntryOf(j).moves = m /\ EntryOf(j).undone = FALSE
  BY <1>1, <1>2, <1>3 DEF Entries
<1> QED  BY <1>4 DEF m

(* A list recorded: what the journal is then.                               *)
LEMMA Recording ==
  ASSUME NEW s \in Seq(Entries), NEW d \in 0 .. Len(s), Upto(s, d),
         NEW list \in Seq(Entries), list # <<>>, AllDone(list)
  PROVE  /\ Flushed(s, list) = Newest(NotUndone(s) \o list)
         /\ Flushed(s, list) \in Seq(Entries) /\ AllDone(Flushed(s, list))
<1>1. Flushed(s, list) = Newest(NotUndone(s) \o list)
  BY FlushedAtOnce
<1>2. NotUndone(s) \o list \in Seq(Entries) /\ AllDone(NotUndone(s) \o list)
  BY Joined
<1> QED  BY <1>1, <1>2, NewestDone, NewestIs

(* One entry recorded is a list of one recorded.                            *)
LEMMA RecordedAlone ==
  ASSUME NEW s \in Seq(Entries), NEW d \in 0 .. Len(s), Upto(s, d), NEW e \in Entries, ~e.undone
  PROVE  /\ <<e>> \in Seq(Entries) /\ AllDone(<<e>>) /\ <<e>> # <<>>
         /\ Recorded(s, e) = Newest(NotUndone(s) \o <<e>>)
         /\ Recorded(s, e) = Flushed(s, <<e>>)
<1>1. <<e>> \in Seq(Entries) /\ AllDone(<<e>>) /\ <<e>> # <<>>
  <2>1. <<e>> \in Seq(Entries) /\ Len(<<e>>) = 1 /\ <<e>>[1] = e
    OBVIOUS
  <2>2. \A i \in 1 .. 1 : i = 1
    OBVIOUS
  <2> QED  BY <2>1, <2>2 DEF AllDone
<1>2. NotUndone(s) \in Seq(Entries)
  BY <1>1, Joined
<1>3. Recorded(s, e) = Newest(NotUndone(s) \o <<e>>)
  <2> DEFINE t == NotUndone(s)
  <2> HIDE DEF t
  <2>1. t \in Seq(Entries) => Append(t, e) = t \o <<e>>
    OBVIOUS
  <2> QED  BY <1>2, <2>1 DEF Recorded, t
<1> QED  BY <1>1, <1>3, FlushedAtOnce

(* The ids of a list that grows by an entry.                                *)
LEMMA IdsOf ==
  ASSUME NEW s \in Seq(Entries), NEW e \in Entries
  PROVE  /\ Ids(Append(s, e)) = Ids(s) \cup {e.id}
         /\ Ids(<<e>>) = {e.id}
         /\ Ids(<<>>) = {}
<1>1. ASSUME NEW x \in Seq(Entries) PROVE Ids(x) = {x[i].id : i \in 1 .. Len(x)}
  BY DEF Ids, Range
<1>2. Ids(Append(s, e)) = Ids(s) \cup {e.id}
  <2> DEFINE x == Append(s, e)
             n == Len(s)
  <2>1. x \in Seq(Entries) /\ Len(x) = n + 1 /\ x[n + 1] = e /\ (\A i \in 1 .. n : x[i] = s[i]) /\ n \in Nat
    OBVIOUS
  <2>2. Ids(x) = {x[i].id : i \in 1 .. n + 1} /\ Ids(s) = {s[i].id : i \in 1 .. n}
    BY <2>1, <1>1
  <2> HIDE DEF x, n
  <2>3. {x[i].id : i \in 1 .. n + 1} = {s[i].id : i \in 1 .. n} \cup {e.id}
    <3>1. ASSUME NEW i \in 1 .. n + 1 PROVE x[i].id \in {s[k].id : k \in 1 .. n} \cup {e.id}
      <4>1. CASE i = n + 1
        BY <4>1, <2>1
      <4>2. CASE i # n + 1
        <5>1. i \in 1 .. n
          BY <4>2, <2>1
        <5> QED  BY <5>1, <2>1
      <4> QED  BY <4>1, <4>2
    <3>2. ASSUME NEW i \in 1 .. n PROVE s[i].id \in {x[k].id : k \in 1 .. n + 1}
      <4>1. i \in 1 .. n + 1 /\ x[i] = s[i]
        BY <2>1
      <4> QED  BY <4>1
    <3>3. e.id \in {x[k].id : k \in 1 .. n + 1}
      <4>1. n + 1 \in 1 .. n + 1
        BY <2>1
      <4> QED  BY <4>1, <2>1
    <3> QED  BY <3>1, <3>2, <3>3
  <2> QED  BY <2>2, <2>3 DEF x
<1>3. Ids(<<e>>) = {e.id}
  <2>1. <<e>> \in Seq(Entries) /\ Len(<<e>>) = 1 /\ <<e>>[1] = e
    OBVIOUS
  <2>2. 1 .. 1 = {1}
    OBVIOUS
  <2> QED  BY <2>1, <2>2, <1>1
<1>4. Ids(<<>>) = {}
  BY DEF Ids, Range
<1> QED  BY <1>2, <1>3, <1>4

-----------------------------------------------------------------------------
(* A step that leaves the journal where it is, and its history.             *)
LEMMA HeldRests ==
  ASSUME journal' = journal, undo' = undo
  PROVE  /\ Held' = Held /\ (undo_busy' <=> undo_busy)
         /\ \A h : Tells(Held, h)' <=> Tells(Held, h)
         /\ (\E d \in 0 .. Len(Held) : Upto(Held, d))' <=> (\E d \in 0 .. Len(Held) : Upto(Held, d))
<1>1. Held' = Held /\ (undo_busy' <=> undo_busy)
  BY DEF Held, undo_busy
<1> QED  BY <1>1 DEF Tells, Upto, Walk

LEMMA HistoryRests ==
  ASSUME UNCHANGED <<history, undo>>
  PROVE  /\ Held' = Held /\ (undo_busy' <=> undo_busy)
         /\ \A h : Tells(Held, h)' <=> Tells(Held, h)
         /\ (\E d \in 0 .. Len(Held) : Upto(Held, d))' <=> (\E d \in 0 .. Len(Held) : Upto(Held, d))
  BY HeldRests DEF history

(* One lemma for each kind of step: a job starts.                           *)
LEMMA JournalStarts ==
  ASSUME Careful, JournalInv,
         StartOp \/ StartSync \/ StartUpstream \/ \E kind \in {"commit", "stash"} : StartOwn(kind)
  PROVE  JournalInv'
<1>1. PICK kind \in {"op", "sync", "upstream", "commit", "stash"} :
        Start(kind) /\ (kind # "upstream" => ~undo_busy)
  BY DEF StartOp, StartSync, StartUpstream, StartOwn
<1> DEFINE k == [kind |-> kind, id |-> started + 1, at |-> "read", before |-> 0, after |-> 0,
                 outcome |-> "none"]
<1>2. /\ jobs = {} /\ pending = {} /\ ~stopped /\ jobs' = jobs \cup {k} /\ started' = started + 1
      /\ UNCHANGED <<repo, history, undo, pending, finishing>>
  BY <1>1 DEF Start, Calm, Spawn
<1>3. jobs' = {k} /\ pending' = {}
  <2> HIDE DEF k
  <2> QED  BY <1>2
<1>4. k \in Jobs /\ k.kind = kind /\ k.at = "read" /\ k.outcome = "none" /\ k.before = 0
  BY DEF Jobs, JournalInv, JournalTypes
<1> HIDE DEF k
<1>5. JournalTypes'
  BY <1>2, <1>3, <1>4, HistoryRests DEF JournalInv, JournalTypes, repo, history
<1>6. JobsInv'
  BY <1>1, <1>3, <1>4 DEF JobsInv
<1>7. UndoInv'
  BY <1>1, <1>2, <1>3, <1>4, HistoryRests DEF JournalInv, UndoInv, history
<1>8. ASSUME ~strayed' PROVE HeadInv'
  <2>1. ~strayed /\ HeadInv /\ head' = head /\ stopped' = stopped /\ undo' = undo
    BY <1>2, <1>8 DEF JournalInv, repo
  <2>2. RestInv'
    BY <2>1, <1>2, HistoryRests DEF HeadInv, RestInv
  <2>3. JobInv' /\ PendingInv'
    BY <1>3, <1>4 DEF JobInv, PendingInv
  <2>4. WorkerInv'
    BY <2>1, <1>2, HistoryRests DEF HeadInv, WorkerInv
  <2> QED  BY <2>2, <2>3, <2>4 DEF HeadInv
<1> QED  BY <1>5, <1>6, <1>7, <1>8 DEF JournalInv

(* A job reads HEAD, runs git, and reads HEAD again.                        *)
LEMMA JournalWorks ==
  ASSUME Careful, JournalInv, NEW j \in jobs, Works(j)
  PROVE  JournalInv'
<1>1. /\ j \in Jobs /\ jobs = {j} /\ JournalTypes /\ JobsInv /\ UndoInv
      /\ head \in Nat
  BY DEF JournalInv, JournalTypes, JobsInv
<1>2. UNCHANGED <<history, started, undo, pending, finishing>>
  BY DEF Works, Reads, Runs, Rereads, Finishes
<1>3. PICK k : /\ jobs' = {k} /\ k \in Jobs /\ k.kind = j.kind
               /\ \/ /\ j.at = "read" /\ j.kind # "finish" /\ UNCHANGED repo
                     /\ k.at = "run" /\ k.before = head /\ k.outcome = j.outcome
                  \/ /\ j.at = "run" /\ Moves(j)
                     /\ k.at = "reread" /\ k.outcome = "moved" /\ k.before = j.before
                  \/ /\ j.at = "run" /\ Leaves(j)
                     /\ k.at = "reread" /\ k.outcome = "left" /\ k.before = j.before
                  \/ /\ j.at = "run" /\ Stops(j)
                     /\ k.at = "done" /\ k.outcome = "stopped" /\ k.before = j.before
                  \/ /\ j.at = "run" /\ UNCHANGED repo
                     /\ k.at = "done" /\ k.outcome = "nothing" /\ k.before = j.before
                  \/ /\ j.at = "reread" /\ UNCHANGED repo
                     /\ k.at = "done" /\ k.outcome = j.outcome /\ k.before = j.before /\ k.after = head
                  \/ /\ j.at = "read" /\ j.kind = "finish" /\ UNCHANGED repo
                     /\ k.at = "done" /\ k.before = j.before /\ k.after = head
                     /\ k.outcome = CASE stopped -> "stopped"
                                      [] ~stopped /\ head = j.before -> "nothing"
                                      [] OTHER -> "moved"
  <2>1. \A k : Becomes(j, k) => jobs' = {k}
    BY <1>1 DEF Becomes
  <2>2. CASE Reads(j)
    <3> DEFINE k == [j EXCEPT !.at = "run", !.before = head]
    <3>1. Becomes(j, k) /\ UNCHANGED repo /\ j.at = "read" /\ j.kind # "finish"
      BY <2>2 DEF Reads
    <3>2. k \in Jobs /\ k.at = "run" /\ k.before = head /\ k.kind = j.kind /\ k.outcome = j.outcome
      BY <1>1 DEF Jobs
    <3> HIDE DEF k
    <3> QED  BY <2>1, <3>1, <3>2
  <2>3. CASE Runs(j)
    <3>1. /\ j.at = "run"
          /\ \/ Moves(j) /\ Becomes(j, [j EXCEPT !.at = "reread", !.outcome = "moved"])
             \/ Leaves(j) /\ Becomes(j, [j EXCEPT !.at = "reread", !.outcome = "left"])
             \/ Stops(j) /\ Becomes(j, [j EXCEPT !.at = "done", !.outcome = "stopped"])
             \/ UNCHANGED repo /\ Becomes(j, [j EXCEPT !.at = "done", !.outcome = "nothing"])
      BY <2>3 DEF Runs
    <3>2. ASSUME NEW a \in {"reread", "done"}, NEW o \in {"moved", "left", "stopped", "nothing"},
                 Becomes(j, [j EXCEPT !.at = a, !.outcome = o])
          PROVE  \E k \in Jobs : /\ jobs' = {k} /\ k.kind = j.kind /\ k.at = a /\ k.outcome = o
                                 /\ k.before = j.before
      <4> DEFINE k == [j EXCEPT !.at = a, !.outcome = o]
      <4>1. k \in Jobs /\ k.at = a /\ k.outcome = o /\ k.kind = j.kind /\ k.before = j.before
        BY <1>1 DEF Jobs
      <4>2. Becomes(j, k)
        BY <3>2
      <4> HIDE DEF k
      <4> QED  BY <2>1, <4>1, <4>2
    <3>3. CASE Moves(j) /\ Becomes(j, [j EXCEPT !.at = "reread", !.outcome = "moved"])
      <4>1. PICK k \in Jobs : /\ jobs' = {k} /\ k.kind = j.kind /\ k.at = "reread"
                              /\ k.outcome = "moved" /\ k.before = j.before
        BY <3>2, <3>3
      <4> QED  BY <3>1, <3>3, <4>1
    <3>4. CASE Leaves(j) /\ Becomes(j, [j EXCEPT !.at = "reread", !.outcome = "left"])
      <4>1. PICK k \in Jobs : /\ jobs' = {k} /\ k.kind = j.kind /\ k.at = "reread"
                              /\ k.outcome = "left" /\ k.before = j.before
        BY <3>2, <3>4
      <4> QED  BY <3>1, <3>4, <4>1
    <3>5. CASE Stops(j) /\ Becomes(j, [j EXCEPT !.at = "done", !.outcome = "stopped"])
      <4>1. PICK k \in Jobs : /\ jobs' = {k} /\ k.kind = j.kind /\ k.at = "done"
                              /\ k.outcome = "stopped" /\ k.before = j.before
        BY <3>2, <3>5
      <4> QED  BY <3>1, <3>5, <4>1
    <3>6. CASE UNCHANGED repo /\ Becomes(j, [j EXCEPT !.at = "done", !.outcome = "nothing"])
      <4>1. PICK k \in Jobs : /\ jobs' = {k} /\ k.kind = j.kind /\ k.at = "done"
                              /\ k.outcome = "nothing" /\ k.before = j.before
        BY <3>2, <3>6
      <4> QED  BY <3>1, <3>6, <4>1
    <3> QED  BY <3>1, <3>3, <3>4, <3>5, <3>6
  <2>4. CASE Rereads(j)
    <3> DEFINE k == [j EXCEPT !.at = "done", !.after = head]
    <3>1. Becomes(j, k) /\ UNCHANGED repo /\ j.at = "reread"
      BY <2>4 DEF Rereads
    <3>2. /\ k \in Jobs /\ k.at = "done" /\ k.after = head /\ k.kind = j.kind
          /\ k.outcome = j.outcome /\ k.before = j.before
      BY <1>1 DEF Jobs
    <3> HIDE DEF k
    <3> QED  BY <2>1, <3>1, <3>2
  <2>5. CASE Finishes(j)
    <3> DEFINE o == CASE stopped -> "stopped"
                      [] ~stopped /\ head = j.before -> "nothing"
                      [] OTHER -> "moved"
               k == [j EXCEPT !.at = "done", !.after = head, !.outcome = o]
    <3>1. Becomes(j, k) /\ UNCHANGED repo /\ j.at = "read" /\ j.kind = "finish"
      BY <2>5 DEF Finishes
    <3>2. o \in {"none", "moved", "left", "stopped", "nothing"}
      OBVIOUS
    <3> HIDE DEF o
    <3>3. /\ k \in Jobs /\ k.at = "done" /\ k.after = head /\ k.kind = j.kind
          /\ k.outcome = o /\ k.before = j.before
      BY <1>1, <3>2 DEF Jobs
    <3> HIDE DEF k
    <3> QED  BY <2>1, <3>1, <3>3 DEF o
  <2> QED  BY <2>2, <2>3, <2>4, <2>5 DEF Works
<1>4. JournalTypes'
  <2>1. UNCHANGED repo \/ Moves(j) \/ Stops(j)
    BY <1>3 DEF Leaves
  <2>2. /\ head' \in Nat /\ made' \in Nat /\ stopped' \in BOOLEAN /\ strayed' \in BOOLEAN
        /\ strayed' = strayed
    <3>1. CASE UNCHANGED repo
      BY <3>1, <1>1 DEF JournalTypes, repo
    <3>2. CASE Moves(j)
      <4>1. made' = made + 1 /\ head' = made + 1 /\ stopped' = FALSE /\ strayed' = strayed
        BY <3>2 DEF Moves, NewHead
      <4>2. made \in Nat /\ strayed \in BOOLEAN
        BY <1>1 DEF JournalTypes
      <4>3. head' \in Nat /\ made' \in Nat
        BY <4>1, <4>2
      <4>4. stopped' \in BOOLEAN /\ strayed' \in BOOLEAN
        BY <4>1, <4>2, Zenon
      <4> QED  BY <4>1, <4>3, <4>4
    <3>3. CASE Stops(j)
      BY <3>3, <1>1 DEF JournalTypes, Stops
    <3> QED  BY <2>1, <3>1, <3>2, <3>3
  <2> QED  BY <1>1, <1>2, <1>3, <2>2, HistoryRests DEF JournalTypes, history
<1>5. JobsInv'
  BY <1>1, <1>2, <1>3, JobFields DEF JobsInv, Moves, Leaves, Stops
<1>6. UndoInv'
  BY <1>1, <1>2, <1>3, HistoryRests DEF UndoInv, history
<1>7. ASSUME ~strayed' PROVE HeadInv'
  <2>1. ~strayed /\ HeadInv
    BY <1>3, <1>7 DEF JournalInv, repo, Moves, Leaves, Stops
  <2>2. RestInv'
    <3>1. k.outcome # "moved" /\ pending' = {} /\ undo.at # "settle"
          => head' = head /\ j.outcome # "moved" /\ pending = {}
      BY <1>1, <1>2, <1>3 DEF JobsInv, repo, Leaves, Stops
    <3> QED  BY <2>1, <3>1, <1>1, <1>2, <1>3, HistoryRests DEF HeadInv, RestInv
  <2>3. JobInv'
    <3>1. k.at = "run" => k.before = head'
      BY <1>1, <1>3 DEF repo
    <3>2. k.kind # "finish" /\ k.outcome = "moved" =>
            Tells(Held, k.before) /\ (k.at = "done" => k.after = head')
      <4>1. CASE j.at = "run" /\ Moves(j) /\ k.at = "reread" /\ k.before = j.before /\ k.kind = j.kind
        <5>1. j.kind # "upstream" /\ j.kind # "finish" /\ j.outcome # "moved"
          BY <4>1, <1>1 DEF Moves, JobsInv
        <5>2. j.before = head /\ pending = {} /\ ~undo_busy
          BY <5>1, <4>1, <2>1, <1>1 DEF HeadInv, JobInv, JobsInv, UndoInv
        <5>3. undo.at # "settle"
          BY <5>2 DEF undo_busy, NoUndo
        <5> QED  BY <4>1, <5>1, <5>2, <5>3, <2>1, <1>1 DEF HeadInv, RestInv
      <4>2. CASE j.at = "reread" /\ k.outcome = j.outcome /\ k.before = j.before /\ k.after = head /\ UNCHANGED repo
        BY <4>2, <2>1, <1>1, <1>3 DEF HeadInv, JobInv, repo
      <4> QED  BY <4>1, <4>2, <1>1, <1>3 DEF JobsInv
    <3>3. k.kind = "op" /\ k.outcome = "stopped" => k.before = head'
      BY <1>1, <1>3, <2>1 DEF JobsInv, HeadInv, JobInv, repo, Stops
    <3>4. k.kind = "finish" /\ k.outcome = "moved" => ~stopped' /\ k.after = head'
      BY <1>1, <1>3 DEF JobsInv, repo, Moves
    <3>5. k.kind = "finish" /\ k.outcome = "nothing" => ~stopped' /\ k.before = head'
      BY <1>1, <1>3 DEF JobsInv, repo
    <3> QED  BY <1>2, <1>3, <3>1, <3>2, <3>3, <3>4, <3>5, HistoryRests DEF JobInv
  <2>4. PendingInv'
    <3>1. \A p \in pending : k.before = j.before
      BY <1>1, <1>3 DEF JobsInv
    <3> QED  BY <2>1, <3>1, <1>1, <1>2, <1>3, HistoryRests DEF HeadInv, PendingInv
  <2>5. WorkerInv'
    <3>1. undo_busy => UNCHANGED repo
      BY <1>1, <1>3 DEF UndoInv, Moves, Leaves, Stops
    <3> QED  BY <2>1, <3>1, <1>2, HistoryRests DEF HeadInv, WorkerInv, repo
  <2> QED  BY <2>2, <2>3, <2>4, <2>5 DEF HeadInv
<1> QED  BY <1>4, <1>5, <1>6, <1>7 DEF JournalInv

(* The journal, given a list, has what it was given.                        *)
LEMMA Giving ==
  ASSUME JournalTypes, UndoInv, ~undo_busy, undo' = undo,
         NEW list \in Seq(Entries), list # <<>>, AllDone(list), Ids(waiting) \subseteq Ids(list),
         journal' = Flushed(journal, list), saved' = journal', waiting' = <<>>,
         given' = (given \cup Ids(list)) \ Drops(list)
  PROVE  /\ journal' \in Seq(Entries) /\ saved' \in Seq(Entries) /\ waiting' \in Seq(Entries)
         /\ ~undo_busy' /\ Held' = journal' /\ Held = journal
         /\ UndoInv'
<1>1. ~undo_busy' /\ Held' = journal' /\ Held = journal
  BY DEF Held, undo_busy
<1>2. PICK d \in 0 .. Len(journal) : Upto(journal, d)
  BY <1>1 DEF UndoInv
<1>3. journal \in Seq(Entries) /\ waiting \in Seq(Entries) /\ saved = journal
  BY DEF JournalTypes, UndoInv
<1>4. /\ journal' = Newest(NotUndone(journal) \o list)
      /\ journal' \in Seq(Entries) /\ AllDone(journal')
  BY <1>2, <1>3, Recording
<1>5. given' \subseteq Ids(saved')
  <2>1. Drops(list) = (Ids(journal) \cup Ids(list)) \ Ids(journal')
    BY <1>4 DEF Drops
  <2>2. given \subseteq Ids(journal) \cup Ids(list)
    BY <1>3 DEF UndoInv
  <2>3. Ids(saved') = Ids(journal')
    OBVIOUS
  <2> QED  BY <2>1, <2>2, <2>3
<1>6. \E c \in 0 .. Len(Held') : Upto(Held', c)
  <2>1. Upto(journal', Len(journal')) /\ Len(journal') \in 0 .. Len(journal')
    BY <1>4 DEF AllDone, Upto
  <2> QED  BY <2>1, <1>1
<1>7. waiting' \in Seq(Entries) /\ Len(waiting') = 0
  OBVIOUS
<1>8. UndoInv'
  <2>1. (given \subseteq Ids(saved) \cup Ids(waiting))'
    BY <1>5 DEF Ids
  <2>2. (\E c \in 0 .. Len(Held) : Upto(Held, c))'
    BY <1>6 DEF Upto
  <2>3. (\A i \in 1 .. Len(waiting) : ~waiting[i].undone /\ ~waiting[i].moves)'
    BY <1>7
  <2> QED  BY <2>1, <2>2, <2>3, <1>1 DEF UndoInv
<1> QED  BY <1>1, <1>4, <1>7, <1>8

(* A job's reply is applied: recorded at once, or to wait for an undo.      *)
LEMMA JournalApplies ==
  ASSUME Careful, JournalInv, NEW j \in jobs, Apply(j)
  PROVE  JournalInv'
<1>1. /\ j \in Jobs /\ jobs = {j} /\ JournalTypes /\ JobsInv /\ UndoInv
      /\ head \in Nat /\ journal \in Seq(Entries) /\ waiting \in Seq(Entries)
  BY DEF JournalInv, JournalTypes, JobsInv
<1>2. Applies(j) /\ (finishing' = finishing \/ finishing' = FALSE)
  BY DEF Apply, ApplyRecorded, ApplySync, ApplyFinished
<1>3. /\ jobs' = {} /\ UNCHANGED <<repo, started, undo>> /\ j.at = "done"
      /\ ~undo_busy => waiting = <<>>
  BY <1>1, <1>2 DEF Applies
<1>4. head' = head /\ made' = made /\ stopped' = stopped /\ strayed' = strayed /\ undo' = undo
  BY <1>3 DEF repo
<1>5. j.outcome \in {"moved", "left", "stopped", "nothing"}
  BY <1>1, <1>3, JobFields DEF JobsInv
<1>6. ASSUME HasEntry(j), ~undo_busy, Records(EntryOf(j)), waiting' = <<>>, pending' = {},
             \/ j.kind # "finish"
             \/ j.outcome = "moved" /\ pending # {}
      PROVE  JournalInv'
  <2> DEFINE e == EntryOf(j)
             list == <<e>>
  <2>1. /\ e \in Entries /\ e.id = j.id /\ e.before = j.before /\ e.after = j.after
        /\ (e.moves <=> j.outcome = "moved") /\ ~e.undone
    BY <1>1, <1>6, EntryIs
  <2> HIDE DEF e
  <2>2. PICK d \in 0 .. Len(journal) : Upto(journal, d)
    BY <1>1, <1>6 DEF UndoInv, Held
  <2>3. /\ list \in Seq(Entries) /\ AllDone(list) /\ list # <<>>
        /\ Recorded(journal, e) = Flushed(journal, list)
    BY <2>1, <2>2, <1>1, RecordedAlone
  <2>4. Ids(list) = {e.id} /\ Ids(<<>>) = {}
    BY <2>1, <1>1, IdsOf
  <2>5. Ids(waiting) \subseteq Ids(list)
    BY <1>3, <1>6, <2>4
  <2>6. /\ journal' = Recorded(journal, e) /\ saved' = journal'
        /\ given' = (given \cup {e.id}) \ Drops(list)
    BY <1>6 DEF Records, e
  <2> HIDE DEF list
  <2>7. /\ journal' \in Seq(Entries) /\ saved' \in Seq(Entries) /\ waiting' \in Seq(Entries)
        /\ ~undo_busy' /\ Held' = journal' /\ Held = journal
        /\ UndoInv'
    BY <2>3, <2>4, <2>5, <2>6, <1>1, <1>4, <1>6, Giving
  <2>8. JournalTypes'
    BY <1>1, <1>2, <1>3, <1>4, <1>6, <2>7 DEF JournalTypes
  <2>9. JobsInv'
    BY <1>3, <1>6 DEF JobsInv
  <2>10. ASSUME ~strayed' PROVE HeadInv'
    <3>1. HeadInv
      BY <1>4, <2>10 DEF JournalInv
    <3>2. PICK h \in Nat : /\ Tells(journal, h) /\ (e.moves => e.before = h)
                           /\ head = IF e.moves THEN e.after ELSE h
      <4>1. CASE j.outcome = "moved" /\ j.kind # "finish"
        <5>1. Tells(journal, j.before) /\ j.after = head /\ j.before \in Nat
          BY <4>1, <3>1, <2>7, <1>1, <1>3, JobFields DEF HeadInv, JobInv
        <5> QED  BY <5>1, <4>1, <2>1
      <4>2. CASE j.outcome = "moved" /\ j.kind = "finish"
        <5>1. pending # {}
          BY <4>2, <1>6
        <5>2. PICK p \in pending : Tells(journal, p.before) /\ j.before = p.before
          BY <5>1, <3>1, <2>7 DEF HeadInv, PendingInv
        <5>3. j.after = head /\ j.before \in Nat
          BY <4>2, <3>1, <1>1, JobFields DEF HeadInv, JobInv
        <5> QED  BY <5>2, <5>3, <4>2, <2>1
      <4>3. CASE j.outcome # "moved"
        <5>1. pending = {} /\ undo.at # "settle"
          BY <4>3, <1>1, <1>6 DEF JobsInv, undo_busy, NoUndo
        <5>2. Tells(journal, head)
          BY <5>1, <4>3, <3>1, <2>7, <1>1 DEF HeadInv, RestInv
        <5> QED  BY <5>2, <4>3, <2>1, <1>1
      <4> QED  BY <4>1, <4>2, <4>3
    <3>3. Tells(journal', head)
      BY <3>2, <2>1, <2>6, <1>1, RecordTells
    <3>4. RestInv'
      <4>1. Tells(Held', head')
        BY <3>3, <2>7, <1>4
      <4> QED  BY <4>1 DEF RestInv, Tells, Upto, Walk
    <3>5. JobInv' /\ PendingInv' /\ WorkerInv'
      BY <1>3, <1>6, <2>7 DEF JobInv, PendingInv, WorkerInv
    <3> QED  BY <3>4, <3>5 DEF HeadInv
  <2> QED  BY <2>7, <2>8, <2>9, <2>10 DEF JournalInv
<1>7. ASSUME UNCHANGED history, pending' \subseteq Jobs, \A p, q \in pending' : p = q,
             undo_busy => pending' = {},
             ~strayed => /\ pending' = {} => (pending = {} => j.outcome # "moved")
                                             /\ (pending # {} => j.before = head)
                         /\ pending' # {} => \A p \in pending' : Tells(Held, p.before)
      PROVE  JournalInv'
  <2>1. JournalTypes'
    BY <1>1, <1>2, <1>3, <1>4, <1>7, HistoryRests DEF JournalTypes, history
  <2>2. JobsInv'
    BY <1>3, <1>7 DEF JobsInv
  <2>3. UndoInv'
    BY <1>1, <1>3, <1>4, <1>7, HistoryRests DEF UndoInv, history
  <2>4. ASSUME ~strayed' PROVE HeadInv'
    <3>1. HeadInv /\ ~strayed
      BY <1>4, <2>4 DEF JournalInv
    <3>2. ASSUME pending' = {}, undo.at # "settle" PROVE Tells(Held, head)
      <4>1. CASE pending = {}
        BY <4>1, <3>1, <3>2, <1>1, <1>7 DEF HeadInv, RestInv
      <4>2. CASE pending # {}
        BY <4>2, <3>1, <3>2, <1>1, <1>7 DEF HeadInv, PendingInv
      <4> QED  BY <4>1, <4>2
    <3>3. RestInv'
      BY <3>2, <1>4, <1>7, HistoryRests DEF RestInv
    <3>4. JobInv' /\ PendingInv'
      BY <3>1, <1>3, <1>4, <1>7, HistoryRests DEF JobInv, PendingInv
    <3>5. WorkerInv'
      BY <3>1, <1>4, <1>7, HistoryRests DEF HeadInv, WorkerInv
    <3> QED  BY <3>3, <3>4, <3>5 DEF HeadInv
  <2> QED  BY <2>1, <2>2, <2>3, <2>4 DEF JournalInv
<1>8. CASE ApplyRecorded(j)
  <2>1. /\ j.kind \in {"op", "commit", "stash"} /\ RecordsJob(j)
        /\ pending' = IF j.kind = "op" /\ j.outcome = "stopped" THEN {j} ELSE pending
    BY <1>8 DEF ApplyRecorded
  <2>2. ~undo_busy /\ pending = {} /\ waiting = <<>>
    BY <2>1, <1>1, <1>3 DEF UndoInv, JobsInv
  <2>3. CASE HasEntry(j)
    <3>1. Records(EntryOf(j)) /\ waiting' = waiting /\ pending' = {}
      BY <2>1, <2>2, <2>3 DEF RecordsJob, HasEntry
    <3> QED  BY <3>1, <2>1, <2>2, <2>3, <1>6
  <2>4. CASE ~HasEntry(j)
    <3>1. UNCHANGED history /\ j.outcome # "moved"
      BY <2>1, <2>4 DEF RecordsJob, HasEntry
    <3>2. ASSUME ~strayed, pending' # {} PROVE Tells(Held, j.before)
      <4>1. j.kind = "op" /\ j.outcome = "stopped"
        BY <3>2, <2>1, <2>2
      <4>2. HeadInv /\ j.before = head
        BY <3>2, <4>1 DEF JournalInv, HeadInv, JobInv
      <4>3. undo.at # "settle"
        BY <2>2 DEF undo_busy, NoUndo
      <4> QED  BY <4>2, <4>3, <3>1, <2>2, <1>1 DEF HeadInv, RestInv
    <3>3. pending' \subseteq {j}
      BY <2>1, <2>2
    <3> QED  BY <3>1, <3>2, <3>3, <2>2, <1>1, <1>7
  <2> QED  BY <2>3, <2>4
<1>9. CASE ApplySync(j)
  <2>1. /\ j.kind \in {"sync", "upstream"} /\ pending' = pending /\ pending = {}
        /\ IF HasEntry(j) THEN Flushes(Append(waiting, EntryOf(j))) ELSE UNCHANGED history
    BY <1>1, <1>9 DEF ApplySync, JobsInv
  <2>2. CASE ~HasEntry(j)
    <3>1. UNCHANGED history /\ j.outcome # "moved"
      BY <2>1, <2>2 DEF HasEntry
    <3> QED  BY <3>1, <2>1, <1>1, <1>7 DEF JournalTypes
  <2>3. CASE HasEntry(j) /\ ~undo_busy
    <3> DEFINE e == EntryOf(j)
    <3>1. e \in Entries /\ ~e.undone
      BY <2>3, <1>1, EntryIs
    <3>2. Flushes(Append(waiting, e)) /\ waiting = <<>>
      BY <2>1, <2>3, <1>3
    <3> HIDE DEF e
    <3>3. Append(waiting, e) = <<e>>
      BY <3>2
    <3>4. /\ journal' = Flushed(journal, <<e>>) /\ saved' = journal' /\ waiting' = <<>>
          /\ given' = (given \cup Ids(<<e>>)) \ Drops(<<e>>)
      BY <3>2, <3>3, <2>3 DEF Flushes, MayFlush
    <3>5. PICK d \in 0 .. Len(journal) : Upto(journal, d)
      BY <1>1, <2>3 DEF UndoInv, Held
    <3>6. Recorded(journal, e) = Flushed(journal, <<e>>) /\ Ids(<<e>>) = {e.id}
      BY <3>1, <3>5, <1>1, RecordedAlone, IdsOf
    <3>7. Records(e)
      BY <3>4, <3>6 DEF Records
    <3> QED  BY <3>4, <3>7, <2>1, <2>3, <1>6 DEF e
  <2>4. CASE HasEntry(j) /\ undo_busy
    <3> DEFINE e == EntryOf(j)
               list == Append(waiting, e)
               n == Len(waiting)
    <3>1. j.kind = "upstream" /\ j.outcome # "moved"
      BY <2>4, <1>1 DEF UndoInv, JobsInv
    <3>2. e \in Entries /\ ~e.undone /\ ~e.moves
      BY <3>1, <2>4, <1>1, EntryIs
    <3>3. Flushes(list)
      BY <2>1, <2>4
    <3> HIDE DEF e
    <3>4. /\ list \in Seq(Entries) /\ Len(list) = n + 1 /\ list[n + 1] = e /\ n \in Nat
          /\ \A i \in 1 .. n : list[i] = waiting[i]
      BY <3>2, <1>1
    <3>5. Ids(list) = Ids(waiting) \cup {e.id}
      BY <3>2, <1>1, IdsOf
    <3> HIDE DEF list, n
    <3>6. waiting' = list /\ given' = given \cup Ids(list) /\ journal' = journal /\ saved' = saved
      BY <3>3, <2>4 DEF Flushes, MayFlush
    <3>7. \A i \in 1 .. Len(list) : ~list[i].undone /\ ~list[i].moves
      <4>1. \A i \in 1 .. n : ~waiting[i].undone /\ ~waiting[i].moves
        BY <1>1 DEF UndoInv, n
      <4>2. \A i \in 1 .. n + 1 : i \in 1 .. n \/ i = n + 1
        BY <3>4
      <4> QED  BY <4>1, <4>2, <3>2, <3>4
    <3>8. JournalTypes'
      BY <3>4, <3>6, <2>1, <1>1, <1>2, <1>3, <1>4, HeldRests DEF JournalTypes
    <3>9. JobsInv'
      BY <2>1, <1>3 DEF JobsInv
    <3>10. UndoInv'
      <4>1. (given \subseteq Ids(saved) \cup Ids(waiting))'
        <5>1. given \cup Ids(list) \subseteq Ids(saved) \cup Ids(list)
          BY <3>5, <1>1 DEF UndoInv
        <5> QED  BY <5>1, <3>6 DEF Ids
      <4>2. (\A i \in 1 .. Len(waiting) : ~waiting[i].undone /\ ~waiting[i].moves)'
        BY <3>6, <3>7
      <4>3. (undo_busy =>
               /\ journal = <<>> /\ pending = {} /\ Ids(undo.entries) = Ids(saved)
               /\ \A k \in jobs : k.kind = "upstream"
               /\ undo.at # "done" => Peek(undo.is_undo, undo.entries) # {})'
        BY <3>6, <2>1, <2>4, <1>1, <1>3, <1>4 DEF UndoInv, Ids
      <4> QED  BY <4>1, <4>2, <4>3, <3>6, <2>4, <1>1, <1>4, HeldRests DEF UndoInv
    <3>11. ASSUME ~strayed' PROVE HeadInv'
      <4>1. HeadInv
        BY <1>4, <3>11 DEF JournalInv
      <4>2. RestInv'
        BY <4>1, <3>1, <3>6, <2>1, <1>1, <1>4, HeldRests DEF HeadInv, RestInv
      <4>3. JobInv' /\ PendingInv'
        BY <2>1, <1>3 DEF JobInv, PendingInv
      <4>4. WorkerInv'
        BY <4>1, <3>6, <1>4, HeldRests DEF HeadInv, WorkerInv
      <4> QED  BY <4>2, <4>3, <4>4 DEF HeadInv
    <3> QED  BY <3>8, <3>9, <3>10, <3>11 DEF JournalInv
  <2> QED  BY <2>2, <2>3, <2>4
<1>10. CASE ApplyFinished(j)
  <2>1. /\ j.kind = "finish"
        /\ IF j.outcome = "stopped"
             THEN UNCHANGED <<pending, history>>
             ELSE /\ pending' = {}
                  /\ IF pending # {} THEN RecordsJob(j) ELSE UNCHANGED history
    BY <1>10 DEF ApplyFinished
  <2>2. pending # {} /\ ~undo_busy /\ waiting = <<>> /\ j.outcome \in {"moved", "stopped", "nothing"}
    BY <2>1, <1>1, <1>3, <1>5 DEF JobsInv, UndoInv
  <2>3. CASE j.outcome = "moved"
    <3>1. Records(EntryOf(j)) /\ waiting' = waiting /\ pending' = {} /\ HasEntry(j)
      BY <2>1, <2>2, <2>3 DEF RecordsJob, HasEntry
    <3> QED  BY <3>1, <2>2, <2>3, <1>6
  <2>4. CASE j.outcome = "nothing"
    <3>1. UNCHANGED history /\ pending' = {}
      BY <2>1, <2>2, <2>4 DEF RecordsJob, HasEntry
    <3>2. ~strayed => j.before = head
      BY <2>1, <2>4 DEF JournalInv, HeadInv, JobInv
    <3> QED  BY <3>1, <3>2, <2>2, <1>7
  <2>5. CASE j.outcome = "stopped"
    <3>1. UNCHANGED history /\ pending' = pending
      BY <2>1, <2>5
    <3>2. ~strayed => \A p \in pending : Tells(Held, p.before)
      BY DEF JournalInv, HeadInv, PendingInv
    <3>3. pending \subseteq Jobs /\ \A p, q \in pending : p = q
      BY <1>1 DEF JournalTypes, JobsInv
    <3> QED  BY <3>1, <3>2, <3>3, <2>2, <1>7
  <2> QED  BY <2>2, <2>3, <2>4, <2>5
<1> QED  BY <1>8, <1>9, <1>10 DEF Apply

(* What waited is recorded.                                                 *)
LEMMA JournalFlushes ==
  ASSUME Careful, JournalInv, Flush
  PROVE  JournalInv'
<1>1. /\ JournalTypes /\ JobsInv /\ UndoInv /\ journal \in Seq(Entries) /\ waiting \in Seq(Entries)
      /\ head \in Nat
  BY DEF JournalInv, JournalTypes
<1>2. ~undo_busy /\ waiting # <<>> /\ Flushes(waiting) /\ UNCHANGED <<repo, work>>
  BY DEF Flush, MayFlush
<1>3. /\ journal' = Flushed(journal, waiting) /\ saved' = journal' /\ waiting' = <<>>
      /\ given' = (given \cup Ids(waiting)) \ Drops(waiting)
  BY <1>2 DEF Flushes, MayFlush
<1>4. /\ head' = head /\ made' = made /\ stopped' = stopped /\ strayed' = strayed
      /\ jobs' = jobs /\ started' = started /\ undo' = undo /\ pending' = pending
      /\ finishing' = finishing
  BY <1>2 DEF repo, work
<1>5. AllDone(waiting) /\ \A i \in 1 .. Len(waiting) : ~waiting[i].undone /\ ~waiting[i].moves
  BY <1>1 DEF UndoInv, AllDone
<1>6. /\ journal' \in Seq(Entries) /\ saved' \in Seq(Entries) /\ waiting' \in Seq(Entries)
      /\ ~undo_busy' /\ Held' = journal' /\ Held = journal
      /\ UndoInv'
  BY <1>1, <1>2, <1>3, <1>4, <1>5, Giving
<1>7. JournalTypes' /\ JobsInv'
  BY <1>1, <1>4, <1>6 DEF JournalTypes, JobsInv
<1>8. ASSUME ~strayed' PROVE HeadInv'
  <2>1. HeadInv
    BY <1>4, <1>8 DEF JournalInv
  <2>2. ASSUME NEW h \in Nat, Tells(Held, h) PROVE Tells(Held, h)'
    <3>1. Tells(journal', h)
      BY <2>2, <1>1, <1>2, <1>3, <1>5, <1>6, FlushTells
    <3> QED  BY <3>1, <1>6 DEF Tells, Upto, Walk
  <2>3. RestInv'
    BY <2>1, <2>2, <1>1, <1>4 DEF HeadInv, RestInv
  <2>4. JobInv'
    <3>1. \A j \in jobs : j.before \in Nat
      BY <1>1, JobFields DEF JournalTypes
    <3> QED  BY <2>1, <2>2, <3>1, <1>4 DEF HeadInv, JobInv
  <2>5. PendingInv'
    <3>1. \A p \in pending : p.before \in Nat
      BY <1>1, JobFields DEF JournalTypes
    <3> QED  BY <2>1, <2>2, <3>1, <1>4 DEF HeadInv, PendingInv
  <2>6. WorkerInv'
    BY <1>6 DEF WorkerInv
  <2> QED  BY <2>3, <2>4, <2>5, <2>6 DEF HeadInv
<1> QED  BY <1>6, <1>7, <1>8 DEF JournalInv

(* The refresh looks, and may have a stopped operation settled.             *)
LEMMA JournalProbes ==
  ASSUME Careful, JournalInv, Probe \/ ApplyProbe
  PROVE  JournalInv'
<1>1. JournalTypes /\ JobsInv /\ UndoInv
  BY DEF JournalInv
<1>2. UNCHANGED <<repo, history, undo, pending>>
  BY DEF Probe, ApplyProbe
<1>3. head' = head /\ made' = made /\ stopped' = stopped /\ strayed' = strayed /\ undo' = undo /\ pending' = pending
  BY <1>2 DEF repo
<1>4. CASE UNCHANGED <<jobs, started, finishing>>
  <2>1. JournalTypes'
    BY <1>1, <1>2, <1>3, <1>4, HistoryRests DEF JournalTypes, history
  <2>2. JobsInv'
    BY <1>1, <1>3, <1>4 DEF JobsInv
  <2>3. UndoInv'
    BY <1>1, <1>2, <1>3, <1>4, HistoryRests DEF UndoInv, history
  <2>4. ASSUME ~strayed' PROVE HeadInv'
    <3>1. HeadInv
      BY <1>3, <2>4 DEF JournalInv
    <3>2. RestInv' /\ JobInv' /\ PendingInv'
      BY <3>1, <1>2, <1>3, <1>4, HistoryRests DEF HeadInv, RestInv, JobInv, PendingInv
    <3>3. WorkerInv'
      BY <3>1, <1>2, <1>3, <1>4, HistoryRests DEF HeadInv, WorkerInv
    <3> QED  BY <3>2, <3>3 DEF HeadInv
  <2> QED  BY <2>1, <2>2, <2>3, <2>4 DEF JournalInv
<1>5. ASSUME ~finishing, finishing' = TRUE, NEW p \in pending, Spawn("finish", p.before)
      PROVE  JournalInv'
  <2> DEFINE k == [kind |-> "finish", id |-> started + 1, at |-> "read", before |-> p.before,
                   after |-> p.before, outcome |-> "none"]
  <2>1. jobs = {}
    BY <1>1, <1>5 DEF JobsInv
  <2>2. jobs' = {k} /\ started' = started + 1
    <3>1. jobs' = jobs \cup {k} /\ started' = started + 1
      BY <1>5 DEF Spawn
    <3> HIDE DEF k
    <3> QED  BY <3>1, <2>1
  <2>3. /\ k \in Jobs /\ k.kind = "finish" /\ k.at = "read" /\ k.outcome = "none"
        /\ k.before = p.before /\ started + 1 \in Nat
    <3>1. p.before \in Nat /\ started \in Nat
      BY <1>1, <1>5, JobFields DEF JournalTypes
    <3> QED  BY <3>1 DEF Jobs
  <2> HIDE DEF k
  <2>4. ~undo_busy
    BY <1>1, <1>5 DEF UndoInv
  <2>5. JournalTypes'
    BY <2>2, <2>3, <1>1, <1>2, <1>3, <1>5, HistoryRests DEF JournalTypes, history
  <2>6. JobsInv'
    BY <2>2, <2>3, <1>1, <1>3, <1>5 DEF JobsInv
  <2>7. UndoInv'
    BY <2>4, <1>1, <1>2, <1>3, HistoryRests DEF UndoInv, history
  <2>8. ASSUME ~strayed' PROVE HeadInv'
    <3>1. HeadInv
      BY <1>3, <2>8 DEF JournalInv
    <3>2. RestInv'
      BY <1>3, <1>5 DEF RestInv
    <3>3. JobInv'
      BY <2>2, <2>3 DEF JobInv
    <3>4. PendingInv'
      BY <3>1, <2>2, <2>3, <1>1, <1>2, <1>3, <1>5, HistoryRests DEF HeadInv, PendingInv, JobsInv
    <3>5. WorkerInv'
      BY <2>4, <1>2, HistoryRests DEF WorkerInv
    <3> QED  BY <3>2, <3>3, <3>4, <3>5 DEF HeadInv
  <2> QED  BY <2>5, <2>6, <2>7, <2>8 DEF JournalInv
<1>6. CASE Probe
  BY <1>4, <1>6 DEF Probe
<1>7. CASE ApplyProbe
  BY <1>4, <1>5, <1>7 DEF ApplyProbe
<1> QED  BY <1>6, <1>7

(* Someone else moves the repository, or the stopped operation ends.        *)
LEMMA JournalStrays ==
  ASSUME Careful, JournalInv, OutsiderMoves \/ OutsiderStops \/ Continue \/ Abort \/ UNCHANGED vars,
         undo' = undo
  PROVE  JournalInv'
<1>1. JournalTypes /\ JobsInv /\ UndoInv
  BY DEF JournalInv
<1>2. UNCHANGED <<history, work>>
  BY DEF OutsiderMoves, OutsiderStops, Continue, Abort, vars, work
<1>3. /\ jobs' = jobs /\ started' = started /\ undo' = undo /\ pending' = pending
      /\ finishing' = finishing /\ UNCHANGED <<history, undo>>
  BY <1>2 DEF work
<1>4. /\ head' \in Nat /\ made' \in Nat /\ stopped' \in BOOLEAN /\ strayed' \in BOOLEAN
      /\ ~strayed' =>
           /\ ~strayed
           /\ \/ stopped /\ ~stopped' /\ pending # {}
              \/ head' = head /\ (stopped' => stopped)
  <2>1. /\ head \in Nat /\ made \in Nat /\ stopped \in BOOLEAN /\ strayed \in BOOLEAN
        /\ made + 1 \in Nat
    BY <1>1 DEF JournalTypes
  <2>2. CASE OutsiderMoves
    <3>1. head' = made + 1 /\ made' = made + 1 /\ strayed' = TRUE /\ stopped' = stopped
      BY <2>2 DEF OutsiderMoves, NewHead
    <3> QED  BY <3>1, <2>1, Zenon
  <2>3. CASE OutsiderStops
    <3>1. head' = head /\ made' = made /\ strayed' = TRUE /\ stopped' = TRUE
      BY <2>3 DEF OutsiderStops
    <3> QED  BY <3>1, <2>1, Zenon
  <2>4. CASE Continue
    <3>1. /\ head' = made + 1 /\ made' = made + 1 /\ stopped' = FALSE /\ stopped
          /\ strayed' = (strayed \/ pending = {})
      BY <2>4 DEF Continue, NewHead
    <3> QED  BY <3>1, <2>1, Zenon
  <2>5. CASE Abort
    <3>1. head' = head /\ made' = made /\ strayed' = strayed /\ stopped' = FALSE
      BY <2>5 DEF Abort
    <3> QED  BY <3>1, <2>1, Zenon
  <2>6. CASE UNCHANGED vars
    <3>1. head' = head /\ made' = made /\ strayed' = strayed /\ stopped' = stopped
      BY <2>6 DEF vars, repo
    <3> QED  BY <3>1, <2>1, Zenon
  <2> QED  BY <2>2, <2>3, <2>4, <2>5, <2>6
<1>5. JournalTypes'
  BY <1>1, <1>3, <1>4, HistoryRests DEF JournalTypes, history
<1>6. JobsInv'
  BY <1>1, <1>3 DEF JobsInv
<1>7. UndoInv'
  BY <1>1, <1>3, HistoryRests DEF UndoInv, history
<1>8. ASSUME ~strayed' PROVE HeadInv'
  <2>1. HeadInv
    BY <1>4, <1>8 DEF JournalInv
  <2>2. CASE stopped /\ ~stopped' /\ pending # {}
    <3>1. \A j \in jobs : j.kind = "finish" /\ j.at # "run"
      BY <2>2, <1>1 DEF JobsInv
    <3>2. ~undo_busy /\ RestInv'
      BY <2>2, <1>1, <1>3 DEF UndoInv, RestInv
    <3>3. JobInv'
      BY <3>1, <2>1, <2>2, <1>3 DEF HeadInv, JobInv
    <3>4. PendingInv' /\ WorkerInv'
      BY <3>2, <2>1, <1>3, HistoryRests DEF HeadInv, PendingInv, WorkerInv
    <3> QED  BY <3>2, <3>3, <3>4 DEF HeadInv
  <2>3. CASE head' = head /\ (stopped' => stopped)
    <3>1. RestInv' /\ PendingInv'
      BY <2>1, <2>3, <1>3, HistoryRests DEF HeadInv, RestInv, PendingInv
    <3>2. JobInv'
      BY <2>1, <2>3, <1>3, HistoryRests DEF HeadInv, JobInv
    <3>3. WorkerInv'
      BY <2>1, <2>3, <1>3, HistoryRests DEF HeadInv, WorkerInv
    <3> QED  BY <3>1, <3>2, <3>3 DEF HeadInv
  <2> QED  BY <2>2, <2>3, <1>4, <1>8
<1> QED  BY <1>5, <1>6, <1>7, <1>8 DEF JournalInv

(* An undo takes the journal along.                                         *)
LEMMA UndoStarts ==
  ASSUME Careful, JournalInv, NEW is_undo \in BOOLEAN, StartUndo(is_undo)
  PROVE  JournalInv'
<1> DEFINE u == [at |-> "read", is_undo |-> is_undo, entries |-> journal, now |-> 0,
                 ran |-> FALSE, failed |-> FALSE, crossed |-> FALSE]
<1>1. /\ JournalTypes /\ JobsInv /\ UndoInv /\ journal \in Seq(Entries)
  BY DEF JournalInv, JournalTypes
<1>2. /\ ~undo_busy /\ pending = {} /\ ~stopped /\ Peek(is_undo, journal) # {} /\ undo' = u
      /\ journal' = <<>>
      /\ UNCHANGED <<repo, saved, waiting, given, jobs, started, pending, finishing>>
  BY DEF StartUndo, MayUndo
<1>3. jobs = {}
  BY DEF StartUndo, MayUndo, busy, sync_busy, Running
<1>4. u \in Undoing /\ u.at = "read" /\ u.entries = journal /\ u.is_undo = is_undo
  BY <1>1 DEF Undoing
<1>5. u # NoUndo
  BY <1>4, UndoFields
<1> HIDE DEF u
<1>6. undo_busy' /\ Held' = journal /\ Held = journal
  BY <1>2, <1>4, <1>5 DEF undo_busy, Held
<1>7. <<>> \in Seq(Entries)
  OBVIOUS
<1>8. head' = head /\ made' = made /\ stopped' = stopped /\ strayed' = strayed
  BY <1>2 DEF repo
<1>9. JournalTypes'
  BY <1>1, <1>2, <1>4, <1>7, <1>8 DEF JournalTypes
<1>10. JobsInv'
  BY <1>2, <1>3 DEF JobsInv
<1>11. UndoInv'
  <2>1. (undo_busy =>
           /\ journal = <<>> /\ pending = {} /\ Ids(undo.entries) = Ids(saved)
           /\ \A j \in jobs : j.kind = "upstream"
           /\ undo.at # "done" => Peek(undo.is_undo, undo.entries) # {})'
    <3>1. saved = journal
      BY <1>1, <1>2 DEF UndoInv
    <3>2. /\ Ids(undo'.entries) = Ids(saved')
          /\ Peek(undo'.is_undo, undo'.entries) # {}
      BY <3>1, <1>2, <1>4
    <3> QED  BY <3>2, <1>2, <1>3 DEF Ids, Peek, PeekUndo, PeekRedo, UndoIndices, IsDone
  <2>2. (given \subseteq Ids(saved) \cup Ids(waiting))'
    BY <1>1, <1>2 DEF UndoInv, Ids
  <2>3. (\E d \in 0 .. Len(Held) : Upto(Held, d))'
    BY <1>1, <1>6 DEF UndoInv, Upto
  <2> QED  BY <2>1, <2>2, <2>3, <1>1, <1>2, <1>6 DEF UndoInv
<1>12. ASSUME ~strayed' PROVE HeadInv'
  <2>1. HeadInv
    BY <1>8, <1>12 DEF JournalInv
  <2>2. undo.at # "settle"
    BY <1>2 DEF undo_busy, NoUndo
  <2>3. RestInv'
    <3>1. Tells(journal, head)
      BY <2>1, <2>2, <1>2, <1>3, <1>6 DEF HeadInv, RestInv
    <3> QED  BY <3>1, <1>6, <1>8 DEF RestInv, Tells, Upto, Walk
  <2>4. JobInv' /\ PendingInv'
    BY <1>2, <1>3 DEF JobInv, PendingInv
  <2>5. WorkerInv'
    BY <1>2, <1>4, <1>8 DEF WorkerInv
  <2> QED  BY <2>3, <2>4, <2>5 DEF HeadInv
<1> QED  BY <1>9, <1>10, <1>11, <1>12 DEF JournalInv

(* What an undo's worker has of the journal.                                *)
LEMMA UndoHas ==
  ASSUME JournalInv, undo_busy
  PROVE  /\ undo \in Undoing /\ undo.entries \in Seq(Entries) /\ undo.is_undo \in BOOLEAN
         /\ undo.now \in Nat /\ Held = undo.entries
         /\ undo.at # "done" =>
              /\ Index(undo) \in Peek(undo.is_undo, undo.entries)
              /\ UndoEntry(undo) = undo.entries[Index(undo)]
              /\ UndoEntry(undo) \in Entries
              /\ To(undo) \in Nat /\ From(undo) \in Nat
<1>1. undo \in Undoing /\ Held = undo.entries /\ UndoInv
  BY DEF JournalInv, JournalTypes, Held
<1>2. undo.entries \in Seq(Entries) /\ undo.is_undo \in BOOLEAN /\ undo.now \in Nat
  BY <1>1, UndoFields
<1>3. ASSUME undo.at # "done"
      PROVE  /\ Index(undo) \in Peek(undo.is_undo, undo.entries)
             /\ UndoEntry(undo) = undo.entries[Index(undo)]
             /\ UndoEntry(undo) \in Entries
             /\ To(undo) \in Nat /\ From(undo) \in Nat
  <2>1. Peek(undo.is_undo, undo.entries) # {}
    BY <1>1, <1>3 DEF UndoInv
  <2>2. Index(undo) \in Peek(undo.is_undo, undo.entries)
    BY <2>1 DEF Index
  <2>3. PICK d \in 0 .. Len(undo.entries) : Upto(undo.entries, d)
    BY <1>1 DEF UndoInv
  <2>4. Index(undo) \in 1 .. Len(undo.entries)
    BY <2>2, <2>3, <1>2, PeekIs
  <2>5. UndoEntry(undo) \in Entries /\ UndoEntry(undo) = undo.entries[Index(undo)]
    BY <2>4, <1>2 DEF UndoEntry
  <2>6. To(undo) \in Nat /\ From(undo) \in Nat
    BY <2>5, <1>2, EntryFields DEF To, From
  <2> QED  BY <2>2, <2>5, <2>6
<1> QED  BY <1>1, <1>2, <1>3

(* A worker's step that leaves its entries alone.                           *)
LEMMA UndoGoesOn ==
  ASSUME Careful, JournalInv, undo_busy, UNCHANGED <<history, jobs, started, pending, finishing>>,
         undo' \in Undoing, undo'.entries = undo.entries, undo'.is_undo = undo.is_undo,
         undo.at # "done", head' \in Nat, made' \in Nat, stopped' \in BOOLEAN,
         strayed' \in BOOLEAN,
         ~strayed' => ~strayed /\ RestInv' /\ WorkerInv'
  PROVE  JournalInv'
<1>1. /\ JournalTypes /\ JobsInv /\ UndoInv
  BY DEF JournalInv
<1>2. /\ jobs' = jobs /\ started' = started /\ pending' = pending /\ finishing' = finishing
      /\ journal' = journal /\ saved' = saved /\ waiting' = waiting /\ given' = given
  BY DEF history
<1>3. undo_busy' /\ Held' = undo.entries /\ Held = undo.entries
  BY UndoFields DEF undo_busy, Held
<1>4. JournalTypes'
  BY <1>1, <1>2 DEF JournalTypes
<1>5. JobsInv'
  BY <1>1, <1>2 DEF JobsInv
<1>6. UndoInv'
  <2>1. (undo_busy =>
           /\ journal = <<>> /\ pending = {} /\ Ids(undo.entries) = Ids(saved)
           /\ \A j \in jobs : j.kind = "upstream"
           /\ undo.at # "done" => Peek(undo.is_undo, undo.entries) # {})'
    BY <1>1, <1>2 DEF UndoInv, Ids, Peek, PeekUndo, PeekRedo, UndoIndices, IsDone
  <2>2. (given \subseteq Ids(saved) \cup Ids(waiting))'
    BY <1>1, <1>2 DEF UndoInv, Ids
  <2>3. (\E d \in 0 .. Len(Held) : Upto(Held, d))'
    BY <1>1, <1>3 DEF UndoInv, Upto
  <2> QED  BY <2>1, <2>2, <2>3, <1>1, <1>2, <1>3 DEF UndoInv
<1>7. ASSUME ~strayed' PROVE HeadInv'
  <2>1. HeadInv
    BY <1>7 DEF JournalInv
  <2>2. pending = {} /\ \A j \in jobs : j.kind = "upstream" /\ j.outcome \notin {"moved", "stopped"}
    BY <1>1 DEF UndoInv, JobsInv
  <2>3. JobInv' /\ PendingInv'
    BY <2>2, <1>2 DEF JobInv, PendingInv
  <2> QED  BY <2>3, <1>7 DEF HeadInv
<1> QED  BY <1>4, <1>5, <1>6, <1>7 DEF JournalInv

(* Someone else moves HEAD under a worker that is about to run.             *)
LEMMA JournalCrosses ==
  ASSUME Careful, JournalInv, OutsiderMoves \/ Continue, undo.at = "run"
  PROVE  JournalInv'
<1> DEFINE u == [undo EXCEPT !.crossed = TRUE]
<1>1. /\ undo' = u /\ head' = made + 1 /\ made' = made + 1
      /\ UNCHANGED <<history, jobs, started, pending, finishing>>
  BY DEF OutsiderMoves, Continue, Crosses, NewHead
<1>2. undo_busy /\ JournalTypes /\ UndoInv
  BY DEF undo_busy, NoUndo, JournalInv
<1>3. undo \in Undoing
  BY <1>2, UndoHas
<1>4. u \in Undoing /\ u.entries = undo.entries /\ u.is_undo = undo.is_undo
  BY <1>3 DEF Undoing
<1> HIDE DEF u
<1>5. stopped' \in BOOLEAN /\ strayed' = TRUE
  <2>1. pending = {} /\ stopped \in BOOLEAN
    BY <1>2 DEF UndoInv, JournalTypes
  <2> QED  BY <2>1 DEF OutsiderMoves, Continue
<1>6. head' \in Nat /\ made' \in Nat
  BY <1>1, <1>2 DEF JournalTypes
<1> QED  BY <1>1, <1>2, <1>4, <1>5, <1>6, UndoGoesOn

(* It runs only from where its entry is,                                    *)
LEMMA UndoReading ==
  ASSUME Careful, JournalInv, UndoReads
  PROVE  JournalInv'
<1> DEFINE a == IF Permitted(undo, head) THEN "run" ELSE "done"
           u == [undo EXCEPT !.now = head, !.at = a]
<1>1. /\ undo.at = "read" /\ undo' = u
      /\ UNCHANGED <<repo, history, jobs, started, pending, finishing>>
  BY DEF UndoReads
<1>2. undo_busy /\ JournalTypes /\ UndoInv /\ head \in Nat /\ JobsInv
  BY <1>1 DEF undo_busy, NoUndo, JournalInv, JournalTypes
<1>3. undo \in Undoing /\ Held = undo.entries
  BY <1>2, UndoHas
<1>4. a \in {"run", "done"}
  OBVIOUS
<1>5. /\ u \in Undoing /\ u.entries = undo.entries /\ u.is_undo = undo.is_undo
      /\ u.now = head /\ u.at = a
  <2> HIDE DEF a
  <2> QED  BY <1>2, <1>3, <1>4 DEF Undoing
<1> HIDE DEF u
<1>6. head' = head /\ made' = made /\ stopped' = stopped /\ strayed' = strayed
  BY <1>1 DEF repo
<1>7. ASSUME ~strayed' PROVE RestInv' /\ WorkerInv'
  <2>1. HeadInv
    BY <1>6, <1>7 DEF JournalInv
  <2>2. Tells(undo.entries, head)
    BY <2>1, <1>1, <1>2, <1>3 DEF HeadInv, RestInv, UndoInv, JobsInv
  <2>3. Held' = undo.entries /\ undo_busy'
    BY <1>1, <1>5, UndoFields DEF Held, undo_busy
  <2>4. RestInv'
    BY <2>2, <2>3, <1>6 DEF RestInv, Tells, Upto, Walk
  <2>5. u.at = "run" => Permitted(u, head)
    <3>1. UndoEntry(u) = UndoEntry(undo)
      BY <1>5 DEF UndoEntry, Index
    <3> QED  BY <3>1, <1>5 DEF Permitted, From
  <2>6. WorkerInv'
    <3>1. ~stopped'
      BY <2>1, <1>2, <1>6 DEF HeadInv, WorkerInv
    <3>2. undo'.at = "run" => undo'.now = head' /\ Permitted(undo', head')
      BY <2>5, <1>1, <1>5, <1>6
    <3>3. undo'.at # "settle"
      BY <1>1, <1>4, <1>5
    <3> QED  BY <3>1, <3>2, <3>3 DEF WorkerInv, Permitted, From, UndoEntry, Index, Peek, PeekUndo,
                                     PeekRedo, UndoIndices, IsDone
  <2> QED  BY <2>4, <2>6
<1>8. JournalTypes
  BY <1>2
<1> QED  BY <1>1, <1>2, <1>5, <1>6, <1>7, UndoGoesOn DEF JournalTypes

(* gets to the entry's other end or stays,                                  *)
LEMMA UndoRunning ==
  ASSUME Careful, JournalInv, UndoRuns
  PROVE  JournalInv'
<1>1. undo.at = "run" /\ UNCHANGED <<history, jobs, started, pending, finishing>>
  BY DEF UndoRuns
<1>2. /\ undo_busy /\ JournalTypes /\ UndoInv /\ JobsInv /\ head \in Nat /\ made \in Nat
      /\ stopped \in BOOLEAN /\ strayed \in BOOLEAN
  BY <1>1 DEF undo_busy, NoUndo, JournalInv, JournalTypes
<1>3. /\ undo \in Undoing /\ Held = undo.entries /\ To(undo) \in Nat
  BY <1>1, <1>2, UndoHas
<1>4. PICK failed \in BOOLEAN :
        /\ PlanRuns(failed)
        /\ \/ /\ head' = IF UndoEntry(undo).moves THEN To(undo) ELSE head
              /\ UNCHANGED <<made, stopped, strayed>>
           \/ failed = TRUE /\ UNCHANGED repo
           \/ NewHead /\ strayed' = TRUE /\ UNCHANGED stopped
  BY DEF UndoRuns
<1> DEFINE u == [undo EXCEPT !.at = "settle", !.ran = TRUE, !.failed = failed]
<1>5. undo' = u
  BY <1>4 DEF PlanRuns
<1>6. /\ u \in Undoing /\ u.entries = undo.entries /\ u.is_undo = undo.is_undo /\ u.now = undo.now
      /\ u.at = "settle" /\ u.failed = failed
  BY <1>3 DEF Undoing
<1> HIDE DEF u
<1>7. /\ head' \in Nat /\ made' \in Nat /\ stopped' = stopped /\ strayed' \in BOOLEAN
      /\ ~strayed' => /\ ~strayed
                      /\ \/ head' = IF UndoEntry(undo).moves THEN To(undo) ELSE head
                         \/ failed = TRUE /\ head' = head
  <2>1. CASE /\ head' = IF UndoEntry(undo).moves THEN To(undo) ELSE head
             /\ UNCHANGED <<made, stopped, strayed>>
    <3>1. head' \in Nat
      BY <2>1, <1>2, <1>3
    <3> QED  BY <3>1, <2>1, <1>2
  <2>2. CASE failed = TRUE /\ UNCHANGED repo
    BY <2>2, <1>2 DEF repo
  <2>3. CASE NewHead /\ strayed' = TRUE /\ UNCHANGED stopped
    <3>1. head' = made + 1 /\ made' = made + 1 /\ strayed' = TRUE /\ stopped' = stopped
      BY <2>3 DEF NewHead
    <3>2. head' \in Nat /\ made' \in Nat
      BY <3>1, <1>2
    <3> QED  BY <3>1, <3>2
  <2> QED  BY <1>4, <2>1, <2>2, <2>3
<1>8. ASSUME ~strayed' PROVE RestInv' /\ WorkerInv'
  <2>1. HeadInv
    BY <1>7, <1>8 DEF JournalInv
  <2>2. /\ Tells(undo.entries, head) /\ undo.now = head /\ Permitted(undo, head) /\ ~stopped
    BY <2>1, <1>1, <1>2, <1>3 DEF HeadInv, RestInv, WorkerInv, UndoInv, JobsInv
  <2>3. UndoEntry(u) = UndoEntry(undo) /\ From(u) = From(undo) /\ To(u) = To(undo)
    BY <1>6 DEF UndoEntry, Index, From, To
  <2>4. /\ Tells(u.entries, u.now) /\ u.now = From(u)
        /\ \/ UndoEntry(u).moves /\ head' = To(u)
           \/ head' = u.now /\ (UndoEntry(u).moves => u.failed)
    BY <2>2, <2>3, <1>6, <1>7, <1>8 DEF Permitted
  <2>5. Held' = undo'.entries
    BY <1>5, <1>6, UndoFields DEF Held, undo_busy
  <2>6. RestInv'
    BY <1>5, <1>6 DEF RestInv
  <2>7. WorkerInv'
    <3>1. Tells(Held, undo.now)'
      BY <2>4, <2>5, <1>5 DEF Tells, Upto, Walk
    <3>2. (/\ undo.now = From(undo)
           /\ \/ UndoEntry(undo).moves /\ head = To(undo)
              \/ head = undo.now /\ (UndoEntry(undo).moves => undo.failed))'
      <4>1. From(undo)' = From(u) /\ To(undo)' = To(u) /\ UndoEntry(undo)' = UndoEntry(u)
        <5>1. PeekUndo(undo.entries)' = PeekUndo(u.entries) /\ PeekRedo(undo.entries)' = PeekRedo(u.entries)
          BY <1>5 DEF PeekUndo, PeekRedo, UndoIndices, IsDone
        <5>2. Peek(undo.is_undo, undo.entries)' = Peek(u.is_undo, u.entries)
          BY <5>1, <1>5 DEF Peek
        <5>3. Index(undo)' = Index(u)
          BY <5>2 DEF Index
        <5>4. UndoEntry(undo)' = UndoEntry(u)
          BY <5>3, <1>5 DEF UndoEntry
        <5> QED  BY <5>4, <1>5 DEF From, To
      <4> QED  BY <4>1, <2>4, <1>5
    <3>3. ~stopped' /\ undo'.at = "settle"
      BY <2>2, <1>5, <1>6, <1>7
    <3> QED  BY <3>1, <3>2, <3>3 DEF WorkerInv
  <2> QED  BY <2>6, <2>7
<1> QED  BY <1>1, <1>2, <1>5, <1>6, <1>7, <1>8, UndoGoesOn

(* and marks the entry as what HEAD says.                                   *)
LEMMA UndoSettling ==
  ASSUME Careful, JournalInv, UndoSettles
  PROVE  JournalInv'
<1> DEFINE i == Index(undo)
           b == undo.is_undo
           s == undo.entries
           t == [s EXCEPT ![i].undone = b]
           x == IF Landed(undo, head) THEN t ELSE s
           u == [undo EXCEPT !.at = "done", !.entries = x]
<1>1. /\ undo.at = "settle" /\ undo' = u
      /\ UNCHANGED <<repo, history, jobs, started, pending, finishing>>
  BY DEF UndoSettles
<1>2. /\ undo_busy /\ JournalTypes /\ UndoInv /\ JobsInv /\ head \in Nat
  BY <1>1 DEF undo_busy, NoUndo, JournalInv, JournalTypes
<1>3. /\ undo \in Undoing /\ Held = undo.entries /\ undo.entries \in Seq(Entries)
      /\ undo.is_undo \in BOOLEAN /\ undo.now \in Nat
      /\ i \in Peek(undo.is_undo, undo.entries) /\ UndoEntry(undo) = undo.entries[i]
  BY <1>1, <1>2, UndoHas
<1>4. PICK d \in 0 .. Len(undo.entries) : Upto(undo.entries, d)
  BY <1>2, <1>3 DEF UndoInv
<1>5. /\ t \in Seq(Entries) /\ Ids(t) = Ids(undo.entries)
      /\ \E c \in 0 .. Len(t) : Upto(t, c)
  <2>1. s \in Seq(Entries) /\ b \in BOOLEAN /\ i \in Peek(b, s) /\ d \in 0 .. Len(s) /\ Upto(s, d)
    BY <1>3, <1>4
  <2> HIDE DEF s, b, i
  <2>2. t \in Seq(Entries) /\ Ids(t) = Ids(s) /\ \E c \in 0 .. Len(t) : Upto(t, c)
    BY <2>1, Marked
  <2> QED  BY <2>2 DEF s
<1> HIDE DEF t
<1>6. /\ x \in Seq(Entries) /\ Ids(x) = Ids(undo.entries)
      /\ \E c \in 0 .. Len(x) : Upto(x, c)
  BY <1>3, <1>4, <1>5
<1> HIDE DEF x
<1>7. u \in Undoing /\ u.at = "done" /\ u.entries = x
  BY <1>3, <1>6 DEF Undoing
<1> HIDE DEF u
<1>8. /\ head' = head /\ made' = made /\ stopped' = stopped /\ strayed' = strayed
      /\ jobs' = jobs /\ started' = started /\ pending' = pending /\ finishing' = finishing
      /\ journal' = journal /\ saved' = saved /\ waiting' = waiting /\ given' = given
  BY <1>1 DEF repo, history
<1>9. undo_busy' /\ Held' = x
  BY <1>1, <1>7, UndoFields DEF undo_busy, Held
<1>10. JournalTypes'
  BY <1>1, <1>2, <1>7, <1>8 DEF JournalTypes
<1>11. JobsInv'
  BY <1>2, <1>8 DEF JobsInv
<1>12. UndoInv'
  <2>1. (undo_busy =>
           /\ journal = <<>> /\ pending = {} /\ Ids(undo.entries) = Ids(saved)
           /\ \A j \in jobs : j.kind = "upstream"
           /\ undo.at # "done" => Peek(undo.is_undo, undo.entries) # {})'
    BY <1>1, <1>2, <1>6, <1>7, <1>8 DEF UndoInv, Ids
  <2>2. (given \subseteq Ids(saved) \cup Ids(waiting))'
    BY <1>2, <1>8 DEF UndoInv, Ids
  <2>3. (\E c \in 0 .. Len(Held) : Upto(Held, c))'
    BY <1>6, <1>9 DEF Upto
  <2> QED  BY <2>1, <2>2, <2>3, <1>2, <1>8, <1>9 DEF UndoInv
<1>13. ASSUME ~strayed' PROVE HeadInv'
  <2>1. HeadInv
    BY <1>8, <1>13 DEF JournalInv
  <2>2. pending = {} /\ \A j \in jobs : j.kind = "upstream" /\ j.outcome \notin {"moved", "stopped"}
    BY <1>2 DEF UndoInv, JobsInv
  <2>3. JobInv' /\ PendingInv'
    BY <2>2, <1>8 DEF JobInv, PendingInv
  <2>4. /\ ~stopped /\ Tells(undo.entries, undo.now) /\ undo.now = From(undo)
        /\ \/ UndoEntry(undo).moves /\ head = To(undo)
           \/ head = undo.now /\ (UndoEntry(undo).moves => undo.failed)
    BY <2>1, <1>1, <1>2, <1>3 DEF HeadInv, WorkerInv
  <2>5. Tells(x, head)
    <3>1. CASE Landed(undo, head)
      <4>1. undo.entries[i].moves =>
              head = IF undo.is_undo THEN undo.entries[i].before ELSE undo.entries[i].after
        BY <2>4, <3>1, <1>3 DEF Landed, To
      <4>2. ~undo.entries[i].moves => head = undo.now
        BY <2>4, <1>3
      <4>3. Tells(t, head)
        <5>1. /\ s \in Seq(Entries) /\ b \in BOOLEAN /\ i \in Peek(b, s) /\ Tells(s, undo.now)
              /\ undo.now \in Nat /\ (s[i].moves => head = IF b THEN s[i].before ELSE s[i].after)
              /\ (~s[i].moves => head = undo.now)
          BY <4>1, <4>2, <2>4, <1>3
        <5> HIDE DEF s, b, i
        <5> QED  BY <5>1, <1>2, MarkTells DEF t
      <4> QED  BY <4>3, <3>1 DEF x
    <3>2. CASE ~Landed(undo, head)
      <4>1. head = undo.now
        BY <2>4, <3>2 DEF Landed
      <4> QED  BY <4>1, <2>4, <3>2 DEF x
    <3> QED  BY <3>1, <3>2
  <2>6. RestInv'
    BY <2>5, <1>8, <1>9 DEF RestInv, Tells, Upto, Walk
  <2>7. WorkerInv'
    BY <2>4, <1>1, <1>7, <1>8 DEF WorkerInv
  <2> QED  BY <2>3, <2>6, <2>7 DEF HeadInv
<1> QED  BY <1>10, <1>11, <1>12, <1>13 DEF JournalInv

(* The worker's journal is the pane's again.                                *)
LEMMA UndoApplies ==
  ASSUME Careful, JournalInv, ApplyUndo
  PROVE  JournalInv'
<1>1. /\ undo.at = "done" /\ journal' = undo.entries /\ saved' = journal' /\ undo' = NoUndo
      /\ UNCHANGED <<repo, waiting, given, jobs, started, pending, finishing>>
  BY DEF ApplyUndo
<1>2. /\ undo_busy /\ JournalTypes /\ UndoInv /\ JobsInv
  BY <1>1 DEF undo_busy, NoUndo, JournalInv
<1>3. /\ undo \in Undoing /\ Held = undo.entries /\ undo.entries \in Seq(Entries)
  BY <1>2, UndoHas
<1>4. ~undo_busy' /\ Held' = undo.entries
  BY <1>1 DEF undo_busy, Held
<1>5. head' = head /\ made' = made /\ stopped' = stopped /\ strayed' = strayed
  BY <1>1 DEF repo
<1>6. JournalTypes'
  BY <1>1, <1>2, <1>3, <1>4, <1>5 DEF JournalTypes
<1>7. JobsInv'
  BY <1>1, <1>2 DEF JobsInv
<1>8. UndoInv'
  <2>1. (given \subseteq Ids(saved) \cup Ids(waiting))'
    <3>1. given \subseteq Ids(undo.entries) \cup Ids(waiting)
      BY <1>2 DEF UndoInv
    <3> QED  BY <3>1, <1>1 DEF Ids
  <2>2. (\E c \in 0 .. Len(Held) : Upto(Held, c))'
    BY <1>2, <1>3, <1>4 DEF UndoInv, Upto
  <2> QED  BY <2>1, <2>2, <1>1, <1>2, <1>4 DEF UndoInv
<1>9. ASSUME ~strayed' PROVE HeadInv'
  <2>1. HeadInv
    BY <1>5, <1>9 DEF JournalInv
  <2>2. pending = {} /\ \A j \in jobs : j.kind = "upstream" /\ j.outcome \notin {"moved", "stopped"}
    BY <1>2 DEF UndoInv, JobsInv
  <2>3. JobInv' /\ PendingInv'
    BY <2>2, <1>1 DEF JobInv, PendingInv
  <2>4. Tells(undo.entries, head)
    BY <2>1, <2>2, <1>1, <1>3 DEF HeadInv, RestInv
  <2>5. RestInv'
    BY <2>4, <1>4, <1>5 DEF RestInv, Tells, Upto, Walk
  <2>6. WorkerInv'
    BY <1>4 DEF WorkerInv
  <2> QED  BY <2>3, <2>5, <2>6 DEF HeadInv
<1> QED  BY <1>6, <1>7, <1>8, <1>9 DEF JournalInv

LEMMA JournalSteps ==
  ASSUME Careful, JournalInv, [Next]_vars
  PROVE  JournalInv'
<1>1. CASE User
  BY <1>1, JournalStarts, UndoStarts DEF User
<1>2. ASSUME NEW j \in jobs, Works(j) \/ Apply(j) PROVE JournalInv'
  BY <1>2, JournalWorks, JournalApplies
<1>3. CASE Flush \/ Probe \/ ApplyProbe
  BY <1>3, JournalFlushes, JournalProbes
<1>4. CASE UndoSteps
  BY <1>4, UndoReading, UndoRunning, UndoSettling, UndoApplies DEF UndoSteps
<1>5. CASE OutsiderMoves \/ OutsiderStops \/ Continue \/ Abort \/ UNCHANGED vars
  <2>1. undo' = undo \/ (undo.at = "run" /\ (OutsiderMoves \/ Continue))
    BY <1>5 DEF OutsiderMoves, OutsiderStops, Continue, Abort, Crosses, vars, work
  <2> QED  BY <1>5, <2>1, JournalStrays, JournalCrosses
<1> QED  BY <1>1, <1>2, <1>3, <1>4, <1>5 DEF Next

LEMMA JournalInit ==
  ASSUME Init
  PROVE  JournalInv
<1>1. /\ head = 0 /\ made = 0 /\ stopped = FALSE /\ strayed = FALSE /\ journal = <<>> /\ saved = <<>>
      /\ waiting = <<>> /\ given = {} /\ jobs = {} /\ started = 0 /\ undo = NoUndo
      /\ pending = {} /\ finishing = FALSE
  BY DEF Init
<1>2. <<>> \in Seq(Entries) /\ Len(<<>>) = 0
  OBVIOUS
<1>3. ~undo_busy /\ Held = <<>> /\ undo.at # "settle"
  BY <1>1 DEF undo_busy, Held, NoUndo
<1>4. Upto(<<>>, 0) /\ 0 \in 0 .. Len(<<>>)
  BY <1>2 DEF Upto
<1>5. Tells(<<>>, 0)
  <2> DEFINE p == [n \in 0 .. Len(<<>>) |-> 0]
  <2>1. p \in [0 .. Len(<<>>) -> Nat] /\ p[0] = 0
    BY <1>2
  <2> HIDE DEF p
  <2>2. Walk(<<>>, p)
    BY <1>2 DEF Walk
  <2> QED  BY <2>1, <2>2, <1>4 DEF Tells
<1>6. JournalTypes
  BY <1>1, <1>2, <1>3 DEF JournalTypes
<1>7. JobsInv
  BY <1>1 DEF JobsInv
<1>8. UndoInv
  BY <1>1, <1>2, <1>3, <1>4 DEF UndoInv
<1>9. HeadInv
  BY <1>1, <1>3, <1>5 DEF HeadInv, RestInv, JobInv, PendingInv, WorkerInv
<1> QED  BY <1>6, <1>7, <1>8, <1>9 DEF JournalInv

(* As long as the user starts nothing while something else is under way,    *)
(* the journal, wherever it is, tells where the repository is or, during a  *)
(* job, where it was (run_undo_redo, apply_undo_redo, record_journal).      *)
THEOREM JournalInvariance == ASSUME Careful PROVE Spec => []JournalInv
<1>1. Init => JournalInv
  BY JournalInit
<1>2. JournalInv /\ [Next]_vars => JournalInv'
  BY JournalSteps
<1> QED  BY <1>1, <1>2, PTL DEF Spec

(* Every entry the journal was given and had to keep is in the file, or     *)
(* waits for an undo to be over; and the file is the journal                *)
(* (Journal::record, save and sync_tick).                                   *)
THEOREM HistoryKept == ASSUME Careful PROVE Spec => []HistoryIsKept
<1>1. JournalInv => HistoryIsKept
  BY DEF JournalInv, UndoInv, HistoryIsKept
<1> QED  BY <1>1, JournalInvariance, PTL

(* Undone entries are the newest, and while nothing is under way HEAD is    *)
(* where the journal says, so undo and redo can both go on from there       *)
(* (Journal::record, undo, redo and settle).                                *)
THEOREM JournalTold == ASSUME Careful PROVE Spec => []JournalTellsHead
<1>1. JournalInv => JournalTellsHead
  <2> SUFFICES ASSUME JournalInv PROVE JournalTellsHead
    OBVIOUS
  <2>1. UndoInv /\ journal \in Seq(Entries)
    BY DEF JournalInv, JournalTypes
  <2>2. RedoTailIsLast
    <3>1. CASE undo_busy
      <4>1. Len(journal) = 0
        BY <3>1, <2>1 DEF UndoInv
      <4> QED  BY <4>1 DEF RedoTailIsLast
    <3>2. CASE ~undo_busy
      <4>1. PICK d \in 0 .. Len(journal) : Upto(journal, d)
        BY <3>2, <2>1 DEF UndoInv, Held
      <4> QED  BY <4>1, <2>1 DEF RedoTailIsLast, Upto
    <3> QED  BY <3>1, <3>2
  <2>3. ASSUME Quiet PROVE Tells(journal, head)
    <3>1. /\ jobs = {} /\ ~undo_busy /\ pending = {} /\ ~strayed
      BY <2>3 DEF Quiet
    <3>2. undo.at # "settle" /\ Held = journal
      BY <3>1 DEF undo_busy, NoUndo, Held
    <3>3. RestInv
      BY <3>1 DEF JournalInv, HeadInv
    <3> QED  BY <3>1, <3>2, <3>3 DEF RestInv
  <2>4. HeadIsJournaled
    <3> SUFFICES ASSUME Quiet
                 PROVE  /\ \A i \in Movers(FALSE) :
                             (\A k \in Movers(FALSE) : k <= i) => head = journal[i].after
                        /\ \A i \in Movers(TRUE) :
                             (\A k \in Movers(TRUE) : i <= k) => head = journal[i].before
      BY DEF HeadIsJournaled
    <3>1. \A k \in 1 .. Len(journal) : journal[k] \in Entries
      BY <2>1
    <3>2. \A k \in 1 .. Len(journal) : journal[k].moves \in BOOLEAN /\ journal[k].undone \in BOOLEAN
      BY <3>1, EntryFields
    <3>3. /\ Movers(FALSE) = {k \in 1 .. Len(journal) : journal[k].moves /\ ~journal[k].undone}
          /\ Movers(TRUE) = {k \in 1 .. Len(journal) : journal[k].moves /\ journal[k].undone}
      BY <3>2 DEF Movers
    <3>4. /\ \A i \in 1 .. Len(journal) :
               /\ journal[i].moves /\ ~journal[i].undone
               /\ \A k \in 1 .. Len(journal) : journal[k].moves /\ ~journal[k].undone => k <= i
               => head = journal[i].after
          /\ \A i \in 1 .. Len(journal) :
               /\ journal[i].moves /\ journal[i].undone
               /\ \A k \in 1 .. Len(journal) : journal[k].moves /\ journal[k].undone => i <= k
               => head = journal[i].before
      BY <2>1, <2>3, TellsWhere
    <3> QED  BY <3>3, <3>4
  <2> QED  BY <2>2, <2>4 DEF JournalTellsHead
<1> QED  BY <1>1, JournalInvariance, PTL

(* Whoever had moved the repository before, a worker about to run an entry  *)
(* is where that entry is, unless someone moved HEAD under it.              *)
GuardInv == undo.at = "run" => undo.crossed \/ head = From(undo)

LEMMA GuardRests ==
  ASSUME GuardInv, undo' = undo, undo.at = "run" => head' = head
  PROVE  GuardInv'
BY DEF GuardInv, From, UndoEntry, Index, Peek, PeekUndo, PeekRedo, UndoIndices, IsDone

LEMMA GuardSteps ==
  ASSUME Careful, JournalInv, GuardInv, [Next]_vars
  PROVE  GuardInv'
<1>1. JournalTypes /\ UndoInv
  BY DEF JournalInv
<1>2. CASE User
  <2>1. (undo' = undo /\ head' = head) \/ undo'.at = "read"
    BY <1>2 DEF User, StartOp, StartOwn, StartSync, StartUpstream, Start, StartUndo, repo
  <2> QED  BY <2>1, GuardRests DEF GuardInv
<1>3. ASSUME NEW j \in jobs, Works(j) \/ Apply(j) PROVE GuardInv'
  <2>1. undo' = undo
    BY <1>3 DEF Works, Reads, Runs, Rereads, Finishes, Apply, ApplyRecorded, ApplySync, ApplyFinished, Applies
  <2>2. undo.at = "run" => j.kind = "upstream"
    BY <1>1 DEF UndoInv, undo_busy, NoUndo
  <2>3. undo.at = "run" => head' = head
    BY <1>3, <2>2 DEF Works, Reads, Runs, Moves, Leaves, Stops, Rereads, Finishes, Apply, ApplyRecorded,
                      ApplySync, ApplyFinished, Applies, repo
  <2> QED  BY <2>1, <2>3, GuardRests
<1>4. CASE Flush \/ Probe \/ ApplyProbe
  <2>1. undo' = undo /\ head' = head
    BY <1>4 DEF Flush, Probe, ApplyProbe, repo, work
  <2> QED  BY <2>1, GuardRests
<1>5. CASE UndoReads
  <2> DEFINE a == IF Permitted(undo, head) THEN "run" ELSE "done"
             u == [undo EXCEPT !.now = head, !.at = a]
  <2>1. undo.at = "read" /\ undo' = u /\ head' = head
    BY <1>5 DEF UndoReads, repo
  <2>2. undo \in Undoing
    BY <1>1, <2>1 DEF JournalTypes, undo_busy, NoUndo
  <2>3. u.at = a /\ u.entries = undo.entries /\ u.is_undo = undo.is_undo
    BY <2>2 DEF Undoing
  <2> HIDE DEF u
  <2>4. u.at = "run" => head = From(undo)
    BY <2>3 DEF Permitted
  <2>5. From(undo)' = From(undo)
    BY <2>1, <2>3 DEF From, UndoEntry, Index, Peek, PeekUndo, PeekRedo, UndoIndices, IsDone
  <2> QED  BY <2>1, <2>4, <2>5 DEF GuardInv
<1>6. CASE UndoRuns \/ UndoSettles \/ ApplyUndo
  <2>1. undo'.at \in {"settle", "done", "none"}
    <3>1. undo.at \in {"run", "settle", "done"}
      BY <1>6 DEF UndoRuns, UndoSettles, ApplyUndo
    <3>2. undo \in Undoing
      BY <1>1, <3>1 DEF JournalTypes, undo_busy, NoUndo
    <3>3. ASSUME UndoRuns PROVE undo'.at = "settle"
      <4>1. PICK failed \in BOOLEAN : PlanRuns(failed)
        BY <3>3 DEF UndoRuns
      <4> QED  BY <4>1, <3>2 DEF PlanRuns, Undoing
    <3>4. ASSUME UndoSettles PROVE undo'.at = "done"
      <4> DEFINE x == IF Landed(undo, head) THEN [undo.entries EXCEPT ![Index(undo)].undone = undo.is_undo]
                      ELSE undo.entries
      <4>1. undo' = [undo EXCEPT !.at = "done", !.entries = x]
        BY <3>4 DEF UndoSettles
      <4> HIDE DEF x
      <4> QED  BY <4>1, <3>2 DEF Undoing
    <3>5. ASSUME ApplyUndo PROVE undo'.at = "none"
      BY <3>5 DEF ApplyUndo, NoUndo
    <3> QED  BY <1>6, <3>3, <3>4, <3>5
  <2> QED  BY <2>1 DEF GuardInv
<1>7. CASE OutsiderMoves \/ Continue
  <2>1. CASE undo.at = "run"
    <3>1. undo \in Undoing
      BY <1>1, <2>1 DEF JournalTypes, undo_busy, NoUndo
    <3>2. undo' = [undo EXCEPT !.crossed = TRUE]
      BY <1>7, <2>1 DEF OutsiderMoves, Continue, Crosses
    <3> QED  BY <3>1, <3>2 DEF Undoing, GuardInv
  <2>2. CASE undo.at # "run"
    BY <1>7, <2>2 DEF OutsiderMoves, Continue, Crosses, GuardInv
  <2> QED  BY <2>1, <2>2
<1>8. CASE OutsiderStops \/ Abort \/ UNCHANGED vars
  <2>1. undo' = undo /\ head' = head
    BY <1>8 DEF OutsiderStops, Abort, vars, work, repo
  <2> QED  BY <2>1, GuardRests
<1> QED  BY <1>2, <1>3, <1>4, <1>5, <1>6, <1>7, <1>8 DEF Next, UndoSteps

(* Whatever others did to the repository before, an undo or redo moves HEAD *)
(* only away from where the entry it takes back left it; only a move under  *)
(* the worker's feet, after the guard, escapes it (Journal::undo, redo and  *)
(* mismatch, run_plan).                                                     *)
THEOREM UndoOne == ASSUME Careful PROVE Spec => UndoTakesBackOne
<1>1. Init => GuardInv
  BY DEF Init, NoUndo, GuardInv
<1>2. JournalInv /\ GuardInv /\ [Next]_vars => GuardInv'
  BY GuardSteps
<1>3. GuardInv /\ [Next]_vars => [UndoTakesBackOneStep]_vars
  BY DEF GuardInv, UndoTakesBackOneStep
<1> QED  BY <1>1, <1>2, <1>3, JournalInvariance, PTL DEF Spec, UndoTakesBackOne

=============================================================================
