--------------------------- MODULE HookQueueProofs ---------------------------
(***************************************************************************)
(* Proofs about HookQueue for any number of events, appends, drains and    *)
(* files, however they interleave and whichever are killed.                *)
(*                                                                         *)
(* The argument: an append holds the lock from opening the queue to        *)
(* writing its line, and a drain renames the queue only while nobody holds *)
(* it (LockInv), so a file that has been renamed is never written again    *)
(* and what a drain read is still in the file when it removes it           *)
(* (ReadInv).  A line is therefore always in exactly one place (LinesInv). *)
(*                                                                         *)
(* While no two drains have overlapped, what a drain has left to take is   *)
(* what the directory holds, oldest first (OrderInv), so its hand, the     *)
(* leftovers and the queue in a row are what HookFifo has pending: taking  *)
(* or renaming a file only moves the border between them.                  *)
(***************************************************************************)
EXTENDS HookQueue, SequenceTheorems, FiniteSetTheorems, TLAPS

DrainerStates ==
  [at : {"idle", "take", "remove", "print"}, todo : Seq(Files), read : Seq(Events),
   hand : Seq(Events), last : BOOLEAN]

TypeOK ==
  /\ lock \in Writers \cup {Nobody}
  /\ content \in [Files -> Seq(Events)]
  /\ queue \in Files \cup {NoFile}
  /\ draining \in Seq(Files)
  /\ writer \in [Writers -> [event : SUBSET Events, file : Files \cup {NoFile}]]
  /\ drainer \in [Drainers -> DrainerStates]
  /\ \A d \in Drainers : /\ drainer[d].at = "remove" => drainer[d].todo # <<>>
                         /\ drainer[d].at = "idle" => drainer[d] = Idle
  /\ appended \in Seq(Events) /\ printed \in Seq(Events)

(* Whoever has opened the queue holds the lock, the queue is still that     *)
(* file, and what it is about to write has not been written.                *)
LockInv ==
  \A w \in Writers : Writing(w) =>
    /\ lock = w
    /\ writer[w].file = queue
    /\ \E e \in Events : writer[w].event = {e} /\ e \notin Range(appended)

(* The queue is no leftover, and no drain has it among those it takes.      *)
QueueInv ==
  /\ IsInjective(draining)
  /\ queue \notin Range(draining)
  /\ \A d \in Drainers : queue \notin Range(drainer[d].todo)

(* What a drain read is what it removes, if it is still there.              *)
ReadInv ==
  \A d \in Drainers :
    drainer[d].at = "remove" /\ Head(drainer[d].todo) \in Range(draining) =>
      drainer[d].read = content[Head(drainer[d].todo)]

OnDiskFiles == Range(draining) \cup ({queue} \cap Files)
Lines(f) == Range(content[f])
Hand(d) == Range(drainer[d].hand)

(* A line is in one place, and once there.                                  *)
OnceInv ==
  /\ IsInjective(printed)
  /\ \A f \in OnDiskFiles : IsInjective(content[f]) /\ Lines(f) \cap Range(printed) = {}
  /\ \A f, g \in OnDiskFiles : f # g => Lines(f) \cap Lines(g) = {}
  /\ \A d \in Drainers : IsInjective(drainer[d].hand) /\ Hand(d) \cap Range(printed) = {}
  /\ \A c, d \in Drainers : c # d => Hand(c) \cap Hand(d) = {}
  /\ \A d \in Drainers, f \in OnDiskFiles : Hand(d) \cap Lines(f) = {}

(* The lines anywhere are those appended.                                   *)
LinesInv ==
  /\ Range(printed) \subseteq Range(appended)
  /\ \A f \in OnDiskFiles : Lines(f) \subseteq Range(appended)
  /\ \A d \in Drainers : Hand(d) \subseteq Range(appended)
  /\ \A e \in Range(appended) :
       \/ \E f \in OnDiskFiles : e \in Lines(f)
       \/ \E d \in Drainers : e \in Hand(d)
       \/ e \in Range(printed) \cup discarded \cup lost

IInv == TypeOK /\ LockInv /\ QueueInv /\ ReadInv /\ OnceInv /\ LinesInv

USE NobodyAssumption, NoFileAssumption

-----------------------------------------------------------------------------
(* Sequences without repetition.                                            *)

LEMMA InjectiveGrows ==
  ASSUME NEW S, NEW s \in Seq(S)
  PROVE  /\ \A e \in S :
              /\ Range(Append(s, e)) = Range(s) \cup {e}
              /\ IsInjective(s) /\ e \notin Range(s) => IsInjective(Append(s, e))
         /\ \A t \in Seq(S) :
              /\ Range(s \o t) = Range(s) \cup Range(t)
              /\ IsInjective(s) /\ IsInjective(t) /\ Range(s) \cap Range(t) = {}
                   => IsInjective(s \o t)
<1>1. \A e \in S : /\ Range(Append(s, e)) = Range(s) \cup {e}
                   /\ IsInjective(s) /\ e \notin Range(s) => IsInjective(Append(s, e))
  BY DEF Range, IsInjective
<1>2. \A t \in Seq(S) : Range(s \o t) = Range(s) \cup Range(t)
  BY RangeConcatenation
<1>3. \A t \in Seq(S) : IsInjective(s) /\ IsInjective(t) /\ Range(s) \cap Range(t) = {}
                          => IsInjective(s \o t)
  BY DEF Range, IsInjective
<1> QED
  BY <1>1, <1>2, <1>3

LEMMA InjectiveRemoveAt ==
  ASSUME NEW S, NEW s \in Seq(S), NEW i \in DOMAIN s, IsInjective(s)
  PROVE  /\ RemoveAt(s, i) \in Seq(S)
         /\ IsInjective(RemoveAt(s, i))
         /\ Range(RemoveAt(s, i)) = Range(s) \ {s[i]}
<1> DEFINE a == SubSeq(s, 1, i - 1)
           b == SubSeq(s, i + 1, Len(s))
           r == RemoveAt(s, i)
<1>1. i \in 1 .. Len(s) /\ Len(s) \in Nat /\ DOMAIN s = 1 .. Len(s)
  BY LenProperties
<1>2. a \in Seq(S) /\ Len(a) = i - 1 /\ \A k \in 1 .. i - 1 : a[k] = s[k]
  BY <1>1
<1>3. b \in Seq(S) /\ Len(b) = Len(s) - i /\ \A k \in 1 .. Len(s) - i : b[k] = s[i + k]
  BY <1>1
<1>4. /\ r \in Seq(S) /\ DOMAIN r = 1 .. Len(s) - 1
      /\ \A k \in 1 .. Len(s) - 1 : r[k] = IF k < i THEN s[k] ELSE s[k + 1]
  <2>1. r = a \o b
    BY DEF RemoveAt
  <2> HIDE DEF r, a, b
  <2>2. /\ r \in Seq(S) /\ Len(r) = Len(a) + Len(b)
        /\ \A k \in 1 .. Len(a) + Len(b) : r[k] = IF k <= Len(a) THEN a[k] ELSE b[k - Len(a)]
    BY <1>2, <1>3, <2>1, ConcatProperties
  <2>3. Len(r) = Len(s) - 1 /\ DOMAIN r = 1 .. Len(s) - 1
    BY <1>1, <1>2, <1>3, <2>2, LenProperties
  <2>4. ASSUME NEW k \in 1 .. Len(s) - 1 PROVE r[k] = IF k < i THEN s[k] ELSE s[k + 1]
    <3>1. r[k] = IF k <= i - 1 THEN a[k] ELSE b[k - (i - 1)]
      BY <1>1, <1>2, <1>3, <2>2
    <3>2. CASE k < i
      BY <1>1, <1>2, <3>1, <3>2
    <3>3. CASE k >= i
      <4>1. k - (i - 1) \in 1 .. Len(s) - i /\ i + (k - (i - 1)) = k + 1
        BY <1>1, <3>3
      <4> QED
        BY <1>1, <1>3, <3>1, <3>3, <4>1
    <3> QED
      BY <1>1, <3>2, <3>3
  <2> QED
    BY <2>2, <2>3, <2>4
<1> HIDE DEF r, a, b
<1>5. IsInjective(r)
  <2> SUFFICES ASSUME NEW k \in 1 .. Len(s) - 1, NEW l \in 1 .. Len(s) - 1, r[k] = r[l]
               PROVE  k = l
    BY <1>4 DEF IsInjective
  <2> DEFINE from(n) == IF n < i THEN n ELSE n + 1
  <2>1. /\ from(k) \in DOMAIN s /\ from(l) \in DOMAIN s
        /\ r[k] = s[from(k)] /\ r[l] = s[from(l)]
    BY <1>1, <1>4
  <2>2. from(k) = from(l)
    BY ONLY <2>1, r[k] = r[l], IsInjective(s) DEF IsInjective
  <2> QED
    BY <1>1, <2>2
<1>6. \A x \in Range(r) : x \in Range(s) /\ x # s[i]
  BY <1>1, <1>4 DEF Range, IsInjective
<1>7. ASSUME NEW x \in Range(s), x # s[i] PROVE x \in Range(r)
  <2>1. PICK k \in 1 .. Len(s) : x = s[k] /\ k # i
    BY <1>1, <1>7 DEF Range
  <2>2. CASE k < i
    BY <1>1, <1>4, <2>1, <2>2 DEF Range
  <2>3. CASE k > i
    <3>1. k - 1 \in 1 .. Len(s) - 1 /\ r[k - 1] = s[k]
      BY <1>1, <1>4, <2>1, <2>3
    <3> QED
      BY <1>4, <2>1, <3>1 DEF Range
  <2> QED
    BY <1>1, <2>1, <2>2, <2>3
<1> QED
  BY <1>4, <1>5, <1>6, <1>7 DEF r

-----------------------------------------------------------------------------
(* Every value is in its range.                                             *)
THEOREM TypeCorrect == Spec => []TypeOK
<1>1. Init => TypeOK
  BY DEF Init, TypeOK, DrainerStates, Idle, NotWriting
<1>2. TypeOK /\ [Next]_vars => TypeOK'
  <2> SUFFICES ASSUME TypeOK, [Next]_vars PROVE TypeOK'
    OBVIOUS
  <2> USE DEF TypeOK, files
  <2>1. ASSUME NEW w \in Writers, NEW e \in Events, Open(w, e) PROVE TypeOK'
    <3>1. CASE queue = NoFile
      <4>1. NewFile \in Files
        BY <2>1, <3>1 DEF Open, NewFile
      <4>2. queue' = NewFile /\ content' = [content EXCEPT ![NewFile] = <<>>]
        BY <2>1, <3>1 DEF Open
      <4>3. <<>> \in Seq(Events)
        OBVIOUS
      <4>4. queue' \in Files /\ content' \in [Files -> Seq(Events)]
        BY <4>1, <4>2, <4>3
      <4> QED
        BY <2>1, <4>4 DEF Open
    <3>2. CASE queue # NoFile
      BY <2>1, <3>2 DEF Open
    <3> QED
      BY <3>1, <3>2
  <2>2. ASSUME NEW w \in Writers, Write(w) PROVE TypeOK'
    BY <2>2 DEF Write, Writing, NotWriting
  <2>3. ASSUME NEW w \in Writers, WriterCrash(w) PROVE TypeOK'
    BY <2>3 DEF WriterCrash, NotWriting
  <2>4. /\ Idle \in DrainerStates /\ \A d \in Drainers : drainer[d] \in DrainerStates
        /\ <<>> \in Seq(Events)
    BY DEF Idle, DrainerStates
  <2>5. ASSUME NEW d \in Drainers, NEW next \in DrainerStates, Becomes(d, next),
               next.at = "remove" => next.todo # <<>>, next.at = "idle" => next = Idle,
               UNCHANGED <<lock, content, queue>>, draining' \in Seq(Files),
               printed' \in Seq(Events)
        PROVE  TypeOK'
    BY <2>5 DEF Becomes
  <2>6. ASSUME NEW d \in Drainers, Start(d) \/ Fails(d) \/ DrainerCrash(d) PROVE TypeOK'
    <3>1. CASE Start(d)
      <4>1. [Idle EXCEPT !.at = "take", !.todo = draining] \in DrainerStates
        BY <2>4 DEF DrainerStates
      <4> QED
        BY <2>5, <3>1, <4>1 DEF Start, Leftovers, Idle
    <3>2. CASE Fails(d)
      BY <2>4, <2>5, <3>2 DEF Fails, Idle
    <3>3. CASE DrainerCrash(d)
      BY <2>4, <3>3 DEF DrainerCrash, Idle
    <3> QED
      BY <2>6, <3>1, <3>2, <3>3
  <2>7. ASSUME NEW d \in Drainers, Read(d) \/ RemoveFile(d), ~Fails(d) PROVE TypeOK'
    <3> DEFINE me == drainer[d]
               f == Head(me.todo)
               i == CHOOSE i \in DOMAIN draining : draining[i] = f
    <3>1. me \in DrainerStates /\ me.todo \in Seq(Files) /\ me.todo # <<>>
      BY <2>4, <2>7 DEF Read, RemoveFile, DrainerStates
    <3>2. f \in Files /\ Tail(me.todo) \in Seq(Files) /\ me.hand \o me.read \in Seq(Events)
      BY <3>1 DEF DrainerStates
    <3>3. CASE Read(d)
      <4>1. Becomes(d, [me EXCEPT !.at = "remove", !.read = content[f]])
        BY <2>7, <3>3 DEF Read
      <4>2. [me EXCEPT !.at = "remove", !.read = content[f]] \in DrainerStates
        BY <3>1, <3>2 DEF DrainerStates
      <4> QED
        BY <2>5, <2>7, <3>1, <3>3, <4>1, <4>2 DEF Read, DrainerStates
    <3>4. CASE RemoveFile(d)
      <4> DEFINE next == [me EXCEPT !.at = "take", !.todo = Tail(@), !.hand = @ \o me.read,
                                    !.read = <<>>]
      <4>1. /\ Becomes(d, next) /\ f \in Range(draining)
            /\ draining' = RemoveAt(draining, i) /\ UNCHANGED <<lock, content, queue, printed>>
        BY <2>7, <3>4 DEF RemoveFile
      <4>2. next \in DrainerStates /\ next.at = "take"
        BY <2>4, <3>1, <3>2 DEF DrainerStates
      <4>3. draining' \in Seq(Files)
        <5>1. i \in 1 .. Len(draining)
          BY <4>1 DEF Range
        <5> HIDE DEF i
        <5>2. SubSeq(draining, 1, i - 1) \in Seq(Files) /\ SubSeq(draining, i + 1, Len(draining)) \in Seq(Files)
          BY <5>1
        <5> QED
          BY <4>1, <5>2 DEF RemoveAt
      <4> HIDE DEF next
      <4> QED
        BY <2>5, <4>1, <4>2, <4>3
    <3> QED
      BY <2>7, <3>3, <3>4
  <2>8. ASSUME NEW d \in Drainers, Rename(d) PROVE TypeOK'
    <3> DEFINE me == drainer[d]
    <3>1. CASE queue = NoFile
      <4>1. [me EXCEPT !.at = "print"] \in DrainerStates
        BY <2>4 DEF DrainerStates
      <4> QED
        BY <2>4, <2>5, <2>8, <3>1, <4>1 DEF Rename, DrainerStates
    <3>2. CASE queue # NoFile
      <4>1. <<queue>> \in Seq(Files) /\ Append(draining, queue) \in Seq(Files)
        BY <3>2
      <4>2. [me EXCEPT !.todo = <<queue>>, !.last = TRUE] \in DrainerStates
        BY <2>4, <4>1 DEF DrainerStates
      <4> DEFINE next == [me EXCEPT !.todo = <<queue>>, !.last = TRUE]
      <4>3. /\ Becomes(d, next) /\ next.at = "take"
            /\ queue' = NoFile /\ draining' = Append(draining, queue)
            /\ UNCHANGED <<lock, content, printed>>
        BY <2>4, <2>8, <3>2 DEF Rename, DrainerStates
      <4> HIDE DEF next
      <4> QED
        BY <4>1, <4>2, <4>3 DEF Becomes, next
    <3> QED
      BY <3>1, <3>2
  <2>9. ASSUME NEW d \in Drainers, PrintLines(d) PROVE TypeOK'
    <3>1. printed \o drainer[d].hand \in Seq(Events)
      BY <2>4 DEF DrainerStates
    <3> QED
      BY <2>4, <2>5, <2>9, <3>1 DEF PrintLines, Idle
  <2>10. CASE UNCHANGED vars
    BY <2>10 DEF vars
  <2> QED
    BY <2>1, <2>2, <2>3, <2>6, <2>7, <2>8, <2>9, <2>10 DEF Next, Drain
<1> QED
  BY <1>1, <1>2, PTL DEF Spec

-----------------------------------------------------------------------------
(* What the steps do to where lines are.                                    *)

(* The invariant, without the lines: it speaks of the lock and of names.    *)
LEMMA NamesStep ==
  ASSUME TypeOK, TypeOK', LockInv, QueueInv, ReadInv, [Next]_vars
  PROVE  LockInv' /\ QueueInv' /\ ReadInv'
<1> USE DEF LockInv, QueueInv, ReadInv, Writing, files
<1>1. /\ \A d \in Drainers : drainer[d] \in DrainerStates
      /\ \A d \in Drainers : drainer[d].todo \in Seq(Files)
  BY DEF TypeOK, DrainerStates
<1>a. ASSUME NEW d \in Drainers, drainer[d].at = "remove"
      PROVE  Head(drainer[d].todo) \in Files \ {queue}
  BY <1>1, <1>a DEF TypeOK, Range
<1>b. ASSUME NEW d \in Drainers, NEW s, Becomes(d, s)
      PROVE  /\ drainer'[d] = s /\ UNCHANGED <<writer, appended>>
             /\ \A c \in Drainers : c # d => drainer'[c] = drainer[c]
  BY <1>b DEF Becomes, TypeOK
<1>2. \A w, v \in Writers : Writing(w) /\ Writing(v) => w = v
  OBVIOUS
<1>3. ASSUME NEW w \in Writers, NEW e \in Events, Open(w, e) PROVE LockInv' /\ QueueInv' /\ ReadInv'
  <2>1. \A v \in Writers : ~Writing(v)
    BY <1>3 DEF Open, Locked
  <2>2. /\ writer'[w] = [event |-> {e}, file |-> queue'] /\ lock' = w
        /\ \A v \in Writers : v # w => writer'[v] = writer[v]
        /\ UNCHANGED <<draining, drainer, appended>> /\ e \notin Range(appended)
    BY <1>3 DEF Open, TypeOK, Raised
  <2>3. LockInv'
    BY <2>1, <2>2
  <2>4. CASE queue = NoFile
    <3>1. NewFile \in Files /\ FreeFile(NewFile)
      BY <1>3, <2>4 DEF Open, NewFile
    <3>2. queue' = NewFile /\ \A f \in Files : f # NewFile => content'[f] = content[f]
      BY <1>3, <2>4, <3>1 DEF Open, TypeOK
    <3>3. ASSUME NEW d \in Drainers, drainer[d].at = "remove"
          PROVE  Head(drainer[d].todo) \in Files \ {NewFile}
      BY <1>1, <3>1, <3>3 DEF FreeFile, TypeOK, Range
    <3>4. QueueInv'
      BY <2>2, <3>1, <3>2 DEF FreeFile
    <3>5. ReadInv'
      BY <2>2, <3>2, <3>3
    <3> QED
      BY <2>3, <3>4, <3>5
  <2>5. CASE queue # NoFile
    BY <1>3, <2>2, <2>3, <2>5 DEF Open
  <2> QED
    BY <2>4, <2>5
<1>4. ASSUME NEW w \in Writers, Write(w) PROVE LockInv' /\ QueueInv' /\ ReadInv'
  <2>1. \A v \in Writers : v # w => ~Writing(v)
    BY <1>2, <1>4 DEF Write
  <2>2. /\ writer'[w] = NotWriting /\ \A v \in Writers : v # w => writer'[v] = writer[v]
        /\ UNCHANGED <<queue, draining, drainer>>
        /\ \A f \in Files : f # queue => content'[f] = content[f]
    BY <1>4 DEF Write, TypeOK
  <2>3. LockInv'
    BY <2>1, <2>2 DEF NotWriting
  <2>4. QueueInv'
    BY <2>2
  <2>5. ReadInv'
    BY <1>a, <2>2
  <2> QED
    BY <2>3, <2>4, <2>5
<1>5. ASSUME NEW w \in Writers, WriterCrash(w) PROVE LockInv' /\ QueueInv' /\ ReadInv'
  <2>1. \A v \in Writers : v # w => ~Writing(v)
    BY <1>2, <1>5 DEF WriterCrash
  <2> QED
    BY <1>5, <2>1 DEF WriterCrash, NotWriting, TypeOK
<1>6. ASSUME NEW d \in Drainers, DrainerCrash(d) \/ Fails(d) \/ Start(d) \/ PrintLines(d)
      PROVE  LockInv' /\ QueueInv' /\ ReadInv'
  <2>1. /\ UNCHANGED <<lock, content, queue, draining, writer, appended>>
        /\ \A c \in Drainers : c # d => drainer'[c] = drainer[c]
        /\ drainer'[d].at # "remove" /\ drainer'[d].todo \in {<<>>, draining}
    <3>1. CASE DrainerCrash(d)
      BY <3>1 DEF DrainerCrash, Idle, TypeOK
    <3>2. CASE Start(d)
      <4> DEFINE next == [Idle EXCEPT !.at = "take", !.todo = draining]
      <4>1. next.at = "take" /\ next.todo = draining
        BY DEF Idle
      <4>2. Becomes(d, next) /\ UNCHANGED files
        BY <3>2 DEF Start, Leftovers
      <4> HIDE DEF next
      <4> QED
        BY <1>b, <4>1, <4>2
    <3>3. CASE Fails(d) \/ PrintLines(d)
      <4>1. Becomes(d, Idle) /\ UNCHANGED files
        BY <3>3 DEF Fails, PrintLines
      <4> QED
        BY <1>b, <4>1 DEF Idle
    <3> QED
      BY <1>6, <3>1, <3>2, <3>3
  <2>2. Range(<<>>) = {}
    BY DEF Range
  <2> QED
    BY <2>1, <2>2
<1>7. ASSUME NEW d \in Drainers, Read(d), ~Fails(d) PROVE LockInv' /\ QueueInv' /\ ReadInv'
  <2>1. /\ UNCHANGED <<lock, content, queue, draining, writer, appended>>
        /\ \A c \in Drainers : c # d => drainer'[c] = drainer[c]
        /\ drainer'[d] = [drainer[d] EXCEPT !.at = "remove", !.read = content[Head(drainer[d].todo)]]
    BY <1>7 DEF Read, Becomes, TypeOK
  <2>2. drainer'[d].todo = drainer[d].todo /\ drainer'[d].read = content[Head(drainer[d].todo)]
    BY <1>1, <2>1 DEF DrainerStates
  <2> QED
    BY <2>1, <2>2
<1>8. ASSUME NEW d \in Drainers, RemoveFile(d), ~Fails(d) PROVE LockInv' /\ QueueInv' /\ ReadInv'
  <2> DEFINE f == Head(drainer[d].todo)
             i == CHOOSE i \in DOMAIN draining : draining[i] = f
  <2>1. /\ UNCHANGED <<lock, content, queue, writer, appended>>
        /\ f \in Range(draining) /\ draining' = RemoveAt(draining, i)
        /\ \A c \in Drainers : c # d => drainer'[c] = drainer[c]
        /\ drainer'[d].at = "take" /\ drainer'[d].todo = Tail(drainer[d].todo)
    <3> DEFINE me == drainer[d]
               next == [me EXCEPT !.at = "take", !.todo = Tail(@), !.hand = @ \o me.read,
                                  !.read = <<>>]
    <3>1. /\ Becomes(d, next) /\ f \in Range(draining) /\ draining' = RemoveAt(draining, i)
          /\ UNCHANGED <<lock, content, queue>>
      BY <1>8 DEF RemoveFile
    <3>2. next.at = "take" /\ next.todo = Tail(me.todo)
      BY <1>1 DEF DrainerStates
    <3> HIDE DEF next, i
    <3> QED
      BY <1>b, <3>1, <3>2
  <2>2. i \in DOMAIN draining
    BY <2>1 DEF Range
  <2> HIDE DEF i
  <2>3. IsInjective(draining') /\ Range(draining') \subseteq Range(draining)
    BY <2>1, <2>2, InjectiveRemoveAt DEF TypeOK
  <2>4. Range(Tail(drainer[d].todo)) \subseteq Range(drainer[d].todo)
    BY <1>1, <1>8 DEF RemoveFile, TypeOK, Range
  <2>5. LockInv'
    BY <2>1
  <2>6. QueueInv'
    BY <2>1, <2>3, <2>4
  <2>7. ReadInv'
    BY <2>1, <2>3
  <2> QED
    BY <2>5, <2>6, <2>7
<1>9. ASSUME NEW d \in Drainers, Rename(d) PROVE LockInv' /\ QueueInv' /\ ReadInv'
  <2>1. UNCHANGED <<lock, content>> /\ \A w \in Writers : ~Writing(w)
    BY <1>9 DEF Rename, Locked
  <2>2. CASE queue = NoFile
    <3>1. Becomes(d, [drainer[d] EXCEPT !.at = "print"]) /\ UNCHANGED <<queue, draining>>
      BY <1>9, <2>2 DEF Rename
    <3>2. drainer'[d].at = "print" /\ drainer'[d].todo = drainer[d].todo
      BY <1>1, <1>b, <3>1 DEF DrainerStates
    <3> QED
      BY <1>b, <2>1, <3>1, <3>2
  <2>3. CASE queue # NoFile
    <3> DEFINE next == [drainer[d] EXCEPT !.todo = <<queue>>, !.last = TRUE]
    <3>0. /\ Becomes(d, next) /\ queue' = NoFile /\ draining' = Append(draining, queue)
          /\ drainer[d].at = "take"
      BY <1>9, <2>3 DEF Rename
    <3>a. next.todo = <<queue>> /\ next.at = "take"
      BY <1>1, <3>0 DEF DrainerStates
    <3> HIDE DEF next
    <3>1. /\ queue' = NoFile /\ draining' = Append(draining, queue)
          /\ drainer'[d].todo = <<queue>> /\ drainer'[d].at = "take"
          /\ \A c \in Drainers : c # d => drainer'[c] = drainer[c]
          /\ UNCHANGED <<writer, appended>>
      BY <1>b, <3>0, <3>a
    <3>2. IsInjective(draining') /\ Range(draining') = Range(draining) \cup {queue}
      BY <2>3, <3>1, InjectiveGrows DEF TypeOK
    <3>3. \A g \in Seq(Files) : NoFile \notin Range(g)
      BY DEF Range
    <3>4. LockInv'
      BY <2>1, <3>1
    <3>5. QueueInv'
      BY <3>1, <3>2, <3>3 DEF TypeOK, DrainerStates
    <3>6. ASSUME NEW c \in Drainers, drainer[c].at = "remove" PROVE Head(drainer[c].todo) # queue
      BY <1>1, <3>6 DEF TypeOK, Range
    <3>7. ReadInv'
      BY <2>1, <3>1, <3>2, <3>6
    <3> QED
      BY <3>4, <3>5, <3>7
  <2> QED
    BY <2>2, <2>3
<1>10. CASE UNCHANGED vars
  BY <1>10 DEF vars
<1> QED
  BY <1>3, <1>4, <1>5, <1>6, <1>7, <1>8, <1>9, <1>10 DEF Next, Drain

(* Nothing moves: the same files, the same hands.                           *)
LEMMA LinesStay ==
  ASSUME OnceInv, LinesInv, OnDiskFiles' = OnDiskFiles,
         \A f \in OnDiskFiles : content'[f] = content[f],
         \A d \in Drainers : drainer'[d].hand = drainer[d].hand,
         UNCHANGED <<printed, appended, discarded, lost>>
  PROVE  OnceInv' /\ LinesInv'
  BY DEF OnceInv, LinesInv, Lines, Hand

(* The lines are conserved: each action moves them as a whole.              *)
LEMMA LinesStep ==
  ASSUME IInv, TypeOK', [Next]_vars
  PROVE  OnceInv' /\ LinesInv'
<1> USE DEF files
<1>1. /\ \A d \in Drainers : drainer[d] \in DrainerStates
      /\ \A d \in Drainers : drainer[d].hand \in Seq(Events) /\ drainer[d].todo \in Seq(Files)
      /\ \A f \in OnDiskFiles : f \in Files /\ content[f] \in Seq(Events)
      /\ OnceInv /\ LinesInv /\ TypeOK
  BY DEF IInv, TypeOK, DrainerStates, OnDiskFiles, Range
<1>b. ASSUME NEW d \in Drainers, NEW s, Becomes(d, s)
      PROVE  /\ drainer'[d] = s /\ UNCHANGED <<appended, lost>>
             /\ \A c \in Drainers : c # d => drainer'[c] = drainer[c]
  BY <1>1, <1>b DEF Becomes, TypeOK
<1>c. Range(<<>>) = {} /\ IsInjective(<<>>)
  BY DEF Range, IsInjective
<1>2. ASSUME NEW w \in Writers, NEW e \in Events, Open(w, e) PROVE OnceInv' /\ LinesInv'
  <2>1. CASE queue = NoFile
    <3>1. PICK n \in Files :
            /\ n \notin OnDiskFiles /\ queue' = n
            /\ content' = [content EXCEPT ![n] = <<>>]
            /\ UNCHANGED <<draining, drainer, printed, appended, discarded, lost>>
      <4>1. NewFile \in Files /\ FreeFile(NewFile)
        BY <1>2, <2>1 DEF Open, NewFile
      <4> QED
        BY <1>2, <2>1, <4>1 DEF Open, FreeFile, OnDiskFiles
    <3>2. OnDiskFiles' = OnDiskFiles \cup {n}
      BY <2>1, <3>1 DEF OnDiskFiles
    <3>3. Lines(n)' = {} /\ IsInjective(content'[n])
      BY <1>1, <1>c, <3>1 DEF Lines, TypeOK
    <3>4. \A f \in OnDiskFiles : content'[f] = content[f] /\ Lines(f)' = Lines(f)
      BY <1>1, <3>1 DEF Lines, TypeOK
    <3>5. \A d \in Drainers : drainer'[d].hand = drainer[d].hand /\ Hand(d)' = Hand(d)
      BY <3>1 DEF Hand
    <3>6. OnceInv'
      BY <1>1, <3>1, <3>2, <3>3, <3>4, <3>5 DEF OnceInv
    <3>7. LinesInv'
      BY <1>1, <3>1, <3>2, <3>3, <3>4, <3>5 DEF LinesInv
    <3> QED
      BY <3>6, <3>7
  <2>2. CASE queue # NoFile
    BY <1>1, <1>2, <2>2, LinesStay DEF Open, OnDiskFiles
  <2> QED
    BY <2>1, <2>2
<1>3. ASSUME NEW w \in Writers, Write(w) PROVE OnceInv' /\ LinesInv'
  <2>1. PICK e \in Events : writer[w].event = {e} /\ e \notin Range(appended)
    BY <1>3 DEF IInv, LockInv, Write
  <2>2. /\ queue \in Files /\ queue \in OnDiskFiles /\ content[queue] \in Seq(Events)
        /\ content' = [content EXCEPT ![queue] = Append(@, e)]
        /\ appended' = Append(appended, e)
        /\ UNCHANGED <<queue, draining, drainer, printed, discarded, lost>>
    BY <1>1, <1>3, <2>1 DEF IInv, LockInv, Write, Writing, TypeOK, OnDiskFiles
  <2>3. OnDiskFiles' = OnDiskFiles /\ \A d \in Drainers : Hand(d)' = Hand(d)
    BY <2>2 DEF OnDiskFiles, Hand
  <2>4. Lines(queue)' = Lines(queue) \cup {e} /\ Range(appended') = Range(appended) \cup {e}
    BY <1>1, <2>2, InjectiveGrows DEF Lines, TypeOK
  <2>5. /\ e \notin Lines(queue) /\ e \notin Range(printed)
        /\ \A d \in Drainers : e \notin Hand(d)
        /\ \A f \in OnDiskFiles : e \notin Lines(f)
    BY <1>1, <2>1, <2>2 DEF LinesInv
  <2>6. IsInjective(content'[queue])
    BY <1>1, <2>2, <2>5, InjectiveGrows DEF OnceInv, Lines, TypeOK
  <2>7. \A f \in OnDiskFiles : f # queue => content'[f] = content[f] /\ Lines(f)' = Lines(f)
    BY <1>1, <2>2 DEF Lines, TypeOK
  <2>8. OnceInv'
    <3>1. \A f \in OnDiskFiles :
            /\ IsInjective(content'[f]) /\ Lines(f)' \cap Range(printed) = {}
            /\ \A d \in Drainers : Hand(d) \cap Lines(f)' = {}
      BY <1>1, <2>2, <2>4, <2>5, <2>6, <2>7 DEF OnceInv, Lines
    <3>2. ASSUME NEW f \in OnDiskFiles, NEW g \in OnDiskFiles, f # g
          PROVE  Lines(f)' \cap Lines(g)' = {}
      <4>1. Lines(f) \cap Lines(g) = {} /\ e \notin Lines(f) /\ e \notin Lines(g)
        BY <1>1, <2>5, <3>2 DEF OnceInv
      <4>2. Lines(f)' \subseteq Lines(f) \cup {e} /\ Lines(g)' \subseteq Lines(g) \cup {e}
        BY <2>2, <2>4, <2>7 DEF Lines
      <4>3. Lines(f)' = Lines(f) \/ Lines(g)' = Lines(g)
        BY <2>7, <3>2
      <4> QED
        BY <4>1, <4>2, <4>3
    <3> QED
      BY <1>1, <2>2, <2>3, <3>1, <3>2 DEF OnceInv
  <2>9. LinesInv'
    BY <1>1, <2>2, <2>3, <2>4, <2>7 DEF LinesInv
  <2> QED
    BY <2>8, <2>9
<1>4. ASSUME NEW w \in Writers, WriterCrash(w) PROVE OnceInv' /\ LinesInv'
  BY <1>1, <1>4, LinesStay DEF WriterCrash, OnDiskFiles
<1>5. ASSUME NEW d \in Drainers, drainer'[d].hand = drainer[d].hand,
             \A c \in Drainers : c # d => drainer'[c] = drainer[c],
             OnDiskFiles' = OnDiskFiles, UNCHANGED <<content, printed, appended, discarded, lost>>
      PROVE  OnceInv' /\ LinesInv'
  BY <1>1, <1>5, LinesStay
<1>6. ASSUME NEW d \in Drainers, drainer'[d].hand = <<>>,
             \A c \in Drainers : c # d => drainer'[c] = drainer[c],
             UNCHANGED <<content, queue, draining, printed, appended>>,
             discarded' \cup lost' = discarded \cup lost \cup Hand(d)
      PROVE  OnceInv' /\ LinesInv'
  <2>1. /\ Hand(d)' = {} /\ IsInjective(drainer'[d].hand)
        /\ \A c \in Drainers : c # d => drainer'[c].hand = drainer[c].hand /\ Hand(c)' = Hand(c)
        /\ OnDiskFiles' = OnDiskFiles /\ \A f \in OnDiskFiles : Lines(f)' = Lines(f)
    BY <1>c, <1>6 DEF Hand, OnDiskFiles, Lines
  <2>2. OnceInv'
    BY <1>1, <1>6, <2>1 DEF OnceInv
  <2>3. LinesInv'
    BY <1>1, <1>6, <2>1 DEF LinesInv
  <2> QED
    BY <2>2, <2>3
<1>7. ASSUME NEW d \in Drainers, DrainerCrash(d) PROVE OnceInv' /\ LinesInv'
  BY <1>1, <1>6, <1>7 DEF DrainerCrash, Idle, Hand, TypeOK
<1>8. ASSUME NEW d \in Drainers, Fails(d) PROVE OnceInv' /\ LinesInv'
  BY <1>b, <1>6, <1>8 DEF Fails, Idle, Hand
<1>9. ASSUME NEW d \in Drainers, Start(d) PROVE OnceInv' /\ LinesInv'
  <2> DEFINE next == [Idle EXCEPT !.at = "take", !.todo = Leftovers]
  <2>1. Becomes(d, next) /\ UNCHANGED <<files, printed, discarded>>
    BY <1>9 DEF Start
  <2>2. next.hand = <<>> /\ drainer[d].hand = <<>>
    BY <1>1, <1>9 DEF Start, TypeOK, Idle
  <2> HIDE DEF next
  <2> QED
    BY <1>b, <1>5, <2>1, <2>2 DEF OnDiskFiles
<1>10. ASSUME NEW d \in Drainers, Read(d) PROVE OnceInv' /\ LinesInv'
  <2> DEFINE next == [drainer[d] EXCEPT !.at = "remove", !.read = content[Head(drainer[d].todo)]]
  <2>1. CASE Fails(d)
    BY <1>8, <2>1
  <2>2. CASE ~Fails(d)
    <3>1. Becomes(d, next) /\ UNCHANGED <<files, printed, discarded>>
      BY <1>10, <2>2 DEF Read
    <3>2. next.hand = drainer[d].hand
      BY <1>1 DEF DrainerStates
    <3> HIDE DEF next
    <3> QED
      BY <1>b, <1>5, <3>1, <3>2 DEF OnDiskFiles
  <2> QED
    BY <2>1, <2>2
<1>11. ASSUME NEW d \in Drainers, RemoveFile(d) PROVE OnceInv' /\ LinesInv'
  <2> DEFINE me == drainer[d]
             f == Head(me.todo)
             i == CHOOSE i \in DOMAIN draining : draining[i] = f
             next == [me EXCEPT !.at = "take", !.todo = Tail(@), !.hand = @ \o me.read,
                                !.read = <<>>]
  <2>1. CASE Fails(d)
    BY <1>8, <2>1
  <2>2. CASE ~Fails(d)
    <3>1. /\ Becomes(d, next) /\ f \in Range(draining) /\ draining' = RemoveAt(draining, i)
          /\ me.read = content[f]
          /\ UNCHANGED <<lock, content, queue, printed, discarded>>
      BY <1>11, <2>2 DEF RemoveFile, IInv, ReadInv
    <3>2. i \in DOMAIN draining /\ draining[i] = f
      BY <3>1 DEF Range
    <3>3. next.hand = me.hand \o content[f]
      BY <1>1, <3>1 DEF DrainerStates
    <3> HIDE DEF i, next
    <3>4. f \in OnDiskFiles /\ f # queue /\ OnDiskFiles' = OnDiskFiles \ {f}
      <4>1. Range(draining') = Range(draining) \ {f}
        BY <1>1, <3>1, <3>2, InjectiveRemoveAt DEF IInv, QueueInv, TypeOK
      <4> QED
        BY <3>1, <4>1 DEF OnDiskFiles, IInv, QueueInv
    <3>5. /\ IsInjective(me.hand) /\ IsInjective(content[f])
          /\ Hand(d) \cap Lines(f) = {}
      BY <1>1, <3>4 DEF OnceInv
    <3>6. drainer'[d].hand = me.hand \o content[f] /\ Hand(d)' = Hand(d) \cup Lines(f)
      <4>1. drainer'[d].hand = me.hand \o content[f]
        BY <1>b, <3>1, <3>3
      <4>2. Range(me.hand \o content[f]) = Range(me.hand) \cup Range(content[f])
        BY <1>1, <3>4, InjectiveGrows
      <4> QED
        BY <4>1, <4>2 DEF Hand, Lines
    <3>7. IsInjective(drainer'[d].hand)
      BY <1>1, <3>4, <3>5, <3>6, InjectiveGrows DEF Hand, Lines
    <3>8. /\ \A c \in Drainers : c # d => drainer'[c].hand = drainer[c].hand /\ Hand(c)' = Hand(c)
          /\ \A g \in OnDiskFiles : Lines(g)' = Lines(g)
          /\ UNCHANGED <<appended, lost>>
      BY <1>b, <3>1 DEF Hand, Lines
    <3>9. OnceInv'
      <4> HIDE DEF f, me
      <4>1. /\ Lines(f) \cap Range(printed) = {}
            /\ \A c \in Drainers : Hand(c) \cap Lines(f) = {}
            /\ \A g \in OnDiskFiles : g # f => Lines(g) \cap Lines(f) = {}
        BY <1>1, <3>4 DEF OnceInv
      <4>2. /\ Hand(d)' \cap Range(printed) = {}
            /\ \A c \in Drainers : c # d => Hand(c)' \cap Hand(d)' = {}
            /\ \A g \in OnDiskFiles : g # f => Hand(d)' \cap Lines(g)' = {}
        BY <1>1, <3>6, <3>8, <4>1 DEF OnceInv
      <4> QED
        BY <1>1, <3>1, <3>4, <3>7, <3>8, <4>2 DEF OnceInv
    <3>10. LinesInv'
      BY <1>1, <3>1, <3>4, <3>6, <3>8 DEF LinesInv
    <3> QED
      BY <3>9, <3>10
  <2> QED
    BY <2>1, <2>2
<1>12. ASSUME NEW d \in Drainers, Rename(d) PROVE OnceInv' /\ LinesInv'
  <2>1. CASE queue = NoFile
    <3> DEFINE next == [drainer[d] EXCEPT !.at = "print"]
    <3>1. Becomes(d, next) /\ UNCHANGED <<content, queue, draining, printed, discarded>>
      BY <1>12, <2>1 DEF Rename
    <3>2. next.hand = drainer[d].hand
      BY <1>1 DEF DrainerStates
    <3> HIDE DEF next
    <3> QED
      BY <1>b, <1>5, <3>1, <3>2 DEF OnDiskFiles
  <2>2. CASE queue # NoFile
    <3> DEFINE next == [drainer[d] EXCEPT !.todo = <<queue>>, !.last = TRUE]
    <3>1. /\ Becomes(d, next) /\ UNCHANGED <<content, printed, discarded>>
          /\ draining' = Append(draining, queue) /\ queue' = NoFile
      BY <1>12, <2>2 DEF Rename
    <3>2. next.hand = drainer[d].hand
      BY <1>1 DEF DrainerStates
    <3> HIDE DEF next
    <3>3. OnDiskFiles' = OnDiskFiles
      BY <1>1, <2>2, <3>1, InjectiveGrows DEF OnDiskFiles, TypeOK
    <3> QED
      BY <1>b, <1>5, <3>1, <3>2, <3>3
  <2> QED
    BY <2>1, <2>2
<1>13. ASSUME NEW d \in Drainers, PrintLines(d) PROVE OnceInv' /\ LinesInv'
  <2>1. /\ Becomes(d, Idle) /\ printed' = printed \o drainer[d].hand
        /\ UNCHANGED <<files, discarded>>
    BY <1>13 DEF PrintLines
  <2>2. Hand(d) \cap Range(printed) = {} /\ IsInjective(drainer[d].hand) /\ IsInjective(printed)
    BY <1>1 DEF OnceInv
  <2>3. Range(printed') = Range(printed) \cup Hand(d) /\ IsInjective(printed')
    BY <1>1, <2>1, <2>2, InjectiveGrows DEF TypeOK, Hand
  <2>4. drainer'[d].hand = <<>> /\ Hand(d)' = {}
    BY <1>b, <1>c, <2>1 DEF Idle, Hand
  <2>5. /\ \A c \in Drainers : c # d => drainer'[c].hand = drainer[c].hand /\ Hand(c)' = Hand(c)
        /\ OnDiskFiles' = OnDiskFiles /\ \A f \in OnDiskFiles : Lines(f)' = Lines(f)
        /\ UNCHANGED <<appended, lost, content>>
    BY <1>b, <2>1 DEF Hand, OnDiskFiles, Lines
  <2>6. OnceInv'
    BY <1>1, <1>c, <2>2, <2>3, <2>4, <2>5 DEF OnceInv
  <2>7. LinesInv'
    BY <1>1, <2>1, <2>3, <2>4, <2>5 DEF LinesInv
  <2> QED
    BY <2>6, <2>7
<1>14. CASE UNCHANGED vars
  BY <1>1, <1>14, LinesStay DEF vars, OnDiskFiles
<1> QED
  BY <1>2, <1>3, <1>4, <1>7, <1>8, <1>9, <1>10, <1>11, <1>12, <1>13, <1>14 DEF Next, Drain

-----------------------------------------------------------------------------
(* The argument of this module is an invariant.                             *)
THEOREM Invariance == Spec => []IInv
<1>1. Init => IInv
  <2> SUFFICES ASSUME Init PROVE IInv
    OBVIOUS
  <2>1. Range(<<>>) = {} /\ IsInjective(<<>>)
    BY DEF Range, IsInjective
  <2>2. TypeOK
    BY DEF Init, TypeOK, DrainerStates, Idle, NotWriting
  <2>3. LockInv /\ QueueInv /\ ReadInv
    BY <2>1 DEF Init, LockInv, QueueInv, ReadInv, Writing, NotWriting, Idle
  <2>4. OnceInv /\ LinesInv
    BY <2>1 DEF Init, OnceInv, LinesInv, OnDiskFiles, Lines, Hand, Idle
  <2> QED
    BY <2>2, <2>3, <2>4 DEF IInv
<1>2. IInv /\ TypeOK' /\ [Next]_vars => IInv'
  BY NamesStep, LinesStep DEF IInv
<1> QED
  BY <1>1, <1>2, TypeCorrect, PTL DEF Spec

(* append and drain together neither lose a line nor deliver it twice.      *)
THEOREM LinesConserved == Spec => []LinesAreConserved
<1>1. IInv => LinesAreConserved
  <2> SUFFICES ASSUME IInv PROVE LinesAreConserved
    OBVIOUS
  <2>1. \A e : e \in OnDisk <=> \E f \in OnDiskFiles : e \in Lines(f)
    BY DEF OnDisk, OnDiskFiles, Lines
  <2>2. \A e : e \in InHand <=> \E d \in Drainers : e \in Hand(d)
    BY DEF InHand, Hand
  <2>3. AppendsAreKept
    BY <2>1, <2>2 DEF IInv, LinesInv, AppendsAreKept
  <2>4. DeliveredOnce
    BY <2>1, <2>2 DEF IInv, OnceInv, DeliveredOnce, Hand
  <2> QED
    BY <2>3, <2>4 DEF LinesAreConserved
<1> QED
  BY <1>1, Invariance, PTL

(* A set of numbers that is not empty has a least one.                      *)
LEMMA Least ==
  ASSUME NEW T \in SUBSET Nat, T # {}
  PROVE  \E n \in T : \A m \in T : n <= m
<1> DEFINE C == {1 .. n : n \in T}
<1>1. C \subseteq FiniteSubsetsOf(Nat)
  <2>1. ASSUME NEW n \in T PROVE 1 .. n \in FiniteSubsetsOf(Nat)
    <3>1. n \in Int /\ 1 .. n \subseteq Nat
      OBVIOUS
    <3>2. IsFiniteSet(1 .. n)
      BY <3>1, FS_Interval
    <3> QED  BY ONLY <3>1, <3>2 DEF FiniteSubsetsOf
  <2> QED  BY <2>1
<1>2. C # {}
  OBVIOUS
<1>3. PICK c \in C : \A d \in C : ~ <<d, c>> \in StrictSubsetOrdering(Nat)
  <2> HIDE DEF C
  <2> QED  BY <1>1, <1>2, FS_StrictSubsetOrderingWellFounded, WFMin
<1>4. PICK n \in T : c = 1 .. n
  OBVIOUS
<1>5. ASSUME NEW m \in T PROVE n <= m
  <2>1. ~ <<1 .. m, 1 .. n>> \in StrictSubsetOrdering(Nat)
    BY <1>3, <1>4
  <2> QED  BY <2>1 DEF StrictSubsetOrdering
<1> QED  BY <1>5

-----------------------------------------------------------------------------
(* Sequences of sequences, flattened: f has the first n of s in a row.      *)
Rows(s, n, f) == f[0] = <<>> /\ \A i \in 1 .. n : f[i] = f[i - 1] \o s[i]

LEMMA RowsExist ==
  ASSUME NEW T, NEW s \in Seq(Seq(T))
  PROVE  \E f \in [0 .. Len(s) -> Seq(T)] : Rows(s, Len(s), f)
<1> DEFINE Q(n) == \E f \in [0 .. n -> Seq(T)] : Rows(s, n, f)
           N == {n \in 0 .. Len(s) : ~Q(n)}
<1>1. Len(s) \in Nat /\ \A i \in 1 .. Len(s) : s[i] \in Seq(T)
  OBVIOUS
<1>2. ASSUME N # {} PROVE FALSE
  <2>1. PICK n \in N : \A m \in N : n <= m
    <3>1. N \in SUBSET Nat
      BY <1>1
    <3> HIDE DEF N
    <3> QED  BY <3>1, <1>2, Least
  <2>2. n \in 0 .. Len(s) /\ ~Q(n)
    BY <2>1
  <2>3. CASE n = 0
    <3> DEFINE f == [i \in 0 .. 0 |-> <<>>]
    <3>1. f \in [0 .. 0 -> Seq(T)] /\ f[0] = <<>>
      <4>1. <<>> \in Seq(T)
        OBVIOUS
      <4> QED  BY <4>1
    <3> HIDE DEF f
    <3>2. Rows(s, 0, f)
      BY <3>1 DEF Rows
    <3> QED  BY <2>2, <2>3, <3>1, <3>2
  <2>4. CASE n # 0
    <3>1. n - 1 \in 0 .. Len(s) /\ n \in 1 .. Len(s) /\ ~(n <= n - 1) /\ n \in Nat
      BY <2>2, <2>4, <1>1
    <3>2. PICK f \in [0 .. n - 1 -> Seq(T)] : Rows(s, n - 1, f)
      <4>1. n - 1 \notin N
        BY <2>1, <3>1
      <4> QED  BY <4>1, <3>1
    <3> DEFINE g == [i \in 0 .. n |-> IF i = n THEN f[n - 1] \o s[n] ELSE f[i]]
    <3>3. f[n - 1] \in Seq(T) /\ s[n] \in Seq(T)
      BY <3>1, <3>2, <1>1
    <3>4. f[n - 1] \o s[n] \in Seq(T)
      BY <3>3
    <3>5. \A i \in 0 .. n : i # n => i \in 0 .. n - 1
      BY <3>1
    <3>6. g \in [0 .. n -> Seq(T)]
      BY <3>2, <3>4, <3>5
    <3>7. g[n] = f[n - 1] \o s[n] /\ \A i \in 0 .. n - 1 : g[i] = f[i]
      <4>1. n \in 0 .. n /\ \A i \in 0 .. n - 1 : i \in 0 .. n /\ i # n
        BY <3>1
      <4> QED  BY <4>1
    <3> HIDE DEF g
    <3>8. \A i \in 1 .. n : i - 1 \in 0 .. n - 1 /\ (i # n => i \in 1 .. n - 1)
      BY <3>1
    <3>9. Rows(s, n, g)
      <4>1. g[0] = <<>>
        <5>1. 0 \in 0 .. n - 1
          BY <3>1
        <5> QED  BY <5>1, <3>2, <3>7 DEF Rows
      <4>2. ASSUME NEW i \in 1 .. n PROVE g[i] = g[i - 1] \o s[i]
        <5>1. g[i - 1] = f[i - 1]
          BY <3>7, <3>8
        <5>2. CASE i = n
          BY <5>1, <5>2, <3>7
        <5>3. CASE i # n
          <6>1. i \in 1 .. n - 1 /\ i \in 0 .. n - 1
            BY <5>3, <3>1
          <6>2. g[i] = f[i] /\ f[i] = f[i - 1] \o s[i]
            BY <6>1, <3>2, <3>7 DEF Rows
          <6> QED  BY <5>1, <6>2
        <5> QED  BY <5>2, <5>3
      <4> QED  BY <4>1, <4>2 DEF Rows
    <3> QED  BY <2>2, <3>6, <3>9
  <2> QED  BY <2>3, <2>4
<1>3. Len(s) \in 0 .. Len(s)
  BY <1>1
<1> QED  BY <1>2, <1>3

LEMMA FlatIs ==
  ASSUME NEW T, NEW s \in Seq(Seq(T)), NEW f \in [0 .. Len(s) -> Seq(T)], Rows(s, Len(s), f)
  PROVE  FlattenSeq(s) = f[Len(s)]
<1> DEFINE L == Len(s)
           Rec(h) == h = [i \in 1 .. L |-> IF i = 1 THEN s[i] ELSE h[i - 1] \o s[i]]
           g == [i \in 1 .. L |-> f[i]]
<1>1. L \in Nat /\ \A i \in 1 .. L : s[i] \in Seq(T)
  OBVIOUS
<1>2. CASE L = 0
  <2>1. s = <<>>
    BY <1>2
  <2> QED  BY <1>2, <2>1 DEF FlattenSeq, Rows
<1>3. CASE L # 0
  <2>1. FlattenSeq(s) = (CHOOSE h : Rec(h))[L]
    BY <1>3 DEF FlattenSeq
  <2>2. Rec(g)
    <3>1. ASSUME NEW i \in 1 .. L PROVE g[i] = IF i = 1 THEN s[i] ELSE g[i - 1] \o s[i]
      <4>1. f[i] = f[i - 1] \o s[i] /\ g[i] = f[i]
        BY DEF Rows
      <4>2. CASE i = 1
        <5>1. f[0] = <<>> /\ s[i] \in Seq(T)
          BY <1>1 DEF Rows
        <5>2. f[i] = <<>> \o s[i]
          <6>1. i - 1 = 0
            BY <4>2
          <6> QED  BY <4>1, <5>1, <6>1
        <5> QED  BY <4>1, <4>2, <5>1, <5>2, ConcatEmptySeq
      <4>3. CASE i # 1
        <5>1. i - 1 \in 1 .. L
          BY <4>3
        <5>2. g[i - 1] = f[i - 1]
          BY <5>1
        <5> HIDE DEF g
        <5> QED  BY <4>1, <4>3, <5>2
      <4> QED  BY <4>2, <4>3
    <3>2. g = [i \in 1 .. L |-> g[i]]
      OBVIOUS
    <3> HIDE DEF g
    <3>3. [i \in 1 .. L |-> g[i]] = [i \in 1 .. L |-> IF i = 1 THEN s[i] ELSE g[i - 1] \o s[i]]
      BY <3>1
    <3> QED  BY <3>2, <3>3
  <2>3. ASSUME NEW h, Rec(h) PROVE \A i \in 1 .. L : h[i] = g[i]
    <3> DEFINE N == {i \in 1 .. L : h[i] # g[i]}
    <3>1. \A r : Rec(r) => \A i \in 1 .. L : r[i] = IF i = 1 THEN s[i] ELSE r[i - 1] \o s[i]
      <4> SUFFICES ASSUME NEW r, Rec(r)
                   PROVE  \A i \in 1 .. L : r[i] = IF i = 1 THEN s[i] ELSE r[i - 1] \o s[i]
        OBVIOUS
      <4> DEFINE q == [i \in 1 .. L |-> IF i = 1 THEN s[i] ELSE r[i - 1] \o s[i]]
      <4>1. r = q
        OBVIOUS
      <4>2. \A i \in 1 .. L : q[i] = IF i = 1 THEN s[i] ELSE r[i - 1] \o s[i]
        <5> HIDE DEF L
        <5> QED  OBVIOUS
      <4> HIDE DEF q
      <4> QED  BY <4>1, <4>2
    <3>2. ASSUME N # {} PROVE FALSE
      <4>1. PICK n \in N : \A m \in N : n <= m
        <5>1. N \in SUBSET Nat
          BY <1>1
        <5> HIDE DEF N
        <5> QED  BY <5>1, <3>2, Least
      <4>2. n \in 1 .. L /\ h[n] # g[n]
        BY <4>1
      <4>3. /\ h[n] = IF n = 1 THEN s[n] ELSE h[n - 1] \o s[n]
            /\ g[n] = IF n = 1 THEN s[n] ELSE g[n - 1] \o s[n]
        <5> HIDE DEF Rec, g
        <5> QED  BY <2>2, <2>3, <3>1, <4>2
      <4> HIDE DEF g
      <4>4. n # 1
        BY <4>2, <4>3
      <4>5. n - 1 \in 1 .. L /\ ~(n <= n - 1)
        BY <4>2, <4>4, <1>1
      <4>6. h[n - 1] = g[n - 1]
        BY <4>1, <4>5
      <4> QED  BY <4>2, <4>3, <4>4, <4>6
    <3> QED  BY <3>2
  <2>4. L \in 1 .. L
    BY <1>1, <1>3
  <2>5. g[L] = f[L]
    BY <2>4
  <2> HIDE DEF Rec, g
  <2>6. Rec(CHOOSE h : Rec(h))
    BY <2>2
  <2> QED  BY <2>1, <2>3, <2>4, <2>5, <2>6
<1> QED  BY <1>2, <1>3

LEMMA FlatFacts ==
  ASSUME NEW T, NEW s \in Seq(Seq(T))
  PROVE  /\ FlattenSeq(s) \in Seq(T)
         /\ \A t \in Seq(T) : FlattenSeq(Append(s, t)) = FlattenSeq(s) \o t
<1> DEFINE L == Len(s)
<1>1. L \in Nat /\ L \in 0 .. L
  OBVIOUS
<1>2. PICK f \in [0 .. L -> Seq(T)] : Rows(s, L, f)
  BY RowsExist
<1>3. FlattenSeq(s) = f[L] /\ f[L] \in Seq(T)
  BY <1>1, <1>2, FlatIs
<1>4. ASSUME NEW t \in Seq(T) PROVE FlattenSeq(Append(s, t)) = FlattenSeq(s) \o t
  <2> DEFINE a == Append(s, t)
             g == [i \in 0 .. L + 1 |-> IF i = L + 1 THEN f[L] \o t ELSE f[i]]
  <2>1. /\ a \in Seq(Seq(T)) /\ Len(a) = L + 1 /\ a[L + 1] = t
        /\ \A i \in 1 .. L : a[i] = s[i]
    OBVIOUS
  <2> HIDE DEF a
  <2>2. f[L] \o t \in Seq(T)
    BY <1>3
  <2>3. \A i \in 0 .. L + 1 : i # L + 1 => i \in 0 .. L
    BY <1>1
  <2>4. g \in [0 .. L + 1 -> Seq(T)]
    BY <1>2, <2>2, <2>3
  <2>5. L + 1 \in 0 .. L + 1 /\ \A i \in 0 .. L : i \in 0 .. L + 1 /\ i # L + 1
    BY <1>1
  <2>6. g[L + 1] = f[L] \o t /\ \A i \in 0 .. L : g[i] = f[i]
    BY <2>5
  <2> HIDE DEF g
  <2>7. Rows(a, L + 1, g)
    <3>1. g[0] = <<>>
      <4>1. 0 \in 0 .. L
        BY <1>1
      <4> QED  BY <4>1, <1>2, <2>6 DEF Rows
    <3>2. ASSUME NEW i \in 1 .. L + 1 PROVE g[i] = g[i - 1] \o a[i]
      <4>1. i - 1 \in 0 .. L /\ g[i - 1] = f[i - 1]
        BY <1>1, <2>6
      <4>2. CASE i = L + 1
        <5>1. i - 1 = L
          BY <1>1, <4>2
        <5> QED  BY <4>1, <4>2, <5>1, <2>1, <2>6
      <4>3. CASE i # L + 1
        <5>1. i \in 1 .. L /\ i \in 0 .. L
          BY <1>1, <4>3
        <5>2. g[i] = f[i] /\ a[i] = s[i] /\ f[i] = f[i - 1] \o s[i]
          BY <5>1, <1>2, <2>1, <2>6 DEF Rows
        <5> QED  BY <4>1, <5>2
      <4> QED  BY <4>2, <4>3
    <3> QED  BY <3>1, <3>2 DEF Rows
  <2>8. FlattenSeq(a) = g[L + 1]
    BY <2>1, <2>4, <2>7, FlatIs
  <2> QED  BY <2>6, <2>8, <1>3 DEF a
<1> QED  BY <1>3, <1>4

LEMMA FlatHead ==
  ASSUME NEW T, NEW s \in Seq(Seq(T)), s # <<>>
  PROVE  FlattenSeq(s) = Head(s) \o FlattenSeq(Tail(s))
<1> DEFINE L == Len(s)
           r == Tail(s)
           h == s[1]
<1>1. L \in Nat \ {0} /\ h \in Seq(T) /\ Head(s) = h
  OBVIOUS
<1>2. r \in Seq(Seq(T)) /\ Len(r) = L - 1 /\ \A i \in 1 .. L - 1 : r[i] = s[i + 1]
  OBVIOUS
<1>a. \A i \in 1 .. L : s[i] \in Seq(T)
  OBVIOUS
<1> HIDE DEF r
<1>3. PICK f \in [0 .. L -> Seq(T)] : Rows(s, L, f)
  BY RowsExist
<1>4. PICK g \in [0 .. L - 1 -> Seq(T)] : Rows(r, L - 1, g)
  BY RowsExist, <1>2
<1>5. FlattenSeq(s) = f[L] /\ FlattenSeq(r) = g[L - 1]
  <2>1. FlattenSeq(s) = f[L]
    BY <1>3, FlatIs
  <2>2. FlattenSeq(r) = g[Len(r)]
    BY <1>2, <1>4, FlatIs
  <2> QED  BY <2>1, <2>2, <1>2
<1> HIDE DEF L, h
<1> DEFINE N == {n \in 1 .. L : f[n] # h \o g[n - 1]}
<1>6. ASSUME N # {} PROVE FALSE
  <2>1. PICK n \in N : \A m \in N : n <= m
    <3>1. N \in SUBSET Nat
      BY <1>1
    <3> HIDE DEF N
    <3> QED  BY <3>1, <1>6, Least
  <2>2. n \in 1 .. L /\ f[n] # h \o g[n - 1]
    BY <2>1
  <2>3. f[n] = f[n - 1] \o s[n]
    BY <2>2, <1>3 DEF Rows
  <2>4. CASE n = 1
    <3>1. n - 1 = 0
      BY <2>4
    <3>2. f[0] = <<>> /\ g[0] = <<>>
      BY <1>3, <1>4 DEF Rows
    <3>3. f[n] = <<>> \o h /\ h \o g[n - 1] = h \o <<>>
      BY <2>3, <2>4, <3>1, <3>2 DEF h
    <3> QED  BY <2>2, <3>3, <1>1, ConcatEmptySeq
  <2>5. CASE n # 1
    <3>1. /\ n - 1 \in 1 .. L /\ ~(n <= n - 1) /\ n - 1 \in 1 .. L - 1 /\ n - 2 \in 0 .. L - 1
          /\ (n - 1) - 1 = n - 2 /\ (n - 1) + 1 = n /\ n - 1 \in 0 .. L - 1
      BY <2>2, <2>5, <1>1
    <3>2. f[n - 1] = h \o g[n - 2]
      BY <2>1, <3>1
    <3>3. r[n - 1] = s[n] /\ g[n - 1] = g[n - 2] \o s[n]
      BY <3>1, <1>2, <1>4 DEF Rows
    <3>4. g[n - 2] \in Seq(T) /\ s[n] \in Seq(T)
      <4>1. \A i \in 0 .. L - 1 : g[i] \in Seq(T)
        BY <1>4
      <4> QED  BY <4>1, <3>1, <1>a, <2>2
    <3>5. (h \o g[n - 2]) \o s[n] = h \o (g[n - 2] \o s[n])
      <4> DEFINE u == g[n - 2]
                 v == s[n]
      <4>1. h \in Seq(T) /\ u \in Seq(T) /\ v \in Seq(T)
        BY <3>4, <1>1
      <4> HIDE DEF u, v
      <4>2. (h \o u) \o v = h \o (u \o v)
        BY ONLY <4>1, ConcatAssociative
      <4> QED  BY <4>2 DEF u, v
    <3> QED  BY <2>2, <2>3, <3>2, <3>3, <3>5
  <2> QED  BY <2>4, <2>5
<1>7. L \in 1 .. L
  BY <1>1
<1>8. f[L] = h \o g[L - 1]
  BY <1>6, <1>7
<1> QED  BY <1>1, <1>5, <1>8 DEF r

-----------------------------------------------------------------------------
(* While no two drains overlap, one drain takes the leftovers in order.     *)
OrderInv ==
  ~overlapped =>
    /\ \A c, d \in Drainers : c # d => drainer[c] = Idle \/ drainer[d] = Idle
    /\ \A d \in Drainers : drainer[d].at \in {"take", "remove"} => drainer[d].todo = draining

(* The drain that moves is the only one.                                    *)
LEMMA OneDrain ==
  ASSUME TypeOK, NEW d \in Drainers, NEW s, Becomes(d, s), ~overlapped'
  PROVE  /\ ~overlapped /\ drainer'[d] = s /\ drainer[d] \in DrainerStates
         /\ \A c \in Drainers : c # d => drainer[c] = Idle /\ drainer'[c] = Idle
  BY DEF Becomes, TypeOK

LEMMA FirstRemoved ==
  ASSUME NEW S, NEW s \in Seq(S), s # <<>>, IsInjective(s), NEW i \in DOMAIN s, s[i] = Head(s)
  PROVE  RemoveAt(s, i) = Tail(s)
<1>1. i = 1
  BY DEF IsInjective
<1>2. SubSeq(s, 1, 0) = <<>> /\ SubSeq(s, 2, Len(s)) = Tail(s) /\ Tail(s) \in Seq(S)
  OBVIOUS
<1>3. RemoveAt(s, i) = <<>> \o Tail(s)
  BY <1>1, <1>2 DEF RemoveAt
<1> QED  BY <1>2, <1>3, ConcatEmptySeq

LEMMA OrderStep ==
  ASSUME IInv, OrderInv, [Next]_vars
  PROVE  OrderInv'
<1> USE DEF files
<1>1. TypeOK /\ QueueInv
  BY DEF IInv
<1> DEFINE Good == /\ \A c, d \in Drainers : c # d => drainer'[c] = Idle \/ drainer'[d] = Idle
                   /\ \A d \in Drainers : drainer'[d].at \in {"take", "remove"} => drainer'[d].todo = draining'
<1> SUFFICES ASSUME ~overlapped' PROVE Good
  BY DEF OrderInv
<1>i. Idle.at = "idle"
  BY DEF Idle
<1>2. ASSUME UNCHANGED <<drainer, draining, overlapped>> PROVE Good
  BY <1>2 DEF OrderInv
<1>3. ASSUME NEW d \in Drainers, NEW s, Becomes(d, s),
             s.at \in {"take", "remove"} => s.todo = draining'
      PROVE  Good
  BY <1>1, <1>i, <1>3, OneDrain
<1>4. ASSUME NEW d \in Drainers, Becomes(d, Idle) PROVE Good
  BY <1>3, <1>4, <1>i
<1> HIDE DEF Good
<1>5. ASSUME NEW w \in Writers, NEW e \in Events, Open(w, e) PROVE Good
  BY <1>2, <1>5 DEF Open
<1>6. ASSUME NEW w \in Writers, Write(w) \/ WriterCrash(w) PROVE Good
  BY <1>2, <1>6 DEF Write, WriterCrash
<1>7. ASSUME NEW d \in Drainers, Start(d) PROVE Good
  <2> DEFINE s == [Idle EXCEPT !.at = "take", !.todo = Leftovers]
  <2>1. Becomes(d, s) /\ draining' = draining /\ s.todo = draining
    BY <1>7 DEF Start, Leftovers, Idle
  <2> HIDE DEF s
  <2> QED  BY <1>3, <2>1
<1>8. ASSUME NEW d \in Drainers, Read(d) PROVE Good
  <2> DEFINE me == drainer[d]
             s == [me EXCEPT !.at = "remove", !.read = content[Head(me.todo)]]
  <2>1. CASE Becomes(d, s) /\ draining' = draining
    <3>1. me \in DrainerStates /\ me.at = "take"
      BY <1>1, <1>8 DEF TypeOK, Read
    <3>2. s.todo = me.todo
      BY <3>1 DEF DrainerStates
    <3>3. me.todo = draining
      BY <1>1, <2>1, <3>1, OneDrain DEF OrderInv
    <3> HIDE DEF s, me
    <3> QED  BY <1>3, <2>1, <3>2, <3>3
  <2>2. CASE Fails(d)
    BY <1>4, <2>2 DEF Fails
  <2> QED  BY <1>8, <2>1, <2>2 DEF Read
<1>9. ASSUME NEW d \in Drainers, RemoveFile(d) PROVE Good
  <2> DEFINE me == drainer[d]
             f == Head(me.todo)
             i == CHOOSE i \in DOMAIN draining : draining[i] = f
             s == [me EXCEPT !.at = "take", !.todo = Tail(@), !.hand = @ \o me.read, !.read = <<>>]
  <2>1. CASE Becomes(d, s) /\ draining' = RemoveAt(draining, i) /\ f \in Range(draining)
    <3>1. me \in DrainerStates /\ me.at = "remove" /\ me.todo # <<>>
      BY <1>1, <1>9 DEF TypeOK, RemoveFile
    <3>2. s.todo = Tail(me.todo)
      BY <3>1 DEF DrainerStates
    <3>3. me.todo = draining
      <4> HIDE DEF s
      <4> QED  BY <1>1, <2>1, <3>1, OneDrain DEF OrderInv
    <3>4. i \in DOMAIN draining /\ draining[i] = f
      BY <2>1 DEF Range
    <3>5. draining' = Tail(draining)
      <4> HIDE DEF i, s
      <4> QED  BY <1>1, <2>1, <3>1, <3>3, <3>4, FirstRemoved DEF TypeOK, QueueInv
    <3> HIDE DEF s, me
    <3> QED  BY <1>3, <2>1, <3>2, <3>3, <3>5
  <2>2. CASE Fails(d)
    BY <1>4, <2>2 DEF Fails
  <2> QED  BY <1>9, <2>1, <2>2 DEF RemoveFile
<1>10. ASSUME NEW d \in Drainers, Rename(d) PROVE Good
  <2> DEFINE me == drainer[d]
             p == [me EXCEPT !.at = "print"]
             s == [me EXCEPT !.todo = <<queue>>, !.last = TRUE]
  <2>0. me \in DrainerStates /\ me.at = "take" /\ me.todo = <<>>
    BY <1>1, <1>10 DEF TypeOK, Rename
  <2>1. CASE Becomes(d, p)
    <3>1. p.at = "print"
      BY <2>0 DEF DrainerStates
    <3> HIDE DEF p
    <3> QED  BY <1>3, <2>1, <3>1
  <2>2. CASE Becomes(d, s) /\ draining' = Append(draining, queue)
    <3>1. s.todo = <<queue>>
      BY <2>0 DEF DrainerStates
    <3> HIDE DEF s
    <3>2. draining = <<>>
      BY <1>1, <2>0, <2>2, OneDrain DEF OrderInv
    <3>3. draining' = <<queue>>
      BY <2>2, <3>2
    <3> QED  BY <1>3, <2>2, <3>1, <3>3
  <2> QED  BY <1>10, <2>1, <2>2 DEF Rename
<1>11. ASSUME NEW d \in Drainers, PrintLines(d) PROVE Good
  BY <1>4, <1>11 DEF PrintLines
<1>12. ASSUME NEW d \in Drainers, DrainerCrash(d) PROVE Good
  <2>1. /\ drainer'[d] = Idle /\ \A c \in Drainers : c # d => drainer'[c] = drainer[c]
        /\ UNCHANGED <<draining, overlapped>>
    BY <1>1, <1>12 DEF DrainerCrash, TypeOK
  <2> QED  BY <1>i, <2>1 DEF Good, OrderInv
<1>13. CASE UNCHANGED vars
  BY <1>2, <1>13 DEF vars
<1>14. CASE \E w \in Writers : (\E e \in Events : Open(w, e)) \/ Write(w) \/ WriterCrash(w)
  BY <1>5, <1>6, <1>14
<1>15. CASE \E d \in Drainers : Drain(d) \/ DrainerCrash(d)
  BY <1>7, <1>8, <1>9, <1>10, <1>11, <1>12, <1>15 DEF Drain
<1>16. Good
  BY <1>13, <1>14, <1>15 DEF Next
<1> QED  BY <1>16

-----------------------------------------------------------------------------
(* What is pending, as an operator of a state.                              *)
TakenOf(dr) == IF \E d \in Drainers : dr[d].hand # <<>>
               THEN dr[CHOOSE d \in Drainers : dr[d].hand # <<>>].hand ELSE <<>>
On(ct, dn) == [i \in DOMAIN dn |-> ct[dn[i]]]
Top(ct, q) == IF q = NoFile THEN <<>> ELSE ct[q]

LEMMA PendingIs ==
  /\ Pending = TakenOf(drainer) \o FlattenSeq(On(content, draining)) \o Top(content, queue)
  /\ Pending' = TakenOf(drainer') \o FlattenSeq(On(content', draining')) \o Top(content', queue')
BY DEF Pending, Taken, Holding, TakenOf, On, Top

LEMMA TakenIs ==
  ASSUME NEW dr, NEW d \in Drainers, \A c \in Drainers : c # d => dr[c].hand = <<>>
  PROVE  TakenOf(dr) = dr[d].hand
<1>1. CASE dr[d].hand = <<>>
  BY <1>1 DEF TakenOf
<1>2. CASE dr[d].hand # <<>>
  <2>1. (CHOOSE c \in Drainers : dr[c].hand # <<>>) = d
    BY <1>2
  <2> QED  BY <1>2, <2>1 DEF TakenOf
<1> QED  BY <1>1, <1>2

LEMMA OnIs ==
  ASSUME NEW ct \in [Files -> Seq(Events)], NEW dn \in Seq(Files)
  PROVE  /\ On(ct, dn) \in Seq(Seq(Events)) /\ Len(On(ct, dn)) = Len(dn)
         /\ \A i \in 1 .. Len(dn) : On(ct, dn)[i] = ct[dn[i]]
         /\ FlattenSeq(On(ct, dn)) \in Seq(Events)
<1>1. DOMAIN dn = 1 .. Len(dn) /\ \A i \in 1 .. Len(dn) : dn[i] \in Files
  OBVIOUS
<1>2. On(ct, dn) \in [1 .. Len(dn) -> Seq(Events)] /\ Len(dn) \in Nat
  BY <1>1 DEF On
<1>3. /\ On(ct, dn) \in Seq(Seq(Events)) /\ Len(On(ct, dn)) = Len(dn)
      /\ \A i \in 1 .. Len(dn) : On(ct, dn)[i] = ct[dn[i]]
  BY <1>1, <1>2 DEF On
<1> QED  BY <1>3, FlatFacts

LEMMA OnAppend ==
  ASSUME NEW ct \in [Files -> Seq(Events)], NEW dn \in Seq(Files), NEW f \in Files
  PROVE  FlattenSeq(On(ct, Append(dn, f))) = FlattenSeq(On(ct, dn)) \o ct[f]
<1>1. Append(dn, f) \in Seq(Files) /\ Len(Append(dn, f)) = Len(dn) + 1
  OBVIOUS
<1>2. On(ct, Append(dn, f)) = Append(On(ct, dn), ct[f])
  <2> DEFINE a == On(ct, Append(dn, f))
             b == Append(On(ct, dn), ct[f])
  <2>1. /\ a \in Seq(Seq(Events)) /\ Len(a) = Len(dn) + 1
        /\ \A i \in 1 .. Len(dn) + 1 : a[i] = ct[Append(dn, f)[i]]
    BY <1>1, OnIs
  <2>2. b \in Seq(Seq(Events)) /\ Len(b) = Len(dn) + 1
    BY OnIs
  <2> DEFINE o == On(ct, dn)
             n == Len(dn)
             af == Append(dn, f)
  <2>0. /\ n \in Nat /\ af[n + 1] = f /\ \A i \in 1 .. n : af[i] = dn[i]
    OBVIOUS
  <2>3. /\ o \in Seq(Seq(Events)) /\ Len(o) = n /\ ct[f] \in Seq(Events)
        /\ \A i \in 1 .. n : o[i] = ct[dn[i]]
    BY OnIs
  <2> HIDE DEF o
  <2>4. b[n + 1] = ct[f] /\ \A i \in 1 .. n : b[i] = o[i]
    <3>1. b = Append(o, ct[f])
      BY DEF o
    <3>2. /\ \A i \in 1 .. Len(o) : Append(o, ct[f])[i] = o[i]
          /\ Append(o, ct[f])[Len(o) + 1] = ct[f]
      <4> HIDE DEF b, n, af
      <4> QED  BY ONLY <2>3, AppendProperties
    <3> QED  BY ONLY <2>3, <3>1, <3>2
  <2> HIDE DEF a, b, af, n
  <2>5. ASSUME NEW i \in 1 .. n + 1 PROVE a[i] = b[i]
    <3>0. i \in 1 .. n \/ i = n + 1
      BY <2>0
    <3>1. a[i] = ct[af[i]]
      BY <2>1 DEF af, n
    <3> QED  BY <2>0, <2>3, <2>4, <3>0, <3>1
  <2>6. a = b
    BY <2>0, <2>1, <2>2, <2>5, SeqEqual DEF n
  <2> QED  BY <2>6 DEF a, b
<1>3. ct[f] \in Seq(Events) /\ On(ct, dn) \in Seq(Seq(Events))
  BY OnIs
<1> QED  BY <1>2, <1>3, FlatFacts

LEMMA OnTail ==
  ASSUME NEW ct \in [Files -> Seq(Events)], NEW dn \in Seq(Files), dn # <<>>
  PROVE  FlattenSeq(On(ct, dn)) = ct[Head(dn)] \o FlattenSeq(On(ct, Tail(dn)))
<1>1. Tail(dn) \in Seq(Files) /\ Len(Tail(dn)) = Len(dn) - 1 /\ Len(dn) \in Nat \ {0} /\ Head(dn) = dn[1]
  OBVIOUS
<1> DEFINE o == On(ct, dn)
           a == On(ct, Tail(dn))
           b == Tail(o)
<1>2. /\ o \in Seq(Seq(Events)) /\ Len(o) = Len(dn)
      /\ \A i \in 1 .. Len(dn) : o[i] = ct[dn[i]]
  BY OnIs
<1>3. /\ a \in Seq(Seq(Events)) /\ Len(a) = Len(dn) - 1
      /\ \A i \in 1 .. Len(dn) - 1 : a[i] = ct[Tail(dn)[i]]
  BY <1>1, OnIs
<1> HIDE DEF o, a
<1>4. o # <<>> /\ Head(o) = ct[Head(dn)]
  BY <1>1, <1>2
<1>5. b \in Seq(Seq(Events)) /\ Len(b) = Len(dn) - 1 /\ \A i \in 1 .. Len(dn) - 1 : b[i] = o[i + 1]
  BY <1>1, <1>2, <1>4
<1>6. \A i \in 1 .. Len(dn) - 1 : a[i] = b[i]
  BY <1>1, <1>2, <1>3, <1>5
<1> HIDE DEF b
<1>7. a = b
  BY <1>3, <1>5, <1>6, SeqEqual
<1>8. FlattenSeq(o) = Head(o) \o FlattenSeq(b)
  BY <1>2, <1>4, FlatHead DEF b
<1> QED  BY <1>4, <1>7, <1>8 DEF o, a

(* The oldest lines are those in hand.                                      *)
LEMMA Regroup ==
  \A a, b, c \in Seq(Events) : (a \o b) \o c = a \o (b \o c)
BY ConcatAssociative

LEMMA OldestFirst ==
  ASSUME NEW h \in Seq(Events), NEW r \in Seq(Events)
  PROVE  /\ h \o r \in Seq(Events) /\ Len(h \o r) = Len(h) + Len(r)
         /\ SubSeq(h \o r, 1, Len(h)) = h
         /\ SubSeq(h \o r, Len(h) + 1, Len(h \o r)) = r
         /\ \A e \in Events : h \o Append(r, e) = Append(h \o r, e)
<1>1. /\ h \o r \in Seq(Events) /\ Len(h \o r) = Len(h) + Len(r)
      /\ \A i \in 1 .. Len(h) + Len(r) : (h \o r)[i] = IF i <= Len(h) THEN h[i] ELSE r[i - Len(h)]
  OBVIOUS
<1> DEFINE a == SubSeq(h \o r, 1, Len(h))
           b == SubSeq(h \o r, Len(h) + 1, Len(h \o r))
           c == h \o r
<1>2. Len(h) \in Nat /\ Len(r) \in Nat
  OBVIOUS
<1> HIDE DEF c
<1>c. c \in Seq(Events) /\ Len(c) = Len(h) + Len(r)
      /\ \A i \in 1 .. Len(h) + Len(r) : c[i] = IF i <= Len(h) THEN h[i] ELSE r[i - Len(h)]
  BY <1>1 DEF c
<1>3. a \in Seq(Events) /\ Len(a) = Len(h) /\ \A i \in 1 .. Len(h) : a[i] = h[i]
  <2>1. SubSeq(c, 1, Len(h)) \in Seq(Events) /\ Len(SubSeq(c, 1, Len(h))) = Len(h)
        /\ \A i \in 1 .. Len(h) : SubSeq(c, 1, Len(h))[i] = h[i]
    BY <1>2, <1>c
  <2> QED  BY <2>1 DEF c
<1>4. b \in Seq(Events) /\ Len(b) = Len(r) /\ \A i \in 1 .. Len(r) : b[i] = r[i]
  <2>1. SubSeq(c, Len(h) + 1, Len(c)) \in Seq(Events) /\ Len(SubSeq(c, Len(h) + 1, Len(c))) = Len(r)
        /\ \A i \in 1 .. Len(r) : SubSeq(c, Len(h) + 1, Len(c))[i] = r[i]
    <3> DEFINE m == Len(h) + 1
               l == Len(c)
               q == SubSeq(c, m, l)
    <3>1. m \in Nat /\ l \in Nat /\ l = Len(h) + Len(r) /\ m = Len(h) + 1
      BY <1>2, <1>c
    <3> HIDE DEF m, l
    <3>2. /\ q \in Seq(Events) /\ Len(q) = (IF m <= l THEN l - m + 1 ELSE 0)
          /\ \A i \in 1 .. l - m + 1 : q[i] = c[m + i - 1]
      BY <1>2, <1>c, <3>1
    <3> HIDE DEF q
    <3>3. Len(q) = Len(r) /\ \A i \in 1 .. Len(r) : q[i] = r[i]
      <4>1. l - m + 1 = Len(r) /\ Len(q) = Len(r)
        BY <1>2, <3>1, <3>2
      <4>2. ASSUME NEW i \in 1 .. Len(r) PROVE q[i] = r[i]
        <5>1. /\ i \in Nat \ {0} /\ m + i - 1 = Len(h) + i /\ Len(h) + i \in 1 .. Len(h) + Len(r)
              /\ ~(Len(h) + i <= Len(h)) /\ (Len(h) + i) - Len(h) = i
          BY <1>2, <3>1
        <5>2. c[Len(h) + i] = r[i]
          BY ONLY <1>c, <5>1
        <5> QED  BY <3>2, <4>1, <5>1, <5>2
      <4> QED  BY <4>1, <4>2
    <3> QED  BY <3>2, <3>3 DEF q, m, l
  <2> QED  BY <2>1 DEF c
<1> HIDE DEF a, b
<1>5. a = h
  BY <1>3, SeqEqual
<1>6. b = r
  BY <1>4, SeqEqual
<1>7. ASSUME NEW e \in Events PROVE h \o Append(r, e) = Append(h \o r, e)
  BY AppendIsConcat, ConcatAssociative
<1> QED  BY <1>1, <1>5, <1>6, <1>7 DEF a, b

-----------------------------------------------------------------------------
(* Every step is a step of the queue or leaves it as it is.                 *)
LEMMA FifoStep ==
  ASSUME IInv, IInv', OrderInv, [Next]_vars, ~overlapped'
  PROVE  Fifo!Next \/ <<Pending, printed>>' = <<Pending, printed>>
<1> USE DEF files
<1> DEFINE Good == Fifo!Next \/ <<Pending, printed>>' = <<Pending, printed>>
           flat == FlattenSeq(On(content, draining))
           flat2 == FlattenSeq(On(content', draining'))
           top == Top(content, queue)
           top2 == Top(content', queue')
<1>1. TypeOK /\ TypeOK' /\ QueueInv /\ LockInv /\ ReadInv
  BY DEF IInv
<1>2. /\ content \in [Files -> Seq(Events)] /\ content' \in [Files -> Seq(Events)]
      /\ draining \in Seq(Files) /\ draining' \in Seq(Files)
      /\ queue \in Files \cup {NoFile} /\ queue' \in Files \cup {NoFile}
  BY <1>1 DEF TypeOK
<1>3. /\ flat \in Seq(Events) /\ flat2 \in Seq(Events)
      /\ top \in Seq(Events) /\ top2 \in Seq(Events)
  <2>1. flat \in Seq(Events) /\ flat2 \in Seq(Events)
    BY <1>2, OnIs
  <2>2. <<>> \in Seq(Events)
    OBVIOUS
  <2>3. top \in Seq(Events) /\ top2 \in Seq(Events)
    BY <1>2, <2>2 DEF Top
  <2> QED  BY <2>1, <2>3
<1>4. /\ Pending = TakenOf(drainer) \o flat \o top
      /\ Pending' = TakenOf(drainer') \o flat2 \o top2
  BY PendingIs
<1>5. TakenOf(drainer) \in Seq(Events)
  BY <1>1 DEF TakenOf, TypeOK, DrainerStates
<1>i. Idle.hand = <<>> /\ Idle.at = "idle"
  BY DEF Idle
<1> HIDE DEF flat, flat2, top, top2
(* What does not touch a file or a hand. *)
<1>6. ASSUME UNCHANGED <<content, queue, draining, drainer, printed>> PROVE Good
  BY <1>4, <1>6 DEF flat, flat2, top, top2
<1>7. ASSUME UNCHANGED <<draining, drainer, printed>>, flat2 = flat, top2 = top PROVE Good
  BY <1>4, <1>7
<1>o. ASSUME NEW d \in Drainers, NEW s, Becomes(d, s)
      PROVE  /\ TakenOf(drainer) = drainer[d].hand /\ TakenOf(drainer') = s.hand
             /\ drainer[d] \in DrainerStates /\ drainer[d].hand \in Seq(Events) /\ ~overlapped
  <2>1. /\ ~overlapped /\ drainer'[d] = s /\ drainer[d] \in DrainerStates
        /\ \A c \in Drainers : c # d => drainer[c] = Idle /\ drainer'[c] = Idle
    BY <1>1, <1>o, OneDrain
  <2> QED  BY <1>i, <2>1, TakenIs DEF DrainerStates
<1>8. ASSUME NEW d \in Drainers, NEW s, Becomes(d, s), s.hand = drainer[d].hand,
             UNCHANGED <<content, queue, draining, printed>>
      PROVE  Good
  <2>1. TakenOf(drainer') = TakenOf(drainer)
    BY <1>8, <1>o
  <2>2. flat2 = flat /\ top2 = top
    BY <1>8 DEF flat, flat2, top, top2
  <2> QED  BY <1>4, <1>8, <2>1, <2>2
<1>9. ASSUME NEW d \in Drainers, NEW s, Becomes(d, s), drainer[d].at \in {"take", "remove"}
      PROVE  drainer[d].todo = draining
  BY <1>9, <1>o DEF OrderInv
<1>10. ASSUME NEW d \in Drainers, drainer[d].at \in {"take", "remove"}, drainer[d].todo # <<>>
       PROVE  ~(Becomes(d, Idle) /\ Head(drainer[d].todo) \notin Range(draining))
  BY <1>2, <1>9, <1>10 DEF Range
<1> HIDE DEF Good
<1>11. ASSUME NEW w \in Writers, NEW e \in Events, Open(w, e) PROVE Good
  <2>1. UNCHANGED <<draining, drainer, printed>>
    BY <1>11 DEF Open
  <2>2. CASE queue = NoFile
    <3>1. NewFile \in Files /\ FreeFile(NewFile)
      BY <1>11, <2>2 DEF Open, NewFile
    <3>2. queue' = NewFile /\ content' = [content EXCEPT ![NewFile] = <<>>]
      BY <1>11, <2>2 DEF Open
    <3>3. On(content', draining) = On(content, draining)
      <4>1. \A g \in Files : g # NewFile => content'[g] = content[g]
        BY <1>2, <3>2
      <4>2. NewFile \notin Range(draining)
        BY <3>1 DEF FreeFile
      <4>3. \A i \in DOMAIN draining : content'[draining[i]] = content[draining[i]]
        BY <1>2, <4>1, <4>2 DEF Range
      <4> QED  BY <4>3 DEF On
    <3>4. top = <<>> /\ top2 = <<>>
      BY <1>2, <2>2, <3>1, <3>2 DEF Top, top, top2
    <3> QED  BY <1>7, <2>1, <3>3, <3>4 DEF flat, flat2
  <2>3. CASE queue # NoFile
    BY <1>6, <1>11, <2>1, <2>3 DEF Open
  <2> QED  BY <2>2, <2>3
<1>12. ASSUME NEW w \in Writers, Write(w) PROVE Good
  <2>1. PICK e \in Events : writer[w].event = {e}
    BY <1>1, <1>12 DEF Write, LockInv
  <2>2. writer[w].file = queue /\ queue \in Files
    BY <1>1, <1>2, <1>12 DEF Write, LockInv, Writing
  <2>3. /\ content' = [content EXCEPT ![queue] = Append(@, e)]
        /\ UNCHANGED <<queue, draining, drainer, printed>>
    BY <1>12, <2>1, <2>2 DEF Write
  <2>4. On(content', draining) = On(content, draining)
    <3>1. \A g \in Files : g # queue => content'[g] = content[g]
      BY <1>2, <2>3
    <3>2. queue \notin Range(draining)
      BY <1>1 DEF QueueInv
    <3>3. \A i \in DOMAIN draining : content'[draining[i]] = content[draining[i]]
      BY <1>2, <3>1, <3>2 DEF Range
    <3> QED  BY <3>3 DEF On
  <2>5. top2 = Append(top, e)
    <3>1. content'[queue] = Append(content[queue], e) /\ queue' = queue
      BY <1>2, <2>2, <2>3
    <3>2. queue # NoFile
      BY <2>2
    <3> QED  BY <3>1, <3>2 DEF Top, top, top2
  <2>6. Pending' = (TakenOf(drainer) \o flat) \o Append(top, e)
    BY <1>4, <2>3, <2>4, <2>5 DEF flat, flat2
  <2>7. Pending' = Append(Pending, e)
    BY <1>3, <1>4, <1>5, <2>6, OldestFirst
  <2>8. Fifo!Put(e)
    BY <2>3, <2>7 DEF Fifo!Put
  <2> QED  BY <2>8 DEF Good, Fifo!Next
<1>13. ASSUME NEW w \in Writers, WriterCrash(w) PROVE Good
  BY <1>6, <1>13 DEF WriterCrash
<1>14. ASSUME NEW d \in Drainers, Start(d) PROVE Good
  <2> DEFINE s == [Idle EXCEPT !.at = "take", !.todo = Leftovers]
  <2>1. Becomes(d, s) /\ UNCHANGED <<content, queue, draining, printed>> /\ s.hand = drainer[d].hand
    BY <1>1, <1>14 DEF Start, Idle, TypeOK
  <2> HIDE DEF s
  <2> QED  BY <1>8, <2>1
<1>15. ASSUME NEW d \in Drainers, Read(d) PROVE Good
  <2> DEFINE me == drainer[d]
             s == [me EXCEPT !.at = "remove", !.read = content[Head(me.todo)]]
  <2>1. ~(Becomes(d, Idle) /\ Head(me.todo) \notin Range(draining))
    BY <1>10, <1>15 DEF Read
  <2>2. Becomes(d, s) /\ UNCHANGED <<content, queue, draining, printed>>
    BY <1>15, <2>1 DEF Read, Fails
  <2>3. s.hand = me.hand
    BY <1>1 DEF TypeOK, DrainerStates
  <2> HIDE DEF s
  <2> QED  BY <1>8, <2>2, <2>3
<1>16. ASSUME NEW d \in Drainers, RemoveFile(d) PROVE Good
  <2> DEFINE me == drainer[d]
             f == Head(me.todo)
             i == CHOOSE i \in DOMAIN draining : draining[i] = f
             s == [me EXCEPT !.at = "take", !.todo = Tail(@), !.hand = @ \o me.read, !.read = <<>>]
  <2>1. me \in DrainerStates /\ me.at = "remove" /\ me.todo # <<>>
    BY <1>1, <1>16 DEF TypeOK, RemoveFile
  <2>2. ~(Becomes(d, Idle) /\ f \notin Range(draining))
    BY <1>10, <2>1
  <2>3. /\ Becomes(d, s) /\ f \in Range(draining) /\ draining' = RemoveAt(draining, i)
        /\ UNCHANGED <<content, queue, printed>>
    BY <1>16, <2>2 DEF RemoveFile, Fails
  <2>4. s.hand = me.hand \o me.read
    BY <2>1 DEF DrainerStates
  <2> HIDE DEF s
  <2>5. me.todo = draining
    BY <1>9, <2>1, <2>3
  <2>6. i \in DOMAIN draining /\ draining[i] = f
    BY <2>3 DEF Range
  <2>7. draining' = Tail(draining)
    <3> HIDE DEF i
    <3> QED  BY <1>1, <1>2, <2>1, <2>3, <2>5, <2>6, FirstRemoved DEF QueueInv
  <2>8. me.read = content[f] /\ me.read \in Seq(Events) /\ me.hand \in Seq(Events)
    BY <1>1, <2>1, <2>3 DEF ReadInv, DrainerStates
  <2>9. flat = me.read \o flat2 /\ top2 = top
    BY <1>2, <2>1, <2>3, <2>5, <2>7, <2>8, OnTail DEF flat, flat2, top, top2
  <2>10. TakenOf(drainer) = me.hand /\ TakenOf(drainer') = me.hand \o me.read
    BY <1>o, <2>3, <2>4
  <2>11. me.hand \o (me.read \o flat2) = (me.hand \o me.read) \o flat2
    BY ONLY <1>3, <2>8, Regroup
  <2>12. Pending' = Pending
    BY <1>4, <2>9, <2>10, <2>11
  <2> QED  BY <2>3, <2>12 DEF Good
<1>17. ASSUME NEW d \in Drainers, Rename(d) PROVE Good
  <2> DEFINE me == drainer[d]
             p == [me EXCEPT !.at = "print"]
             s == [me EXCEPT !.todo = <<queue>>, !.last = TRUE]
  <2>0. me \in DrainerStates
    BY <1>1 DEF TypeOK
  <2>1. p.hand = me.hand /\ s.hand = me.hand
    BY <2>0 DEF DrainerStates
  <2>2. CASE queue = NoFile
    <3>1. Becomes(d, p) /\ UNCHANGED <<content, queue, draining, printed>>
      BY <1>17, <2>2 DEF Rename
    <3> HIDE DEF p, s
    <3> QED  BY <1>8, <2>1, <3>1
  <2>3. CASE queue # NoFile
    <3>1. /\ Becomes(d, s) /\ UNCHANGED <<content, printed>>
          /\ draining' = Append(draining, queue) /\ queue' = NoFile
      BY <1>17, <2>3 DEF Rename
    <3> HIDE DEF p, s
    <3>2. TakenOf(drainer) = me.hand /\ TakenOf(drainer') = me.hand /\ me.hand \in Seq(Events)
      BY <1>o, <2>1, <3>1
    <3>3. flat2 = flat \o top /\ top2 = <<>>
      BY <1>2, <2>3, <3>1, OnAppend DEF flat, flat2, top, top2, Top
    <3>4. /\ me.hand \o (flat \o top) = (me.hand \o flat) \o top
          /\ me.hand \o (flat \o top) \in Seq(Events)
      <4>1. flat \o top \in Seq(Events)
        BY ONLY <1>3, OldestFirst
      <4>2. me.hand \o (flat \o top) \in Seq(Events)
        BY ONLY <3>2, <4>1, OldestFirst
      <4>3. (me.hand \o flat) \o top = me.hand \o (flat \o top)
        BY ONLY <1>3, <3>2, Regroup
      <4> QED  BY <4>2, <4>3
    <3>5. Pending' = Pending
      BY <1>4, <3>2, <3>3, <3>4, ConcatEmptySeq
    <3> QED  BY <3>1, <3>5 DEF Good
  <2> QED  BY <2>2, <2>3
(* What a drain had in hand goes. *)
<1>18. ASSUME NEW d \in Drainers, TakenOf(drainer) = drainer[d].hand, drainer[d].hand \in Seq(Events),
              TakenOf(drainer') = <<>>, UNCHANGED <<content, queue, draining>>,
              \/ printed' = printed \o drainer[d].hand
              \/ printed' = printed
       PROVE  Good
  <2> DEFINE hand == drainer[d].hand
             n == Len(hand)
  <2>1. flat2 = flat /\ top2 = top
    BY <1>18 DEF flat, flat2, top, top2
  <2>2. Pending = hand \o (flat \o top) /\ Pending' = flat \o top /\ flat \o top \in Seq(Events)
    <3>1. flat \o top \in Seq(Events)
      BY ONLY <1>3, OldestFirst
    <3>2. (hand \o flat) \o top = hand \o (flat \o top)
      BY ONLY <1>3, <1>18, Regroup
    <3>3. <<>> \o flat = flat
      BY <1>3, ConcatEmptySeq
    <3> QED  BY <1>4, <1>18, <2>1, <3>1, <3>2, <3>3
  <2>3. CASE hand = <<>>
    <3>1. printed' = printed
      BY <1>1, <1>18, <2>3, ConcatEmptySeq DEF TypeOK
    <3>2. Pending' = Pending
      BY <2>2, <2>3, ConcatEmptySeq
    <3> QED  BY <3>1, <3>2 DEF Good
  <2>4. CASE hand # <<>>
    <3>1. /\ n \in Nat \ {0} /\ Len(Pending) = n + Len(flat \o top) /\ Len(flat \o top) \in Nat
          /\ SubSeq(Pending, 1, n) = hand
          /\ Pending' = SubSeq(Pending, n + 1, Len(Pending))
      <4> DEFINE rest == flat \o top
      <4>1. hand \in Seq(Events) /\ rest \in Seq(Events) /\ Pending = hand \o rest /\ Pending' = rest
        BY <1>18, <2>2
      <4>2. n \in Nat \ {0} /\ Len(rest) \in Nat
        BY <2>4, <4>1, LenProperties, EmptySeq
      <4> HIDE DEF rest, hand
      <4>3. /\ Len(hand \o rest) = n + Len(rest) /\ SubSeq(hand \o rest, 1, n) = hand
            /\ SubSeq(hand \o rest, n + 1, Len(hand \o rest)) = rest
        BY ONLY <4>1, OldestFirst
      <4> QED  BY <4>1, <4>2, <4>3 DEF rest
    <3> HIDE DEF hand, n
    <3>2. n \in 1 .. Len(Pending)
      <4>1. PICK k \in Nat : k = Len(flat \o top)
        BY <3>1
      <4> QED  BY <3>1, <4>1
    <3>3. Fifo!Deliver(n) \/ Fifo!Lose(n)
      BY <1>18, <3>1 DEF Fifo!Deliver, Fifo!Lose, hand
    <3> QED  BY <3>2, <3>3 DEF Good, Fifo!Next
  <2> QED  BY <2>3, <2>4
<1>19. ASSUME NEW d \in Drainers, PrintLines(d) PROVE Good
  BY <1>18, <1>19, <1>o, <1>i DEF PrintLines
<1>20. ASSUME NEW d \in Drainers, DrainerCrash(d) PROVE Good
  <2>1. /\ drainer'[d] = Idle /\ \A c \in Drainers : c # d => drainer'[c] = drainer[c]
        /\ UNCHANGED <<content, queue, draining, printed, overlapped>> /\ drainer[d] # Idle
    BY <1>1, <1>i, <1>20 DEF DrainerCrash, TypeOK
  <2>2. \A c \in Drainers : c # d => drainer[c] = Idle
    BY <2>1 DEF OrderInv
  <2>3. TakenOf(drainer) = drainer[d].hand /\ TakenOf(drainer') = <<>>
    BY <1>i, <2>1, <2>2, TakenIs
  <2>4. drainer[d].hand \in Seq(Events)
    BY <1>1 DEF TypeOK, DrainerStates
  <2> QED  BY <1>18, <2>1, <2>3, <2>4
<1>21. ASSUME UNCHANGED vars PROVE Good
  BY <1>6, <1>21 DEF vars
<1>22. ASSUME NEW w \in Writers, (\E e \in Events : Open(w, e)) \/ Write(w) \/ WriterCrash(w)
       PROVE  Good
  BY <1>11, <1>12, <1>13, <1>22
<1>23. ASSUME NEW d \in Drainers, Drain(d) \/ DrainerCrash(d) PROVE Good
  BY <1>14, <1>15, <1>16, <1>17, <1>19, <1>20, <1>23 DEF Drain
<1>24. Good
  BY <1>21, <1>22, <1>23 DEF Next
<1> QED  BY <1>24 DEF Good

LEMMA FifoInit ==
  ASSUME Init
  PROVE  Fifo!Init
<1>1. TakenOf(drainer) = <<>> /\ Top(content, queue) = <<>>
  BY DEF Init, TakenOf, Top, Idle
<1>2. On(content, draining) = <<>>
  BY DEF Init, On
<1>3. FlattenSeq(<<>>) = <<>>
  <2>1. <<>> \in Seq(Seq(Events)) /\ Len(<<>>) = 0
    OBVIOUS
  <2>2. PICK f \in [0 .. 0 -> Seq(Events)] : Rows(<<>>, 0, f)
    BY <2>1, RowsExist
  <2>3. FlattenSeq(<<>>) = f[0]
    BY <2>1, <2>2, FlatIs
  <2> QED  BY <2>2, <2>3 DEF Rows
<1>4. Pending = <<>> \o <<>> \o <<>>
  BY <1>1, <1>2, <1>3, PendingIs
<1>5. Pending = <<>>
  BY <1>4, ConcatEmptySeq
<1> QED  BY <1>5 DEF Fifo!Init, Init

(* While no two drains are under way, each takes the leftovers in order.    *)
THEOREM OrderInvariance == Spec => []OrderInv
<1>1. Init => OrderInv
  BY DEF Init, OrderInv, Idle
<1>2. IInv /\ OrderInv /\ [Next]_vars => OrderInv'
  BY OrderStep
<1> QED
  BY <1>1, <1>2, Invariance, PTL DEF Spec

(* As long as drains never overlap, this implements the queue: events come  *)
(* out in the order their appends returned, and none goes missing but what  *)
(* a killed drain held.                                                     *)
THEOREM FifoImplemented == Spec => ImplementsFifo
<1>1. Init => Fifo!Init
  BY FifoInit
<1>2. IInv /\ IInv' /\ OrderInv /\ [Next]_vars
        => [overlapped' \/ [Fifo!Next]_<<Pending, printed>>]_vars
  BY FifoStep
<1> QED
  BY <1>1, <1>2, Invariance, OrderInvariance, PTL DEF Spec, ImplementsFifo
=============================================================================
