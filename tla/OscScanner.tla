----------------------------- MODULE OscScanner -----------------------------
(***************************************************************************)
(* The scanner that watches a terminal's output for escape sequences       *)
(* (src/agent/osc.rs), reads cut wherever they like, against what the      *)
(* stream as a whole says.  Bytes that mean nothing to the scanner are     *)
(* "x".  A chunk of a kitty notification (OSC 99) counts as one byte, as   *)
(* its text does; the other sequences' payloads are not looked into.  A    *)
(* byte's text is its position in the stream.                              *)
(***************************************************************************)
EXTENDS Integers, SequencesExt

CONSTANTS
  Chunk,    \* OSC 99 chunks by name: id, part ("title", "body" or "?"), done (d)
  MaxOsc,   \* MAX_OSC
  MaxReads  \* bound: reads

ConstantsOK ==
  /\ DOMAIN Chunk \cap {"ESC", "BEL", "]", "\\", "x"} = {}
  /\ MaxOsc \in Nat \ {0} /\ MaxReads \in Nat

VARIABLES
  reads,    \* reads so far
  stream,   \* every byte read
  scanner,  \* Scanner, with the length of what it has scanned
  out       \* its events

vars == <<reads, stream, scanner, out>>

NoChunk == [id |-> 0, title |-> <<>>, body |-> <<>>]   \* no kitty notification pending

Init ==
  /\ reads = 0 /\ stream = <<>> /\ out = <<>>
  /\ scanner = [state |-> "Ground", buf |-> <<>>, overflowed |-> FALSE, kitty |-> NoChunk]

-----------------------------------------------------------------------------
\* A scan in progress is the scanner, the position of its byte and its events
Goes(s, state) == [s EXCEPT !.state = state]
Says(s, e) == [s EXCEPT !.out = Append(@, e)]

Bell(n) == [kind |-> "Bell", at |-> n]
Sequence(n, payload) == [kind |-> "Sequence", at |-> n, payload |-> payload]
Notify(n, title, body) == [kind |-> "Notify", at |-> n, title |-> title, body |-> body]

\* Scanner::start_osc and push_byte; the buffer holds positions
StartOsc(s) == [s EXCEPT !.buf = <<>>, !.overflowed = FALSE, !.state = "Osc"]
PushByte(s) ==
  IF Len(s.buf) < MaxOsc THEN [s EXCEPT !.buf = Append(@, s.at)] ELSE [s EXCEPT !.overflowed = TRUE]

\* parse_99: the pending notification goes on if the chunk has its id
Capped(field, n) == IF Len(field) < MaxOsc THEN Append(field, n) ELSE field

Merge_AnyId(kitty, c, n) ==
  LET k == [kitty EXCEPT !.id = c.id]
  IN CASE c.part = "title" -> [k EXCEPT !.title = Capped(@, n)]
       [] c.part = "body"  -> [k EXCEPT !.body = Capped(@, n)]
       [] OTHER            -> k
Merge(kitty, c, n) ==
  LET k == IF kitty.id = c.id THEN kitty ELSE [NoChunk EXCEPT !.id = c.id]
  IN CASE c.part = "title" -> [k EXCEPT !.title = Capped(@, n)]
       [] c.part = "body"  -> [k EXCEPT !.body = Capped(@, n)]
       [] OTHER            -> k

Parse99(s, c, n) ==
  LET k == Merge(s.kitty, c, n)
  IN IF ~c.done THEN [s EXCEPT !.kitty = k]
       ELSE LET t == [s EXCEPT !.kitty = NoChunk]
            IN IF k.title = <<>> /\ k.body = <<>> THEN t ELSE Says(t, Notify(s.at, k.title, k.body))

\* Scanner::finish
Finish(s, bytes) ==
  LET whole == [s EXCEPT !.buf = <<>>, !.overflowed = FALSE, !.state = "Ground"]
  IN IF s.overflowed THEN whole
       ELSE IF Len(s.buf) = 1 /\ bytes[s.buf[1]] \in DOMAIN Chunk
              THEN Parse99(whole, Chunk[bytes[s.buf[1]]], s.buf[1])
              ELSE Says(whole, Sequence(s.at, s.buf))

\* Scanner::step
Step(s, b, bytes) ==
  CASE s.state = "Ground" -> CASE b = "ESC" -> Goes(s, "Esc")
                               [] b = "BEL" -> Says(s, Bell(s.at))
                               [] OTHER     -> s
    [] s.state = "Esc"    -> IF b = "]" THEN StartOsc(s) ELSE Goes(s, "Ground")
    [] s.state = "Osc"    -> CASE b = "BEL" -> Finish(s, bytes)
                               [] b = "ESC" -> Goes(s, "OscEsc")
                               [] OTHER     -> PushByte(s)
    [] s.state = "OscEsc" -> CASE b = "\\"  -> Finish(s, bytes)
                               [] b = "]"   -> StartOsc(s)
                               [] OTHER     -> Goes(s, "Ground")

\* Scanner::feed
Feed(read) ==
  LET bytes == stream \o read
      from == scanner @@ [at |-> Len(stream), out |-> out]
      to == FoldLeft(LAMBDA s, b : LET t == [s EXCEPT !.at = @ + 1] IN Step(t, b, bytes), from, read)
  IN /\ reads < MaxReads /\ reads' = reads + 1
     /\ stream' = bytes
     /\ out' = to.out
     /\ scanner' = [f \in DOMAIN scanner |-> to[f]]

\* A read is any byte, or a chunk on its own
Reads ==
  {<<b>> : b \in {"ESC", "BEL", "]", "\\", "x"}}
    \cup {<<"ESC", "]", c, "BEL">> : c \in DOMAIN Chunk}

Next == \E read \in Reads : Feed(read)
Spec == Init /\ [][Next]_vars

-----------------------------------------------------------------------------
(* What the stream says *)

Free(i, j) == \A k \in i .. j : stream[k] \notin {"ESC", "BEL"}

\* An ESC that an earlier one does not take for itself
IsEsc(i) ==
  /\ stream[i] = "ESC"
  /\ \E k \in 0 .. i - 1 :
       /\ k > 0 => stream[k] # "ESC"
       /\ \A j \in k + 1 .. i : stream[j] = "ESC"
       /\ (i - k) % 2 = 1

\* A sequence is open at n, its payload starting at i
OpenAt(i, n) ==
  /\ i > 2 /\ i <= n /\ IsEsc(i - 2) /\ stream[i - 1] = "]" /\ Free(i, n - 1)

\* Its end: BEL, or ESC and a backslash
Ends(i, n) ==
  \/ OpenAt(i, n) /\ stream[n] = "BEL"
  \/ n > 1 /\ OpenAt(i, n - 1) /\ stream[n - 1] = "ESC" /\ stream[n] = "\\"

PayloadEnd(n) == IF stream[n] = "BEL" THEN n - 1 ELSE n - 2
Positions == DOMAIN stream
Whole == {p \in Positions \X Positions : Ends(p[1], p[2]) /\ PayloadEnd(p[2]) - p[1] < MaxOsc}
IsChunk(i, n) == <<i, n>> \in Whole /\ PayloadEnd(n) = i /\ stream[i] \in DOMAIN Chunk

\* The chunks that a last one, at n, completes: those of its id since another
\* notification's, or since the id's last
Starts == {p[1] : p \in {q \in Whole : IsChunk(q[1], q[2])}}
Completes(i, last, seen) ==
  \A j \in seen : j >= i /\ j < last => Chunk[stream[j]].id = Chunk[stream[last]].id /\ ~Chunk[stream[j]].done

Text(last, part, seen) ==
  LET own == {i \in seen : i <= last /\ Chunk[stream[i]].part = part /\ Completes(i, last, seen)
                             /\ Chunk[stream[i]].id = Chunk[stream[last]].id}
      all == SetToSortSeq(own, <)
  IN SubSeq(all, 1, Min({Len(all), MaxOsc}))

Said(i, n, seen) ==
  CASE ~IsChunk(i, n) -> {Sequence(n, [k \in 1 .. PayloadEnd(n) - i + 1 |-> i + k - 1])}
    [] IsChunk(i, n) /\ Chunk[stream[i]].done ->
         LET title == Text(i, "title", seen) body == Text(i, "body", seen)
         IN IF title = <<>> /\ body = <<>> THEN {} ELSE {Notify(n, title, body)}
    [] OTHER -> {}

\* A BEL that ends nothing and is not the second half of an escape
Bare(n) ==
  /\ stream[n] = "BEL"
  /\ ~\E i \in Positions : OpenAt(i, n)
  /\ n > 1 => ~IsEsc(n - 1)

Expected(seen) ==
  UNION {Said(p[1], p[2], seen) : p \in Whole}
    \cup {Bell(n) : n \in {m \in Positions : Bare(m)}}

\* Whatever the cuts, the scanner reports the stream's sequences, whole
\* notifications and bare bells, each once and in order, and nothing longer
\* than the limit.
ReportsTheStream ==
  /\ ToSet(out) = Expected(Starts)
  /\ \A i, j \in DOMAIN out : i < j => out[i].at < out[j].at
=============================================================================
