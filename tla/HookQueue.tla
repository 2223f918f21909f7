------------------------------ MODULE HookQueue ------------------------------
(***************************************************************************)
(* The offline hook-event queue on a host (src/ctl/queue.rs): `append`,    *)
(* run by an agent's hook while the app's socket is down, and `drain`, run *)
(* over ssh by the app's connect step and its probes (src/ctl/cli.rs,      *)
(* drain_cmd).  Several of each may run at once, and any may be killed.    *)
(*                                                                         *)
(* Files have an identity apart from their name, so that a line written to *)
(* a file that was renamed or removed meanwhile goes where it would go.    *)
(* Left out: lines torn by a full disk, and I/O errors other than a file   *)
(* that another drain took.                                                *)
(***************************************************************************)
EXTENDS Naturals, SequencesExt

CONSTANTS
  Events,     \* hook events; each is raised once
  Writers,    \* processes that append
  Drainers,   \* processes that drain
  Nobody,     \* holds no lock
  Files,      \* identities of files (bound: those in use at once)
  NoFile,     \* no file of that name
  MaxCrashes  \* bound: drains killed

ASSUME NobodyAssumption == Nobody \notin Writers \cup Drainers
ASSUME NoFileAssumption == NoFile \notin Files
ASSUME MaxCrashesAssumption == MaxCrashes \in Nat

VARIABLES
  lock,       \* who holds <queue>.lock
  content,    \* the lines in each file
  queue,      \* the file named queue.jsonl
  draining,   \* the files named <queue>.draining.*, by time of last write
  writer,     \* each append: its event and the file it opened
  drainer,    \* each drain: where it is, what it has to take and has taken
  appended,   \* events whose append returned, in that order
  printed,    \* events drains printed, in that order
  discarded,  \* events a failed drain had taken
  lost,       \* events a killed drain had taken
  crashes,    \* drains killed so far
  overlapped  \* two drains have been under way at once

files == <<lock, content, queue, draining>>
vars == <<files, writer, drainer, appended, printed, discarded, lost, crashes,
          overlapped>>

Idle == [at |-> "idle", todo |-> <<>>, read |-> <<>>, hand |-> <<>>, last |-> FALSE]
NotWriting == [event |-> {}, file |-> NoFile]

Init ==
  /\ lock = Nobody
  /\ content = [f \in Files |-> <<>>]
  /\ queue = NoFile /\ draining = <<>>
  /\ writer = [w \in Writers |-> NotWriting]
  /\ drainer = [d \in Drainers |-> Idle]
  /\ appended = <<>> /\ printed = <<>>
  /\ discarded = {} /\ lost = {} /\ crashes = 0
  /\ overlapped = FALSE

Writing(w) == writer[w].file # NoFile
Raised == Range(appended) \cup UNION {writer[w].event : w \in Writers}

Locked_Not == TRUE
Locked == lock = Nobody

-----------------------------------------------------------------------------
(* append: take the lock, open or create the queue, write one line.         *)

(* A file no process refers to: a drain's name for a file (pid and time) is *)
(* never used again, so it cannot come to mean another one.                 *)
FreeFile(f) ==
  /\ f # queue /\ f \notin Range(draining)
  /\ \A w \in Writers : writer[w].file # f
  /\ \A d \in Drainers : f \notin Range(drainer[d].todo)

NewFile == CHOOSE f \in Files : FreeFile(f)

Open(w, e) ==
  /\ ~Writing(w) /\ e \notin Raised
  /\ Locked
  /\ lock' = w
  /\ IF queue = NoFile
       THEN /\ \E f \in Files : FreeFile(f)
            /\ queue' = NewFile
            /\ content' = [content EXCEPT ![NewFile] = <<>>]
       ELSE UNCHANGED <<queue, content>>
  /\ writer' = [writer EXCEPT ![w] = [event |-> {e}, file |-> queue']]
  /\ UNCHANGED <<draining, drainer, appended, printed, discarded, lost, crashes,
                 overlapped>>

Write(w) ==
  /\ Writing(w)
  /\ \E e \in writer[w].event :
       /\ content' = [content EXCEPT ![writer[w].file] = Append(@, e)]
       /\ appended' = Append(appended, e)
  /\ writer' = [writer EXCEPT ![w] = NotWriting]
  /\ lock' = Nobody
  /\ UNCHANGED <<queue, draining, drainer, printed, discarded, lost, crashes,
                 overlapped>>

(* Killed before its write: the kernel drops the lock.                      *)
WriterCrash(w) ==
  /\ Writing(w)
  /\ writer' = [writer EXCEPT ![w] = NotWriting]
  /\ lock' = Nobody
  /\ UNCHANGED <<content, queue, draining, drainer, appended, printed, discarded, lost,
                 crashes, overlapped>>

-----------------------------------------------------------------------------
(* drain.                                                                   *)

Becomes(d, state) ==
  /\ drainer' = [drainer EXCEPT ![d] = state]
  /\ overlapped' = (overlapped \/ \E c \in Drainers \ {d} : drainer[c].at # "idle")
  /\ UNCHANGED <<writer, appended, lost, crashes>>

(* leftover_draining_files: their names, oldest first.                      *)
Leftovers_Ignored == <<>>
Leftovers == draining

Start(d) ==
  /\ drainer[d].at = "idle"
  /\ Becomes(d, [Idle EXCEPT !.at = "take", !.todo = Leftovers])
  /\ UNCHANGED <<files, printed, discarded>>

(* The error return drops the lines taken so far.                           *)
Fails(d) ==
  /\ Becomes(d, Idle)
  /\ discarded' = discarded \cup Range(drainer[d].hand)
  /\ UNCHANGED <<files, printed>>

(* take_lines: read, then remove; each fails if another drain was faster.   *)
Read(d) ==
  LET me == drainer[d]
      f == Head(me.todo)
  IN /\ me.at = "take" /\ me.todo # <<>>
     /\ IF f \in Range(draining)
          THEN /\ Becomes(d, [me EXCEPT !.at = "remove", !.read = content[f]])
               /\ UNCHANGED <<files, printed, discarded>>
          ELSE Fails(d)

RemoveFile(d) ==
  LET me == drainer[d]
      f == Head(me.todo)
  IN /\ me.at = "remove"
     /\ IF f \in Range(draining)
          THEN /\ Becomes(d, [me EXCEPT !.at = "take", !.todo = Tail(@),
                                        !.hand = @ \o me.read, !.read = <<>>])
               /\ draining' = RemoveAt(draining, CHOOSE i \in DOMAIN draining : draining[i] = f)
               /\ UNCHANGED <<lock, content, queue, printed, discarded>>
          ELSE Fails(d)

(* With the leftovers taken: under the lock, rename the queue away.         *)
Rename(d) ==
  LET me == drainer[d]
  IN /\ me.at = "take" /\ me.todo = <<>> /\ ~me.last
     /\ Locked
     /\ IF queue = NoFile
          THEN Becomes(d, [me EXCEPT !.at = "print"]) /\ UNCHANGED <<queue, draining>>
          ELSE /\ Becomes(d, [me EXCEPT !.todo = <<queue>>, !.last = TRUE])
               /\ draining' = Append(draining, queue)
               /\ queue' = NoFile
     /\ UNCHANGED <<lock, content, printed, discarded>>

PrintLines(d) ==
  LET me == drainer[d]
  IN /\ me.at = "print" \/ (me.at = "take" /\ me.todo = <<>> /\ me.last)
     /\ printed' = printed \o me.hand
     /\ Becomes(d, Idle)
     /\ UNCHANGED <<files, discarded>>

(* Killed with lines in hand that are neither in a file nor printed.        *)
DrainerCrash(d) ==
  /\ drainer[d].at # "idle"
  /\ crashes < MaxCrashes
  /\ crashes' = crashes + 1
  /\ drainer' = [drainer EXCEPT ![d] = Idle]
  /\ lost' = lost \cup Range(drainer[d].hand)
  /\ UNCHANGED <<files, writer, appended, printed, discarded, overlapped>>

Drain(d) == Start(d) \/ Read(d) \/ RemoveFile(d) \/ Rename(d) \/ PrintLines(d)

Next ==
  \/ \E w \in Writers : \/ \E e \in Events : Open(w, e)
                        \/ Write(w) \/ WriterCrash(w)
  \/ \E d \in Drainers : Drain(d) \/ DrainerCrash(d)

Spec == Init /\ [][Next]_vars

(* The app drains at every connect and, in queue mode, at every probe.      *)
Fairness ==
  /\ \A w \in Writers : WF_vars(Write(w))
  /\ \A d \in Drainers : WF_vars(Drain(d)) /\ SF_vars(Rename(d))

FairSpec == Spec /\ Fairness

-----------------------------------------------------------------------------
(* Properties.                                                              *)

OnDisk ==
  UNION {Range(content[f]) : f \in Range(draining) \cup ({queue} \cap Files)}
InHand == UNION {Range(drainer[d].hand) : d \in Drainers}

(* "Draining is atomic with respect to concurrent appends": no line is      *)
(* orphaned in a file that is never read again.                             *)
AppendsAreKept ==
  Range(appended) \subseteq OnDisk \cup InHand \cup Range(printed) \cup discarded \cup lost

(* However drains overlap or die, no event is delivered twice: a line is in *)
(* a file, in the hands of one drain or printed.                            *)
DeliveredOnce ==
  /\ IsInjective(printed)
  /\ OnDisk \cap Range(printed) = {}
  /\ InHand \cap (OnDisk \cup Range(printed)) = {}
  /\ \A c, d \in Drainers :
       c # d => Range(drainer[c].hand) \cap Range(drainer[d].hand) = {}

(* append and drain together neither lose a line nor deliver it twice.      *)
LinesAreConserved == AppendsAreKept /\ DeliveredOnce

(* As long as drains never overlap, this implements the queue: events come  *)
(* out in the order their appends returned, and none goes missing but what  *)
(* a killed drain held.                                                     *)
Holding(d) == drainer[d].hand # <<>>
Taken == IF \E d \in Drainers : Holding(d)
         THEN drainer[CHOOSE d \in Drainers : Holding(d)].hand ELSE <<>>
Pending ==
  Taken \o FlattenSeq([i \in DOMAIN draining |-> content[draining[i]]])
        \o (IF queue = NoFile THEN <<>> ELSE content[queue])

Fifo == INSTANCE HookFifo WITH pending <- Pending
ImplementsFifo ==
  Fifo!Init /\ [][overlapped' \/ [Fifo!Next]_<<Pending, printed>>]_vars

(* Every event that queues is delivered, or was in the hands of a drain     *)
(* that failed or was killed.                                               *)
EventsComeOut ==
  \A e \in Events : e \in OnDisk ~> e \in Range(printed) \cup discarded \cup lost
=============================================================================
