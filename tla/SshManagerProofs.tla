-------------------------- MODULE SshManagerProofs --------------------------
(***************************************************************************)
(* Proofs about SshManager for any number of workspaces, ports, events,    *)
(* attempts and epochs, whatever order its workers report in.              *)
(*                                                                         *)
(* The argument: a Start puts its attempt's epoch in in_flight, nothing    *)
(* but that attempt's Done takes it out, and that Done ends the attempt    *)
(* for the machine too (ShownInv).  For a patient user there is one        *)
(* attempt at a time, the one in flight (OneInv): so it is never forgotten *)
(* and what it drained has a session to go with.                           *)
(***************************************************************************)
EXTENDS SshManager, SshPhasesProofs

USE BoundsAssumption

Entries ==
  [present: BOOLEAN, machine: Machines, held: SUBSET Workspaces, session: Sessions,
   forwards: SUBSET Ports, probing: BOOLEAN, in_flight: 0..MaxEpoch]
AttemptTypes ==
  [id: 1..MaxAttempts, epoch: 1..MaxEpoch, trust: BOOLEAN,
   at: {"Master", "Check", "Socket", "Drain"}, session: Sessions]
CloserTypes ==
  [epoch: 0..MaxEpoch, tag: 0..MaxAttempts, socket: BOOLEAN, forwards: SUBSET Ports]
ProbeTypes == [epoch: 1..MaxEpoch, tag: 1..MaxAttempts, drains: BOOLEAN]

(* The entry is fresh while absent, and in use from its first attempt on.   *)
EntryInv ==
  /\ ~host.present => host = Fresh
  /\ host.machine.epoch <= MaxEpoch
  /\ host.machine.phase # Disconnected => host.machine.epoch > 0 /\ started > 0

(* What the channel holds was raised, and only a connected attempt drains.  *)
ChannelInv ==
  \A i \in DOMAIN rx :
    /\ rx[i].type \in {"Done", "Drained"} => rx[i].drained \subseteq raised
    /\ rx[i].type = "Done" /\ rx[i].outcome # "Connected" => rx[i].drained = {}

IsDone(i) == i \in DOMAIN rx /\ rx[i].type = "Done"

(* NeverStuck, with positions in the channel.                               *)
ShownInv ==
  IsKind(host.machine, Busy) =>
    /\ host.in_flight = host.machine.epoch
    /\ \/ \E a \in attempts : a.epoch = host.machine.epoch
       \/ \E i \in DOMAIN rx : IsDone(i) /\ rx[i].epoch = host.machine.epoch

(* One attempt is under way or has its outcome in the channel.              *)
OneInv ==
  /\ \A a, b \in attempts : a = b
  /\ \A a \in attempts : a.epoch = host.in_flight
  /\ \A i, j \in DOMAIN rx : IsDone(i) /\ IsDone(j) => i = j
  /\ \A i \in DOMAIN rx : IsDone(i) => attempts = {} /\ rx[i].epoch = host.in_flight
  /\ attempts # {} \/ (\E i \in DOMAIN rx : IsDone(i)) =>
       IsKind(host.machine, Busy \cup {"Disconnected"})
  /\ dropped = {}

IInv ==
  /\ TypeOK
  /\ EntryInv
  /\ ChannelInv
  /\ ShownInv
  /\ HiddenIsIdle
  /\ Patient => OneInv

-----------------------------------------------------------------------------
(* What a handled event does to an entry and to the attempts (perform): a   *)
(* new attempt is in flight, or there is none and the machine is not busy   *)
(* unless it was.                                                           *)
Acts(m, result) ==
  \/ Starts(m, result) \/ Cancels(m, result)
  \/ EndsIn(m, result, {"Connected", "HostKeyUnknown", "Failed", "Retrying"})
  \/ result.machine = m /\ result.action \in {NoAction, CloseForwards}

LEMMA PerformStep ==
  ASSUME TypeOK, NEW h \in Entries, h.machine.epoch <= MaxEpoch, NEW result,
         Acts(h.machine, result), Spawns(h, result)
  PROVE  /\ Performed(h, result) \in Entries
         /\ Performed(h, result).machine = result.machine
         /\ Performed(h, result).held = h.held
         /\ Performed(h, result).present = h.present
         /\ Performed(h, result).probing = h.probing
         /\ result.machine \in Machines /\ result.machine.epoch <= MaxEpoch
         /\ attempts' \subseteq AttemptTypes /\ closers' \subseteq CloserTypes
         /\ started' \in started..MaxAttempts
         /\ \/ /\ Starts(h.machine, result)
               /\ Performed(h, result).in_flight = result.machine.epoch
               /\ started' > 0
               /\ \E a \in AttemptTypes :
                    attempts' = attempts \cup {a} /\ a.epoch = result.machine.epoch
            \/ /\ ~IsKind(result.machine, Busy) \/ result.machine = h.machine
               /\ Performed(h, result).in_flight = h.in_flight
               /\ UNCHANGED <<attempts, started>>
<1> USE DEF Entries
<1>1. /\ h.machine \in Machines /\ h.machine.epoch \in Nat /\ started \in 0..MaxAttempts
      /\ attempts \subseteq AttemptTypes /\ closers \subseteq CloserTypes
  BY DEF TypeOK, Machines, AttemptTypes, CloserTypes
<1>2. result.machine \in Machines /\ result.machine.epoch <= MaxEpoch
  BY <1>1 DEF Acts, Starts, Cancels, EndsIn, Spawns
<1>3. closers' \subseteq CloserTypes
  <2>1. h.machine.epoch \in 0..MaxEpoch /\ (h.session # "none") \in BOOLEAN
        /\ h.forwards \in SUBSET Ports
    BY <1>1
  <2>2. Closer(h) \in CloserTypes
    BY ONLY <1>1, <2>1 DEF Closer, CloserTypes
  <2> QED  BY <1>1, <2>2 DEF Spawns
<1>4. CASE Starts(h.machine, result)
  <2>1. PICK trust \in BOOLEAN : result.action = Start(h.machine.epoch + 1, trust)
    BY <1>4 DEF Starts
  <2>2. IsStart(result) /\ ~IsClose(result) /\ result.action.epoch = result.machine.epoch
        /\ result.action.trust = trust
    BY <1>4, <2>1 DEF Starts, Start, IsStart, IsClose
  <2>3. result.machine.epoch \in 1..MaxEpoch /\ started < MaxAttempts
    BY <1>1, <1>2, <1>4, <2>2 DEF Starts, Spawns
  <2>4. NewAttempt(result.action) \in AttemptTypes
        /\ NewAttempt(result.action).epoch = result.machine.epoch
    BY <1>1, <2>2, <2>3 DEF NewAttempt, AttemptTypes, Sessions
  <2>5. attempts' = attempts \cup {NewAttempt(result.action)} /\ started' = started + 1
    BY <2>2 DEF Spawns
  <2>6. Performed(h, result) = [h EXCEPT !.machine = result.machine,
                                         !.in_flight = result.machine.epoch,
                                         !.session = h.session, !.forwards = h.forwards]
    BY <2>2 DEF Performed
  <2>7. /\ Performed(h, result) \in Entries
        /\ Performed(h, result).machine = result.machine
        /\ Performed(h, result).in_flight = result.machine.epoch
        /\ Performed(h, result).held = h.held
        /\ Performed(h, result).present = h.present
        /\ Performed(h, result).probing = h.probing
    <3>1. result.machine.epoch \in 0..MaxEpoch /\ result.machine \in Machines /\ h \in Entries
          /\ h.session \in Sessions /\ h.forwards \in SUBSET Ports
      BY <1>2, <2>3
    <3> QED  BY ONLY <2>6, <3>1 DEF Entries
  <2>8. started' \in started..MaxAttempts /\ started' > 0
    BY <1>1, <2>3, <2>5
  <2>9. attempts' \subseteq AttemptTypes
    BY <1>1, <2>4, <2>5
  <2> QED  BY <1>2, <1>3, <1>4, <2>4, <2>5, <2>7, <2>8, <2>9
<1>5. CASE ~Starts(h.machine, result)
  <2>1. ~IsStart(result)
    BY <1>5 DEF Acts, Cancels, EndsIn, IsStart, NoAction, CloseForwards
  <2>2. UNCHANGED <<attempts, started>>
    BY <2>1 DEF Spawns
  <2>3. ~IsKind(result.machine, Busy) \/ result.machine = h.machine
    BY <1>5 DEF Acts, Cancels, EndsIn, IsKind, Busy, Disconnected
  <2>4. PICK session \in Sessions, forwards \in SUBSET Ports :
          Performed(h, result) = [h EXCEPT !.machine = result.machine, !.in_flight = h.in_flight,
                                           !.session = session, !.forwards = forwards]
    BY <2>1 DEF Performed, Sessions
  <2>5. /\ Performed(h, result) \in Entries
        /\ Performed(h, result).machine = result.machine
        /\ Performed(h, result).in_flight = h.in_flight
        /\ Performed(h, result).held = h.held
        /\ Performed(h, result).present = h.present
        /\ Performed(h, result).probing = h.probing
    BY <1>2, <2>4
  <2> QED  BY <1>1, <1>2, <1>3, <2>2, <2>3, <2>5
<1> QED  BY <1>4, <1>5

-----------------------------------------------------------------------------
(* What is not the Manager's stays, but for events the UI is given.         *)
Apart ==
  /\ UNCHANGED <<openers, remote, raised, queue, dropped>>
  /\ delivered' \subseteq raised

Idle == attempts = {} /\ \A i \in DOMAIN rx : ~IsDone(i)

(* What a start, a cancel or nothing at all preserves, whatever led there   *)
(* and unless it takes a Done out of the channel.                           *)
LEMMA EventStep ==
  ASSUME IInv, NEW next \in Entries, host' = next, Apart,
         attempts' \subseteq AttemptTypes, closers' \subseteq CloserTypes,
         probes' \subseteq ProbeTypes, polling' \in BOOLEAN,
         rx' = rx \/ (rx # <<>> /\ rx' = Tail(rx) /\ Head(rx).type # "Done"),
         started' \in started..MaxAttempts, next.machine.epoch <= MaxEpoch,
         next.present \/ next = Fresh,
         Held(next) \/ next.machine.phase = Disconnected,
         \/ /\ IsKind(next.machine, Busy) /\ next.machine.epoch > 0 /\ started' > 0
            /\ next.in_flight = next.machine.epoch
            /\ \E a \in AttemptTypes : attempts' = attempts \cup {a} /\ a.epoch = next.machine.epoch
            /\ Patient => Idle
         \/ /\ attempts' = attempts
            /\ next.in_flight = host.in_flight
            /\ next.machine = host.machine \/ next.machine.phase = Disconnected
  PROVE  IInv'
<1>0. /\ UNCHANGED <<openers, master, socket, opened, refuses, raised, queue, dropped>>
      /\ delivered' \subseteq raised
  BY DEF Apart, remote
<1>1. /\ rx \in Seq(Messages) /\ started \in Nat /\ host.machine.epoch \in Nat
      /\ next.machine.epoch \in Nat
  BY DEF IInv, TypeOK, Entries, Machines
<1>2. EntryInv'
  BY <1>1 DEF IInv, EntryInv, IsKind, Busy, Disconnected
<1>3. ChannelInv'
  BY <1>0, <1>1 DEF IInv, ChannelInv
<1>4. HiddenIsIdle'
  BY DEF HiddenIsIdle, Held
<1>5. ASSUME NEW e, \E i \in DOMAIN rx : IsDone(i) /\ rx[i].epoch = e
      PROVE  \E i \in DOMAIN rx' : IsDone(i)' /\ rx'[i].epoch = e
  <2>1. PICK i \in DOMAIN rx : IsDone(i) /\ rx[i].epoch = e
    BY <1>5
  <2>2. CASE rx' = rx
    BY <2>1, <2>2 DEF IsDone
  <2>3. CASE rx # <<>> /\ rx' = Tail(rx) /\ Head(rx).type # "Done"
    <3>1. i - 1 \in DOMAIN rx' /\ rx'[i - 1] = rx[i]
      BY <1>1, <2>1, <2>3 DEF IsDone
    <3> QED  BY <2>1, <3>1 DEF IsDone
  <2> QED  BY <2>2, <2>3
<1>6. ShownInv'
  <2>1. CASE \E a \in AttemptTypes : attempts' = attempts \cup {a} /\ a.epoch = next.machine.epoch
             /\ next.in_flight = next.machine.epoch
    BY <2>1 DEF ShownInv
  <2>2. CASE next.machine.phase = Disconnected
    BY <2>2 DEF ShownInv, IsKind, Busy, Disconnected
  <2>3. CASE attempts' = attempts /\ next.in_flight = host.in_flight /\ next.machine = host.machine
    BY <1>5, <2>3 DEF IInv, ShownInv
  <2> QED  BY <2>1, <2>2, <2>3
<1>7. ASSUME Patient PROVE OneInv'
  <2>1. \A i \in DOMAIN rx' : \E j \in DOMAIN rx : rx[j] = rx'[i]
    <3>1. CASE rx' = rx
      BY <3>1
    <3>2. CASE rx # <<>> /\ rx' = Tail(rx)
      <4>1. \A i \in DOMAIN rx' : i + 1 \in DOMAIN rx /\ rx'[i] = rx[i + 1]
        BY <1>1, <3>2
      <4> QED  BY <4>1
    <3> QED  BY <3>1, <3>2
  <2>2. \A i \in DOMAIN rx' : IsDone(i)' => \E j \in DOMAIN rx : IsDone(j) /\ rx[j] = rx'[i]
    BY <2>1 DEF IsDone
  <2>3. \A i, j \in DOMAIN rx' : IsDone(i)' /\ IsDone(j)' => i = j
    <3>1. CASE rx' = rx
      BY <1>7, <3>1 DEF IInv, OneInv, IsDone
    <3>2. CASE rx # <<>> /\ rx' = Tail(rx)
      <4>1. \A i \in DOMAIN rx' : i \in Nat /\ i + 1 \in DOMAIN rx /\ rx'[i] = rx[i + 1]
        BY <1>1, <3>2
      <4>2. \A i \in DOMAIN rx' : IsDone(i)' => IsDone(i + 1)
        BY <4>1 DEF IsDone
      <4>3. ASSUME NEW i \in DOMAIN rx', NEW j \in DOMAIN rx', IsDone(i)', IsDone(j)'  PROVE i = j
        <5>1. i + 1 = j + 1
          BY <1>7, <4>1, <4>2, <4>3 DEF IInv, OneInv
        <5> QED  BY <4>1, <5>1
      <4> QED  BY <4>3
    <3> QED  BY <3>1, <3>2
  <2>4. CASE Idle
    <3>1. \A i \in DOMAIN rx' : ~IsDone(i)'
      BY <2>2, <2>4 DEF Idle
    <3> QED  BY <1>0, <1>7, <2>3, <2>4, <3>1 DEF IInv, OneInv, Idle, IsKind
  <2>5. CASE attempts' = attempts /\ next.in_flight = host.in_flight
             /\ (next.machine = host.machine \/ next.machine.phase = Disconnected)
    <3>1. \A i \in DOMAIN rx' : IsDone(i)' => attempts' = {} /\ rx'[i].epoch = host'.in_flight
      BY <1>7, <2>2, <2>5 DEF IInv, OneInv
    <3>2. attempts' # {} \/ (\E i \in DOMAIN rx' : IsDone(i)') =>
            IsKind(next.machine, Busy \cup {"Disconnected"})
      BY <1>7, <2>2, <2>5 DEF IInv, OneInv, IsKind, Disconnected
    <3> QED  BY <1>0, <1>7, <2>3, <2>5, <3>1, <3>2 DEF IInv, OneInv
  <2> QED  BY <1>7, <2>4, <2>5
<1>8. TypeOK'
  <2>1. rx' \in Seq(Messages)
    BY <1>1
  <2>2. started' \in 0..MaxAttempts
    BY <1>1
  <2> QED  BY <1>0, <2>1, <2>2 DEF IInv, TypeOK, Entries, AttemptTypes, CloserTypes, ProbeTypes
<1> QED  BY <1>2, <1>3, <1>4, <1>6, <1>7, <1>8 DEF IInv

-----------------------------------------------------------------------------
(* Calls from the UI thread.                                                *)
LEMMA CallStep == ASSUME IInv, UI PROVE IInv'
<1>0. UNCHANGED <<openers, remote, hooks>> => Apart
  BY DEF Apart, hooks, IInv, TypeOK
<1>1. /\ TypeOK /\ host \in Entries /\ host.machine \in Machines /\ host.machine.epoch \in Nat
      /\ host.machine.epoch <= MaxEpoch /\ attempts \subseteq AttemptTypes
      /\ closers \subseteq CloserTypes /\ probes \subseteq ProbeTypes /\ polling \in BOOLEAN
      /\ started \in 0..MaxAttempts
  BY DEF IInv, TypeOK, EntryInv, Entries, AttemptTypes, CloserTypes, ProbeTypes, Machines
<1>2. MayCall => (Patient => Idle)
  BY DEF MayCall, AtWork, Idle, IsDone
\* an event of the user's that the entry h, with the machine of host, handles
<1>3. ASSUME NEW h \in Entries, NEW result,
             h.machine = host.machine, h.in_flight = host.in_flight, h.present,
             \/ Starts(h.machine, result) /\ Held(h) /\ (Patient => Idle)
             \/ Cancels(h.machine, result)
             \/ result = Ignored(h.machine) /\ Held(h),
             host' = Performed(h, result), Spawns(h, result),
             UNCHANGED <<polling, rx, probes, openers, remote, hooks>>
      PROVE  IInv'
  <2>1. Acts(h.machine, result)
    BY <1>3 DEF Acts, Ignored, Then
  <2> DEFINE next == Performed(h, result)
  <2>2. /\ next \in Entries /\ next.machine = result.machine /\ next.present
        /\ Held(next) = Held(h) /\ next.machine.epoch <= MaxEpoch
        /\ attempts' \subseteq AttemptTypes /\ closers' \subseteq CloserTypes
        /\ started' \in started..MaxAttempts
    BY <1>1, <1>3, <2>1, PerformStep DEF Held
  <2>3. Held(next) \/ next.machine.phase = Disconnected
    BY <1>3, <2>2 DEF Cancels
  <2>4. \/ /\ Starts(h.machine, result) /\ (Patient => Idle)
           /\ next.in_flight = result.machine.epoch /\ started' > 0
           /\ \E a \in AttemptTypes : attempts' = attempts \cup {a} /\ a.epoch = next.machine.epoch
        \/ /\ attempts' = attempts /\ next.in_flight = h.in_flight
           /\ result.machine = h.machine \/ result.machine.phase = Disconnected
    <3>1. ~(Starts(h.machine, result) /\ Cancels(h.machine, result))
      BY DEF Starts, Cancels, Busy, Disconnected
    <3>2. ~(Starts(h.machine, result) /\ result.machine = h.machine)
      BY <1>1, <1>3 DEF Starts
    <3>3. Cancels(h.machine, result) => result.machine.phase = Disconnected
      BY DEF Cancels
    <3>4. Starts(h.machine, result) => IsKind(result.machine, Busy)
      BY DEF Starts, IsKind
    <3>5. result = Ignored(h.machine) => result.machine = h.machine
      BY DEF Ignored, Then
    <3> QED  BY <1>1, <1>3, <2>1, <2>2, <3>1, <3>2, <3>3, <3>4, <3>5, PerformStep
  <2> HIDE DEF next
  <2>5. host' = next
    BY <1>3 DEF next
  <2> QED  BY <1>0, <1>1, <1>3, <2>2, <2>3, <2>4, <2>5, EventStep DEF Starts, IsKind
<1>4. ASSUME NEW w \in Workspaces, Acquire(w)  PROVE IInv'
  <2> DEFINE h == [host EXCEPT !.present = TRUE, !.held = @ \cup {w}]
             result == IF IsConnected(h.machine) THEN Ignored(h.machine)
                                                 ELSE OnConnect(h.machine)
  <2>1. /\ h \in Entries /\ h.machine = host.machine /\ h.in_flight = host.in_flight
        /\ h.present /\ Held(h)
    BY <1>1 DEF Entries, Held
  <2>2. /\ host' = Performed(h, result) /\ Spawns(h, result) /\ MayCall
        /\ UNCHANGED <<polling, rx, probes, openers, remote, hooks>>
    BY <1>4 DEF Acquire
  <2>3. Starts(h.machine, result) \/ result = Ignored(h.machine)
    BY <1>1, <2>1, UserResults
  <2> HIDE DEF h, result
  <2> QED  BY <1>2, <1>3, <2>1, <2>2, <2>3
<1>5. ASSUME NEW w \in Workspaces, Release(w)  PROVE IInv'
  <2> DEFINE h == [host EXCEPT !.held = @ \ {w}]
             result == Disconnects(h)
  <2>1. /\ h \in Entries /\ h.machine = host.machine /\ h.in_flight = host.in_flight
        /\ h.present = host.present
    BY <1>1 DEF Entries
  <2>2. /\ host' = Reaped(Performed(h, result)) /\ Spawns(h, result) /\ w \in host.held
        /\ UNCHANGED <<polling, rx, probes, openers, remote, hooks>>
    BY <1>5 DEF Release
  <2>3. Cancels(h.machine, result) \/ (result = Ignored(h.machine) /\ Held(h))
    BY <1>1, <2>1, UserResults DEF Disconnects
  <2>4. h.present
    BY <2>1, <2>2 DEF IInv, EntryInv, Fresh
  <2>5. CASE host' = Performed(h, result)
    <3> HIDE DEF h, result
    <3> QED  BY <1>3, <2>1, <2>2, <2>3, <2>4, <2>5
  <2>6. CASE host' = Fresh /\ ~Held(Performed(h, result)) /\ Performed(h, result).in_flight = 0
    <3> HIDE DEF h, result
    <3>1. Acts(h.machine, result)
      BY <2>3 DEF Acts, Ignored, Then
    <3>2. /\ attempts' = attempts /\ started' = started /\ closers' \subseteq CloserTypes
          /\ host.in_flight = 0
      BY <1>1, <2>1, <2>2, <2>3, <2>6, <3>1, PerformStep DEF Cancels, Starts, Ignored, Then
    <3>3. /\ Fresh \in Entries /\ Fresh.in_flight = 0 /\ Fresh.machine.phase = Disconnected
          /\ Fresh.machine.epoch <= MaxEpoch
      BY BackoffTypes, PhaseTypes DEF Fresh, Entries, NewMachine, Machines, Sessions
    <3> QED  BY <1>0, <1>1, <2>2, <2>6, <3>2, <3>3, EventStep
  <2> QED  BY <2>2, <2>5, <2>6 DEF Reaped
<1>6. ASSUME NEW result, Send(result), (Starts(host.machine, result) /\ MayCall)
               \/ Cancels(host.machine, result) \/ result = Ignored(host.machine)
      PROVE  IInv'
  <2>1. host.present /\ Held(host)
    BY <1>6 DEF Send, Held, IInv, EntryInv, Fresh
  <2> QED  BY <1>1, <1>2, <1>3, <1>6, <2>1 DEF Send
<1>7. CASE Trust \/ RetryNow \/ Cancel
  BY <1>1, <1>6, <1>7, UserResults DEF Trust, RetryNow, Cancel
<1>8. CASE Probe
  <2> DEFINE next == [host EXCEPT !.probing = TRUE]
  <2>1. /\ next \in Entries /\ next.machine = host.machine /\ next.in_flight = host.in_flight
        /\ next.present = host.present /\ next.held = host.held
    BY <1>1 DEF Entries
  <2>2. ProbeWorker(host) \in ProbeTypes
    BY <1>1, <1>8 DEF Probe, MayProbe, IsConnected, IsKind, ProbeWorker, ProbeTypes, IInv, EntryInv,
                      Disconnected
  <2>3. /\ host' = next /\ probes' = probes \cup {ProbeWorker(host)} /\ host.present
        /\ UNCHANGED <<polling, rx, attempts, started, closers, openers, remote, hooks>>
    BY <1>8 DEF Probe, MayProbe
  <2>4. Held(next) \/ next.machine.phase = Disconnected
    BY <2>1 DEF IInv, HiddenIsIdle, Held
  <2>5. next.machine.epoch <= MaxEpoch /\ probes' \subseteq ProbeTypes /\ polling' \in BOOLEAN
        /\ attempts' \subseteq AttemptTypes /\ closers' \subseteq CloserTypes
        /\ started' \in started..MaxAttempts
    BY <1>1, <2>1, <2>2, <2>3
  <2> HIDE DEF next
  <2> QED  BY <1>0, <2>1, <2>3, <2>4, <2>5, EventStep
<1>9. ASSUME NEW p \in Ports, CancelPort(p)  PROVE IInv'
  <2> DEFINE next == [host EXCEPT !.forwards = @ \ {p}]
             c == [epoch |-> host.machine.epoch, tag |-> started, socket |-> FALSE, forwards |-> {p}]
  <2>1. /\ next \in Entries /\ next.machine = host.machine /\ next.in_flight = host.in_flight
        /\ next.present = host.present /\ next.held = host.held
    BY <1>1 DEF Entries
  <2>2. c \in CloserTypes
    BY <1>1 DEF CloserTypes
  <2>3. /\ host' = next /\ closers' = closers \cup {c} /\ host.present
        /\ UNCHANGED <<polling, rx, attempts, started, probes, openers, remote, hooks>>
    BY <1>9 DEF CancelPort, IInv, EntryInv, Fresh
  <2>4. Held(next) \/ next.machine.phase = Disconnected
    BY <2>1 DEF IInv, HiddenIsIdle, Held
  <2>5. next.machine.epoch <= MaxEpoch /\ probes' \subseteq ProbeTypes /\ polling' \in BOOLEAN
        /\ attempts' \subseteq AttemptTypes /\ closers' \subseteq CloserTypes
        /\ started' \in started..MaxAttempts
    <3> HIDE DEF c
    <3> QED  BY <1>1, <2>1, <2>2, <2>3
  <2> HIDE DEF next, c
  <2> QED  BY <1>0, <2>1, <2>3, <2>4, <2>5, EventStep
<1>10. ASSUME NEW p \in Ports, ForwardPort(p)  PROVE IInv'
  BY <1>10 DEF ForwardPort, IInv, TypeOK, EntryInv, ChannelInv, ShownInv, HiddenIsIdle, OneInv, IsDone,
               remote, hooks
<1> QED  BY <1>4, <1>5, <1>7, <1>8, <1>9, <1>10 DEF UI

-----------------------------------------------------------------------------
(* A Done ends the attempt for the machine, or is none of its business.     *)
LEMMA DoneResults ==
  ASSUME NEW m \in Machines, NEW msg \in Messages, msg.type = "Done"
  PROVE  /\ msg.epoch \in 1..MaxEpoch /\ msg.session \in Sessions /\ msg.outcome \in Outcomes
         /\ msg.drained \subseteq Events
         /\ InAttempt(m, msg.epoch) =>
              EndsIn(m, DoneResult(m, msg), {"Connected", "HostKeyUnknown", "Failed", "Retrying"})
         /\ ~InAttempt(m, msg.epoch) =>
              /\ DoneResult(m, msg).machine = m
              /\ DoneResult(m, msg).action \in {NoAction, CloseForwards}
<1>1. /\ msg.epoch \in 1..MaxEpoch /\ msg.session \in Sessions /\ msg.outcome \in Outcomes
      /\ msg.drained \subseteq Events
  BY DEF Messages
<1>2. msg.epoch \in Nat /\ "Tools" \in Steps /\ Early \in Nat
  BY <1>1 DEF Steps, Early
<1>3. \A fatal \in BOOLEAN :
        /\ InAttempt(m, msg.epoch) =>
             EndsIn(m, OnFailed(m, msg.epoch, "Tools", fatal, Early), {"Failed", "Retrying"})
        /\ ~InAttempt(m, msg.epoch) => OnFailed(m, msg.epoch, "Tools", fatal, Early) = Ignored(m)
  BY <1>2, AttemptResults
<1>4. /\ InAttempt(m, msg.epoch) =>
           /\ EndsIn(m, OnConnected(m, msg.epoch), {"Connected"})
           /\ EndsIn(m, OnHostKeyUnknown(m, msg.epoch), {"HostKeyUnknown"})
      /\ ~InAttempt(m, msg.epoch) =>
           /\ OnConnected(m, msg.epoch) = IF IsKind(m, {"Disconnected"}) /\ msg.epoch < m.epoch
                                             THEN Then(m, CloseForwards) ELSE Ignored(m)
           /\ OnHostKeyUnknown(m, msg.epoch) = Ignored(m)
  BY <1>2, AttemptResults
<1>5. CASE msg.outcome = "Connected"
  BY <1>1, <1>4, <1>5 DEF DoneResult, EndsIn, Ignored, Then
<1>6. CASE msg.outcome = "HostKeyUnknown"
  BY <1>1, <1>4, <1>6 DEF DoneResult, EndsIn, Ignored, Then
<1>7. CASE msg.outcome \in {"Fatal", "Retryable"}
  <2>1. PICK fatal \in BOOLEAN : fatal <=> msg.outcome = "Fatal"
    OBVIOUS
  <2>2. DoneResult(m, msg) = OnFailed(m, msg.epoch, "Tools", fatal, Early)
    BY <1>7, <2>1 DEF DoneResult
  <2> QED  BY <1>1, <1>3, <2>2 DEF EndsIn, Ignored, Then
<1> QED  BY <1>1, <1>5, <1>6, <1>7 DEF Outcomes

LEMMA ApplyDoneStep == ASSUME IInv, ApplyDone PROVE IInv'
<1> DEFINE msg == Head(rx)
           h == [Settled(host, msg) EXCEPT
                   !.session = IF KeepsSession(host, msg) THEN msg.session ELSE @]
           result == DoneResult(h.machine, msg)
<1>1. /\ TypeOK /\ host \in Entries /\ host.machine \in Machines /\ host.machine.epoch \in Nat
      /\ host.machine.epoch <= MaxEpoch /\ rx \in Seq(Messages) /\ host.in_flight \in Nat
      /\ \A a \in attempts : a.epoch \in Nat
  BY DEF IInv, TypeOK, EntryInv, Entries, Machines
<1>2. /\ rx # <<>> /\ rx' = Tail(rx) /\ polling' = TRUE /\ msg.type = "Done" /\ msg \in Messages
      /\ UNCHANGED <<probes, openers, master, socket, opened, refuses, raised, queue>>
      /\ IF host.present THEN host' = Performed(h, result) /\ Spawns(h, result)
         ELSE UNCHANGED <<host, attempts, started, closers>>
      /\ IF KeepsSession(host, msg)
           THEN delivered' = delivered \cup msg.drained /\ UNCHANGED dropped
           ELSE dropped' = dropped \cup msg.drained /\ UNCHANGED delivered
  BY <1>1 DEF ApplyDone, Apply, remote
<1>3. 1 \in DOMAIN rx /\ rx[1] = msg
  BY <1>1, <1>2
<1>4. \A i \in DOMAIN rx' : i \in Nat /\ i + 1 \in DOMAIN rx /\ rx'[i] = rx[i + 1]
  BY <1>1, <1>2
<1>5. \A i \in DOMAIN rx : i # 1 => i - 1 \in DOMAIN rx' /\ rx'[i - 1] = rx[i]
  BY <1>1, <1>2
<1>6. msg.drained \subseteq raised /\ (msg.outcome # "Connected" => msg.drained = {})
  BY <1>2, <1>3 DEF IInv, ChannelInv
<1>7. msg.epoch \in 1..MaxEpoch /\ msg.session \in Sessions
  BY <1>2, DoneResults, <1>1
<1>8. /\ h \in Entries /\ h.machine = host.machine /\ h.held = host.held
      /\ h.present = host.present
      /\ h.in_flight = IF host.in_flight = msg.epoch THEN 0 ELSE host.in_flight
  <2> DEFINE session == IF KeepsSession(host, msg) THEN msg.session ELSE host.session
             flight == IF host.in_flight = msg.epoch THEN 0 ELSE host.in_flight
  <2>1. session \in Sessions /\ flight \in 0..MaxEpoch
    BY <1>1, <1>7 DEF Entries
  <2>2. h = [host EXCEPT !.in_flight = flight, !.session = session]
    BY <1>1 DEF Settled, Entries
  <2> HIDE DEF session
  <2> QED  BY <1>1, <2>1, <2>2 DEF Entries
<1> HIDE DEF msg, h
<1>9. /\ InAttempt(host.machine, msg.epoch) =>
           EndsIn(h.machine, result, {"Connected", "HostKeyUnknown", "Failed", "Retrying"})
      /\ ~InAttempt(host.machine, msg.epoch) =>
           result.machine = h.machine /\ result.action \in {NoAction, CloseForwards}
  BY <1>1, <1>2, <1>8, DoneResults
<1> HIDE DEF result
<1>10. Acts(h.machine, result)
  BY <1>9 DEF Acts
\* the entry and the workers afterwards
<1>11. /\ host' \in Entries /\ host'.machine.epoch <= MaxEpoch /\ host'.held = host.held
       /\ host'.present = host.present
       /\ attempts' = attempts /\ started' = started /\ closers' \subseteq CloserTypes
       /\ host.present => host'.in_flight = h.in_flight /\ host'.machine = result.machine
       /\ ~host.present => host' = host
  <2>1. CASE host.present
    <3>1. ~Starts(h.machine, result)
      BY <1>1, <1>8, <1>9 DEF Starts, EndsIn
    <3>2. host' = Performed(h, result) /\ Spawns(h, result) /\ h.machine.epoch <= MaxEpoch
      BY <1>1, <1>2, <1>8, <2>1
    <3> QED  BY ONLY <1>1, <1>8, <1>10, <2>1, <3>1, <3>2, PerformStep, BoundsAssumption
  <2>2. CASE ~host.present
    BY <1>1, <1>2, <2>2 DEF TypeOK, CloserTypes
  <2> QED  BY <2>1, <2>2
<1>12. TypeOK'
  <2>1. delivered' \subseteq raised' /\ dropped' \subseteq raised'
    BY <1>1, <1>2, <1>6 DEF TypeOK
  <2>2. rx' \in Seq(Messages)
    BY <1>1, <1>2
  <2> QED  BY <1>1, <1>2, <1>11, <2>1, <2>2 DEF TypeOK, Entries, CloserTypes
<1>13. EntryInv'
  <2>1. CASE InAttempt(host.machine, msg.epoch) /\ host.present
    <3>1. host.machine.phase # Disconnected
      BY <2>1 DEF InAttempt, IsKind, Busy, Disconnected
    <3> QED  BY <1>8, <1>9, <1>11, <2>1, <3>1 DEF EndsIn, IInv, EntryInv
  <2>2. CASE ~(InAttempt(host.machine, msg.epoch) /\ host.present)
    BY <1>8, <1>9, <1>11, <2>2 DEF IInv, EntryInv
  <2> QED  BY <2>1, <2>2
<1>14. ChannelInv'
  BY <1>2, <1>4 DEF IInv, ChannelInv
<1>15. HiddenIsIdle'
  <2>1. ~Held(host) => ~InAttempt(host.machine, msg.epoch)
    BY DEF IInv, HiddenIsIdle, InAttempt, IsKind, Busy, Disconnected
  <2> QED  BY <1>8, <1>9, <1>11, <2>1 DEF IInv, HiddenIsIdle, Held
<1>16. ShownInv'
  <2> SUFFICES ASSUME IsKind(host'.machine, Busy)
               PROVE  /\ host'.in_flight = host'.machine.epoch
                      /\ \/ \E a \in attempts' : a.epoch = host'.machine.epoch
                         \/ \E i \in DOMAIN rx' : IsDone(i)' /\ rx'[i].epoch = host'.machine.epoch
    BY DEF ShownInv
  <2>1. host.present /\ ~InAttempt(host.machine, msg.epoch)
    BY <1>8, <1>9, <1>11 DEF EndsIn, IsKind, Busy, IInv, EntryInv, Fresh, NewMachine, Disconnected
  <2>2. host'.machine = host.machine
    BY <1>8, <1>9, <1>11, <2>1
  <2>3. msg.epoch # host.machine.epoch
    BY <2>1, <2>2 DEF InAttempt
  <2>4. host'.in_flight = host'.machine.epoch
    BY <1>8, <1>11, <2>1, <2>2, <2>3 DEF IInv, ShownInv
  <2>5. CASE \E a \in attempts : a.epoch = host.machine.epoch
    BY <1>11, <2>2, <2>4, <2>5
  <2>6. CASE \E i \in DOMAIN rx : IsDone(i) /\ rx[i].epoch = host.machine.epoch
    <3>1. PICK i \in DOMAIN rx : IsDone(i) /\ rx[i].epoch = host.machine.epoch
      BY <2>6
    <3>2. i # 1
      BY <1>3, <2>3, <3>1
    <3> QED  BY <1>5, <2>2, <2>4, <3>1, <3>2 DEF IsDone
  <2> QED  BY <2>2, <2>5, <2>6 DEF IInv, ShownInv
<1>17. ASSUME Patient PROVE OneInv'
  <2>1. attempts = {} /\ msg.epoch = host.in_flight
    BY <1>2, <1>3, <1>17 DEF IInv, OneInv, IsDone
  <2>2. \A i \in DOMAIN rx' : ~IsDone(i)'
    <3> SUFFICES ASSUME NEW i \in DOMAIN rx', IsDone(i)' PROVE FALSE
      OBVIOUS
    <3>1. IsDone(i + 1) /\ IsDone(1) /\ i + 1 \in DOMAIN rx /\ i \in DOMAIN rx'
      BY <1>2, <1>3, <1>4 DEF IsDone
    <3>2. i + 1 = 1
      BY <1>3, <1>17, <3>1 DEF IInv, OneInv
    <3> QED  BY <1>1, <1>2, <3>1, <3>2
  <2>3. dropped' = {}
    <3>1. host.present
      BY <1>7, <2>1 DEF IInv, EntryInv, Fresh
    <3>2. IsKind(host.machine, Busy \cup {"Disconnected"})
      BY <1>2, <1>3, <1>17 DEF IInv, OneInv, IsDone
    <3>3. IsKind(host.machine, Busy) => msg.epoch = host.machine.epoch
      BY <2>1 DEF IInv, ShownInv
    <3>4. IsKind(host.machine, {"Disconnected"}) => host.machine.phase = Disconnected
      BY <1>1, PhaseFields DEF IsKind, Machines
    <3>5. msg.outcome = "Connected" => KeepsSession(host, msg)
      BY <3>1, <3>2, <3>3, <3>4 DEF KeepsSession, IsKind
    <3> QED  BY <1>2, <1>6, <1>17, <3>5 DEF IInv, OneInv
  <2> QED  BY <1>11, <2>1, <2>2, <2>3 DEF OneInv
<1> QED  BY <1>12, <1>13, <1>14, <1>15, <1>16, <1>17 DEF IInv

(* The other messages, and the end of a poll.                               *)
LEMMA PollStep == ASSUME IInv, Poll PROVE IInv'
<1>0. UNCHANGED <<openers, remote, hooks>> => Apart
  BY DEF Apart, hooks, IInv, TypeOK
<1>1. /\ TypeOK /\ host \in Entries /\ host.machine \in Machines /\ host.machine.epoch \in 0..MaxEpoch
      /\ attempts \subseteq AttemptTypes /\ closers \subseteq CloserTypes /\ probes \subseteq ProbeTypes
      /\ started \in 0..MaxAttempts /\ rx \in Seq(Messages)
      /\ host.present \/ host = Fresh
      /\ Held(host) \/ host.machine.phase = Disconnected
  BY DEF IInv, TypeOK, EntryInv, HiddenIsIdle, Entries, AttemptTypes, CloserTypes, ProbeTypes, Machines
<1>2. Patient /\ ~IsKind(host.machine, Busy \cup {"Disconnected"}) => Idle
  BY DEF IInv, OneInv, Idle
\* an event that the entry h handles while a message is taken or none is left
<1>3. ASSUME NEW h \in Entries, NEW result, NEW next \in Entries,
             h.machine = host.machine, h.in_flight = host.in_flight,
             \/ /\ Starts(h.machine, result) /\ Held(h)
                /\ ~IsKind(host.machine, Busy \cup {"Disconnected"})
             \/ result = Ignored(h.machine),
             h.present \/ h = Fresh, h.held = host.held, Spawns(h, result),
             \E probing \in BOOLEAN : next = [Performed(h, result) EXCEPT !.probing = probing],
             next.present \/ next = Fresh, host' = next,
             rx' = rx \/ (rx # <<>> /\ rx' = Tail(rx) /\ Head(rx).type # "Done"),
             probes' \subseteq ProbeTypes, polling' \in BOOLEAN, UNCHANGED <<openers, remote, hooks>>
      PROVE  IInv'
  <2>1. Acts(h.machine, result) /\ h.machine.epoch <= MaxEpoch
    BY <1>1, <1>3 DEF Acts, Ignored, Then
  <2>2. /\ Performed(h, result) \in Entries /\ result.machine.epoch <= MaxEpoch
        /\ Performed(h, result).machine = result.machine
        /\ Performed(h, result).held = h.held
        /\ attempts' \subseteq AttemptTypes /\ closers' \subseteq CloserTypes
        /\ started' \in started..MaxAttempts
    BY <1>1, <1>3, <2>1, PerformStep
  <2>3. /\ next.machine = result.machine /\ next.held = h.held
        /\ next.in_flight = Performed(h, result).in_flight
    BY <1>3, <2>2 DEF Entries
  <2>4. \/ /\ Starts(h.machine, result) /\ (Patient => Idle) /\ Held(h)
           /\ next.in_flight = next.machine.epoch /\ started' > 0
           /\ \E a \in AttemptTypes : attempts' = attempts \cup {a} /\ a.epoch = next.machine.epoch
        \/ attempts' = attempts /\ next.in_flight = h.in_flight /\ result.machine = h.machine
    <3>1. Starts(h.machine, result) =>
            result.machine # h.machine /\ IsKind(result.machine, Busy)
      BY <1>1, <1>3 DEF Starts, IsKind
    <3>2. result = Ignored(h.machine) => result.machine = h.machine
      BY DEF Ignored, Then
    <3> QED  BY <1>1, <1>2, <1>3, <2>1, <2>3, <3>1, <3>2, PerformStep
  <2>5. Held(next) \/ next.machine.phase = Disconnected
    BY <1>1, <1>3, <2>3, <2>4 DEF Held
  <2>6. Starts(h.machine, result) => next.machine.epoch > 0 /\ IsKind(next.machine, Busy)
    BY <1>1, <1>3, <2>3 DEF Starts, IsKind
  <2>7. next.machine.epoch <= MaxEpoch
    BY <2>2, <2>3
  <2> QED  BY ONLY <1>0, <1>3, <2>2, <2>3, <2>4, <2>5, <2>6, <2>7, EventStep, IInv, BoundsAssumption
<1>4. /\ Fresh \in Entries /\ Fresh.in_flight = 0 /\ Fresh.machine = NewMachine
      /\ Fresh.held = {} /\ ~Fresh.present /\ NewMachine.phase = Disconnected
      /\ NewMachine.epoch = 0 /\ NewMachine \in Machines
  BY BackoffTypes, PhaseTypes DEF Fresh, Entries, NewMachine, Machines, Sessions
<1>5. CASE ApplyProbe
  <2> DEFINE msg == Head(rx)
             h == Probed(host, msg)
             result == OnMasterDied(h.machine, Early)
  <2>1. /\ rx # <<>> /\ rx' = Tail(rx) /\ polling' = TRUE /\ msg.type = "Probe"
        /\ UNCHANGED <<probes, openers, remote, hooks>>
        /\ \/ /\ host.present /\ IsConnected(h.machine)
              /\ host' = Performed(Bereft(h), result) /\ Spawns(h, result)
           \/ host' = (IF host.present THEN h ELSE host) /\ UNCHANGED <<attempts, started, closers>>
    <3>1. /\ rx # <<>> /\ rx' = Tail(rx) /\ polling' = TRUE /\ msg.type = "Probe"
          /\ UNCHANGED <<probes, openers, remote, hooks>>
      BY <1>5 DEF ApplyProbe, Apply
    <3>2. \/ /\ host.present /\ IsConnected(h.machine)
             /\ host' = Performed(Bereft(h), result) /\ Spawns(h, result)
          \/ host' = (IF host.present THEN h ELSE host) /\ UNCHANGED <<attempts, started, closers>>
      BY <1>5 DEF ApplyProbe
    <3> QED  BY <3>1, <3>2
  <2>2. /\ h \in Entries /\ h.machine = host.machine /\ h.in_flight = host.in_flight
        /\ h.held = host.held /\ h.present = host.present
    BY <1>1 DEF Probed, Entries
  <2>3. /\ Bereft(h) \in Entries /\ Bereft(h).machine = host.machine
        /\ Bereft(h).in_flight = host.in_flight
        /\ Bereft(h).held = host.held /\ Bereft(h).present = host.present
    BY <2>2 DEF Bereft, Entries
  <2> HIDE DEF h
  <2>4. CASE /\ host.present /\ IsConnected(h.machine)
             /\ host' = Performed(Bereft(h), result) /\ Spawns(h, result)
    <3>1. Starts(host.machine, result)
      BY <1>1, <2>2, <2>4, ClockResults DEF Early
    <3>2. ~IsKind(host.machine, Busy \cup {"Disconnected"}) /\ Held(host)
      BY <1>1, <2>2, <2>4 DEF IsConnected, IsKind, Busy, Disconnected
    <3> HIDE DEF result
    <3>3. Spawns(Bereft(h), result)
      BY <2>4, <3>1 DEF Spawns, Starts, IsClose, Start
    <3>4. Acts(Bereft(h).machine, result) /\ Bereft(h).machine.epoch <= MaxEpoch
      BY <1>1, <2>3, <3>1 DEF Acts
    <3>5. /\ Performed(Bereft(h), result) \in Entries
          /\ Performed(Bereft(h), result).present
      BY ONLY <1>1, <2>3, <2>4, <3>4, <3>3, PerformStep, BoundsAssumption
    <3>6. \E probing \in BOOLEAN :
            Performed(Bereft(h), result) = [Performed(Bereft(h), result) EXCEPT !.probing = probing]
      BY <3>5 DEF Entries
    <3> QED  BY <1>1, <1>3, <2>1, <2>3, <2>4, <3>1, <3>2, <3>3, <3>5, <3>6 DEF Held
  <2>5. CASE host' = (IF host.present THEN h ELSE host) /\ UNCHANGED <<attempts, started, closers>>
    <3> DEFINE next == IF host.present THEN h ELSE host
    <3>1. /\ next \in Entries /\ next.machine = host.machine /\ next.in_flight = host.in_flight
          /\ next.held = host.held /\ (next.present \/ next = Fresh)
      BY <1>1, <2>2
    <3>2. Held(next) \/ next.machine.phase = Disconnected
      BY <1>1, <3>1 DEF Held
    <3>3. host' = next
      BY <2>5
    <3> HIDE DEF next
    <3> QED  BY <1>0, <1>1, <2>1, <2>5, <3>1, <3>2, <3>3, EventStep
  <2> QED  BY <2>1, <2>4, <2>5
<1>6. CASE ApplyForwarded
  <2> DEFINE p == Head(rx).port
             next == IF Head(rx).ok /\ Lists(host) THEN [host EXCEPT !.forwards = @ \cup {p}] ELSE host
             c == [epoch |-> host.machine.epoch, tag |-> started, socket |-> FALSE, forwards |-> {p}]
  <2>1. /\ rx # <<>> /\ rx' = Tail(rx) /\ polling' = TRUE /\ Head(rx).type = "Forwarded"
        /\ UNCHANGED <<attempts, started, probes, openers, remote, hooks>>
        /\ host' = next /\ (closers' = closers \/ closers' = closers \cup {c})
    BY <1>6 DEF ApplyForwarded, Apply
  <2>2. p \in Ports
    BY <1>1, <2>1 DEF Messages
  <2>3. c \in CloserTypes
    BY <1>1, <2>2 DEF CloserTypes
  <2>4. /\ next \in Entries /\ next.machine = host.machine /\ next.in_flight = host.in_flight
        /\ next.held = host.held /\ (next.present \/ next = Fresh)
    BY <1>1, <2>2 DEF Entries, Lists
  <2>5. Held(next) \/ next.machine.phase = Disconnected
    BY <1>1, <2>4 DEF Held
  <2> HIDE DEF p, next, c
  <2>6. closers' \subseteq CloserTypes
    BY <1>1, <2>1, <2>3
  <2> QED  BY <1>0, <1>1, <2>1, <2>4, <2>5, <2>6, EventStep
<1>7. CASE ApplyDrained
  <2>1. /\ rx # <<>> /\ rx' = Tail(rx) /\ Head(rx).type = "Drained"
        /\ Head(rx).drained \subseteq raised
    BY <1>1, <1>7 DEF ApplyDrained, Apply, IInv, ChannelInv
  <2>2. Apart /\ polling' = TRUE /\ UNCHANGED <<host, attempts, started, closers, probes>>
    BY <1>1, <1>7, <2>1 DEF ApplyDrained, Apply, Apart, worker, TypeOK
  <2>3. host.machine.epoch <= MaxEpoch /\ started' \in started..MaxAttempts
    BY <1>1, <2>2
  <2> QED  BY ONLY <1>1, <2>1, <2>2, <2>3, EventStep, IInv, BoundsAssumption
<1>8. ASSUME NEW t \in {Early, Late}, NEW due \in BOOLEAN, PollEnd(t, due)  PROVE IInv'
  <2> DEFINE reaped == Reaped(host)
             result == OnTick(reaped.machine, t)
             h == Performed(reaped, result)
             probe == due /\ MayProbe(h)
             next == IF probe THEN [h EXCEPT !.probing = TRUE] ELSE h
  <2>1. /\ rx' = rx /\ polling' = FALSE /\ UNCHANGED <<openers, remote, hooks>>
        /\ Spawns(reaped, result) /\ host' = next
        /\ probes' = IF probe THEN probes \cup {ProbeWorker(h)} ELSE probes
    BY <1>8 DEF PollEnd
  <2>2. t \in Nat
    BY <1>8, BackoffCapAssumption DEF Early, Late
  <2>3. ASSUME reaped = Fresh
        PROVE  /\ next = Fresh /\ ~probe
               /\ result = Ignored(NewMachine)
    <3>1. result = Ignored(NewMachine)
      BY <1>4, <2>2, <2>3, ClockResults DEF RetryDue, IsKind, Disconnected
    <3>2. result.machine = NewMachine /\ ~IsStart(result) /\ ~IsClose(result)
      BY <3>1 DEF Ignored, Then, IsStart, IsClose, NoAction
    <3>3. h = Fresh
      <4>1. h = [Fresh EXCEPT !.machine = NewMachine, !.in_flight = Fresh.in_flight,
                              !.session = Fresh.session, !.forwards = Fresh.forwards]
        BY <2>3, <3>2 DEF Performed
      <4> QED  BY <4>1 DEF Fresh
    <3>4. ~probe
      BY <1>4, <3>3 DEF MayProbe
    <3> QED  BY <3>1, <3>3, <3>4
  <2>4. CASE reaped = Fresh /\ ~Held(host) /\ host.in_flight = 0
    <3>1. UNCHANGED <<attempts, started, closers>>
      BY <2>1, <2>3, <2>4 DEF Spawns, Ignored, Then, IsStart, IsClose, NoAction
    <3>2. host' = Fresh /\ probes' = probes
      BY <2>1, <2>3, <2>4
    <3>3. /\ Apart /\ rx' = rx /\ polling' \in BOOLEAN /\ probes' \subseteq ProbeTypes
          /\ attempts' = attempts /\ attempts' \subseteq AttemptTypes /\ closers' \subseteq CloserTypes
          /\ started' \in started..MaxAttempts
      <4> HIDE DEF reaped, result, h, probe, next
      <4>1. Apart /\ rx' = rx /\ polling' \in BOOLEAN
        BY <1>0, <2>1
      <4>2. attempts' = attempts /\ started' = started /\ closers' = closers /\ probes' = probes
        BY <3>1, <3>2
      <4> QED  BY <1>1, <4>1, <4>2
    <3>4. /\ Fresh \in Entries /\ Fresh.machine.epoch <= MaxEpoch
          /\ Fresh.machine.phase = Disconnected /\ Fresh.in_flight = host.in_flight
      BY <1>4, <2>4
    <3> QED  BY ONLY <3>2, <3>3, <3>4, EventStep, IInv
  <2>5. CASE reaped = host
    <3>1. \/ Starts(host.machine, result) /\ IsKind(host.machine, {"Retrying"})
          \/ result = Ignored(host.machine)
      BY <1>1, <2>2, <2>5, ClockResults DEF RetryDue
    <3>2. \/ /\ Starts(host.machine, result) /\ Held(host)
             /\ ~IsKind(host.machine, Busy \cup {"Disconnected"})
          \/ result = Ignored(host.machine)
      BY <1>1, <3>1 DEF IsKind, Busy, Disconnected
    <3>3. Acts(host.machine, result) /\ Spawns(host, result) /\ h = Performed(host, result)
      BY <2>1, <2>5, <3>1 DEF Acts, Ignored, Then
    <3> HIDE DEF result
    <3>4. h \in Entries /\ h.machine = result.machine /\ h.present = host.present
          /\ h.machine.epoch <= MaxEpoch /\ h.machine \in Machines
      BY ONLY <1>1, <3>3, PerformStep, BoundsAssumption
    <3>5. \E probing \in BOOLEAN : next = [h EXCEPT !.probing = probing]
      BY <3>4 DEF Entries
    <3>6. next \in Entries /\ next.present = host.present
      BY <3>4 DEF Entries
    <3>7. next.present \/ next = Fresh
      BY <1>1, <2>3, <2>5, <3>6
    <3>8. probes' \subseteq ProbeTypes
      <4>1. CASE probe
        <5>1. IsConnected(h.machine) /\ host.machine.phase # Disconnected
          <6>1. IsConnected(h.machine)
            BY <4>1 DEF MayProbe
          <6>2. result = Ignored(host.machine)
            BY <3>2, <3>4, <6>1 DEF Starts, IsConnected, IsKind, Busy
          <6>3. h.machine = host.machine
            BY <3>4, <6>2 DEF Ignored, Then
          <6> QED  BY <6>1, <6>3 DEF IsConnected, IsKind, Disconnected
        <5>2. result = Ignored(host.machine)
          BY <3>2, <3>4, <5>1 DEF Starts, IsConnected, IsKind, Busy
        <5>3. h.machine = host.machine /\ host.machine.epoch > 0 /\ started > 0
          BY <3>4, <5>1, <5>2 DEF Ignored, Then, IInv, EntryInv
        <5>4. ProbeWorker(h) \in ProbeTypes
          BY <1>1, <5>3 DEF ProbeWorker, ProbeTypes
        <5> HIDE DEF h, probe, next
        <5> QED  BY <1>1, <2>1, <4>1, <5>4
      <4>2. CASE ~probe
        BY <1>1, <2>1, <4>2
      <4> QED  BY <4>1, <4>2
    <3>9. /\ host.present \/ host = Fresh
          /\ host' = next /\ rx' = rx /\ polling' \in BOOLEAN /\ h = Performed(host, result)
          /\ UNCHANGED <<openers, remote, hooks>> /\ Spawns(host, result)
      BY <1>1, <2>1, <3>3
    <3> HIDE DEF h, next
    <3> QED  BY <1>1, <1>3, <3>2, <3>5, <3>6, <3>7, <3>8, <3>9
  <2> QED  BY <2>4, <2>5 DEF Reaped
<1> QED  BY <1>5, <1>6, <1>7, <1>8, ApplyDoneStep DEF Poll

-----------------------------------------------------------------------------
(* Workers, the host and its agents: the entry stays.                       *)
LEMMA AttemptStepInv == ASSUME IInv, NEW a \in attempts, AttemptStep(a) PROVE IInv'
<1>1. /\ TypeOK /\ rx \in Seq(Messages) /\ attempts \subseteq AttemptTypes /\ a \in AttemptTypes
      /\ queue \subseteq raised /\ raised \subseteq Events
  BY DEF IInv, TypeOK, AttemptTypes
<1>2. \/ \E step \in {"Check", "Socket", "Drain"}, session \in Sessions : MovesTo(a, step, session)
      \/ \E outcome \in Outcomes, drained \in SUBSET queue :
           Reports(a, outcome, drained) /\ (outcome # "Connected" => drained = {})
  BY DEF AttemptStep, OpenMaster, MasterRefused, CheckHost, ForwardSocket, DrainQueue, Outcomes,
         Sessions
<1>3. /\ UNCHANGED <<host, polling, started, closers, probes, openers, opened, refuses, raised,
                     delivered, dropped>>
      /\ master' \in BOOLEAN /\ socket' \in BOOLEAN /\ queue' \subseteq queue
  BY <1>1 DEF TypeOK, AttemptStep, OpenMaster, MasterRefused, CheckHost, ForwardSocket, DrainQueue,
              MovesTo, Reports, remote, hooks
<1>4. EntryInv' /\ HiddenIsIdle'
  BY <1>3 DEF IInv, EntryInv, HiddenIsIdle
<1>5. ASSUME NEW step \in {"Check", "Socket", "Drain"}, NEW session \in Sessions,
             MovesTo(a, step, session)
      PROVE  IInv'
  <2> DEFINE b == [a EXCEPT !.at = step, !.session = session]
  <2>1. b \in AttemptTypes /\ b.epoch = a.epoch
    BY <1>1, <1>5 DEF AttemptTypes
  <2>2. attempts' = (attempts \ {a}) \cup {b} /\ rx' = rx
    BY <1>5 DEF MovesTo
  <2> HIDE DEF b
  <2>3. TypeOK'
    BY <1>1, <1>3, <2>1, <2>2 DEF TypeOK, AttemptTypes
  <2>4. ChannelInv' /\ ShownInv'
    BY <1>3, <2>1, <2>2 DEF IInv, ChannelInv, ShownInv, IsDone
  <2>5. Patient => OneInv'
    BY <1>3, <2>1, <2>2 DEF IInv, OneInv, IsDone
  <2> QED  BY <1>4, <2>3, <2>4, <2>5 DEF IInv
<1>6. ASSUME NEW outcome \in Outcomes, NEW drained \in SUBSET queue,
             Reports(a, outcome, drained), outcome # "Connected" => drained = {}
      PROVE  IInv'
  <2> DEFINE msg == Done(a.id, a.epoch, outcome, a.session, drained)
             n == Len(rx) + 1
  <2>1. /\ msg \in Messages /\ msg.type = "Done" /\ msg.epoch = a.epoch
        /\ msg.outcome = outcome /\ msg.drained = drained
    BY <1>1 DEF Done, Messages, AttemptTypes
  <2>2. attempts' = attempts \ {a} /\ rx' = Append(rx, msg)
    BY <1>6 DEF Reports
  <2> HIDE DEF msg
  <2>3. /\ rx' \in Seq(Messages) /\ n \in DOMAIN rx' /\ rx'[n] = msg
        /\ \A i \in DOMAIN rx' : i # n => i \in DOMAIN rx /\ rx'[i] = rx[i]
        /\ \A i \in DOMAIN rx : i \in DOMAIN rx' /\ rx'[i] = rx[i]
    BY <1>1, <2>1, <2>2
  <2> HIDE DEF n
  <2>4. TypeOK'
    BY <1>1, <1>3, <2>2, <2>3 DEF TypeOK, AttemptTypes
  <2>5. ChannelInv'
    BY <1>1, <1>3, <1>6, <2>1, <2>3 DEF IInv, ChannelInv
  <2>6. ShownInv'
    BY <1>3, <2>1, <2>2, <2>3 DEF IInv, ShownInv, IsDone
  <2>7. ASSUME Patient PROVE OneInv'
    <3>1. attempts' = {} /\ a.epoch = host.in_flight /\ \A i \in DOMAIN rx : ~IsDone(i)
      BY <2>2, <2>7 DEF IInv, OneInv
    <3>2. \A i \in DOMAIN rx' : IsDone(i)' => i = n
      BY <2>3, <3>1 DEF IsDone
    <3> QED  BY <1>3, <2>1, <2>3, <2>7, <3>1, <3>2 DEF IInv, OneInv
  <2> QED  BY <1>4, <2>4, <2>5, <2>6, <2>7 DEF IInv
<1> QED  BY <1>2, <1>5, <1>6

(* What workers send that ends no attempt.                                  *)
Harmless(msg) ==
  msg.type # "Done" /\ (msg.type = "Drained" => msg.drained \subseteq raised)

LEMMA WorldStep ==
  ASSUME IInv,
         \/ \E c \in closers : CloserRuns(c)
         \/ \E p \in probes : ProbeRuns(p)
         \/ \E p \in openers : OpenerRuns(p)
         \/ MasterDies
         \/ \E e \in Events : RaiseEvent(e)
  PROVE  IInv'
<1>1. /\ TypeOK /\ rx \in Seq(Messages) /\ probes \subseteq ProbeTypes /\ openers \subseteq Ports
      /\ queue \subseteq raised /\ raised \subseteq Events /\ master \in BOOLEAN
  BY DEF IInv, TypeOK, ProbeTypes
<1>2. UNCHANGED <<host, polling, attempts, started, refuses, dropped>>
  BY DEF CloserRuns, ProbeRuns, ProbeCollects, ProbeAnswers, ProbeDone, OpenerRuns, MasterDies,
         RaiseEvent, remote, hooks, worker
<1>3. /\ closers' \subseteq closers /\ probes' \subseteq probes /\ openers' \subseteq openers
      /\ master' \in BOOLEAN /\ socket' \in BOOLEAN /\ opened' \subseteq Ports
      /\ raised \subseteq raised' /\ raised' \subseteq Events /\ queue' \subseteq raised'
      /\ delivered' \subseteq raised'
  BY <1>1 DEF TypeOK, CloserRuns, ProbeRuns, ProbeCollects, ProbeAnswers, ProbeDone, OpenerRuns,
              MasterDies, RaiseEvent, remote, hooks, worker
<1>4. \E messages \in Seq(Messages) :
        /\ rx' = rx \o messages
        /\ \A i \in DOMAIN messages : Harmless(messages[i])
  <2> DEFINE Sent(messages) ==
        /\ rx' = rx \o messages
        /\ \A i \in DOMAIN messages : Harmless(messages[i])
  <2>1. ASSUME rx' = rx PROVE \E messages \in Seq(Messages) : Sent(messages)
    <3>1. <<>> \in Seq(Messages) /\ Sent(<<>>)
      BY <1>1, <2>1
    <3> QED  BY <3>1
  <2>2. ASSUME NEW m \in Messages, m.type # "Done", m.type = "Drained" => m.drained \subseteq raised,
               rx' = rx \o <<m>>
        PROVE  \E messages \in Seq(Messages) : Sent(messages)
    <3>1. <<m>> \in Seq(Messages) /\ Sent(<<m>>)
      BY <2>2 DEF Harmless
    <3> QED  BY <3>1
  <2>3. ASSUME NEW m \in Messages, NEW n \in Messages, m.type = "Drained", m.drained \subseteq raised,
               n.type = "Probe", rx' = rx \o <<m, n>>
        PROVE  \E messages \in Seq(Messages) : Sent(messages)
    <3>1. <<m, n>> \in Seq(Messages) /\ Sent(<<m, n>>)
      BY <2>3 DEF Harmless
    <3> QED  BY <3>1
  <2> HIDE DEF Sent
  <2>4. \A epoch \in 1..MaxEpoch, alive \in BOOLEAN :
          ProbeMsg(epoch, alive) \in Messages /\ ProbeMsg(epoch, alive).type = "Probe"
    BY DEF ProbeMsg, Messages
  <2>5. /\ DrainedMsg(queue) \in Messages /\ DrainedMsg(queue).type = "Drained"
        /\ DrainedMsg(queue).drained = queue
    BY <1>1 DEF DrainedMsg, Messages
  <2>6. \A p \in Ports, ok \in BOOLEAN :
          ForwardedMsg(p, ok) \in Messages /\ ForwardedMsg(p, ok).type = "Forwarded"
    BY DEF ForwardedMsg, Messages
  <2>7. \A p \in probes : ProbeRuns(p) => \E messages \in Seq(Messages) : Sent(messages)
    <3> SUFFICES ASSUME NEW p \in probes, ProbeRuns(p)
                 PROVE  \E messages \in Seq(Messages) : Sent(messages)
      OBVIOUS
    <3>1. p.epoch \in 1..MaxEpoch
      BY <1>1 DEF ProbeTypes
    <3>2. CASE ProbeCollects(p)
      <4>1. rx' = rx \o <<DrainedMsg(queue), ProbeMsg(p.epoch, TRUE)>>
        BY <3>2 DEF ProbeCollects, ProbeDone
      <4>2. ProbeMsg(p.epoch, TRUE) \in Messages /\ ProbeMsg(p.epoch, TRUE).type = "Probe"
        BY <2>4, <3>1
      <4> QED  BY <1>1, <2>3, <2>5, <4>1, <4>2
    <3>3. CASE ProbeAnswers(p)
      <4>1. rx' = rx \o <<ProbeMsg(p.epoch, master)>>
        BY <3>3 DEF ProbeAnswers, ProbeDone
      <4>2. ProbeMsg(p.epoch, master) \in Messages /\ ProbeMsg(p.epoch, master).type = "Probe"
        BY <1>1, <2>4, <3>1
      <4> QED  BY <2>2, <4>1, <4>2
    <3> QED  BY <3>2, <3>3 DEF ProbeRuns
  <2>8. \A p \in openers : OpenerRuns(p) => \E messages \in Seq(Messages) : Sent(messages)
    <3> SUFFICES ASSUME NEW p \in openers, OpenerRuns(p)
                 PROVE  \E messages \in Seq(Messages) : Sent(messages)
      OBVIOUS
    <3>1. PICK ok \in BOOLEAN : rx' = Append(rx, ForwardedMsg(p, ok))
      BY DEF OpenerRuns
    <3>2. ForwardedMsg(p, ok) \in Messages /\ ForwardedMsg(p, ok).type = "Forwarded"
      BY <1>1, <2>6
    <3>3. rx' = rx \o <<ForwardedMsg(p, ok)>>
      BY <1>1, <3>1, <3>2
    <3> QED  BY <2>2, <3>2, <3>3
  <2>9. (\E c \in closers : CloserRuns(c)) \/ MasterDies \/ (\E e \in Events : RaiseEvent(e)) => rx' = rx
    BY DEF CloserRuns, MasterDies, RaiseEvent
  <2> QED  BY <2>1, <2>7, <2>8, <2>9 DEF Sent
<1>5. PICK messages \in Seq(Messages) :
        /\ rx' = rx \o messages
        /\ \A i \in DOMAIN messages : Harmless(messages[i])
  BY <1>4
<1>6. /\ rx' \in Seq(Messages)
      /\ \A i \in DOMAIN rx' : \/ i \in DOMAIN rx /\ rx'[i] = rx[i]
                               \/ \E j \in DOMAIN messages : rx'[i] = messages[j]
      /\ \A i \in DOMAIN rx : i \in DOMAIN rx' /\ rx'[i] = rx[i]
  BY <1>1, <1>5
<1>7. \A i \in DOMAIN rx' : IsDone(i)' => IsDone(i) /\ rx'[i] = rx[i]
  <2> SUFFICES ASSUME NEW i \in DOMAIN rx', rx'[i].type = "Done"
               PROVE  i \in DOMAIN rx /\ rx'[i] = rx[i]
    BY DEF IsDone
  <2>1. ~Harmless(rx'[i])
    BY DEF Harmless
  <2> QED  BY ONLY <1>5, <1>6, <2>1
<1>8. TypeOK'
  BY <1>1, <1>2, <1>3, <1>6 DEF TypeOK
<1>9. EntryInv' /\ HiddenIsIdle'
  BY <1>2 DEF IInv, EntryInv, HiddenIsIdle
<1>10. ChannelInv'
  <2> SUFFICES ASSUME NEW i \in DOMAIN rx'
               PROVE  /\ rx'[i].type \in {"Done", "Drained"} => rx'[i].drained \subseteq raised'
                      /\ rx'[i].type = "Done" /\ rx'[i].outcome # "Connected" => rx'[i].drained = {}
    BY DEF ChannelInv
  <2>1. CASE i \in DOMAIN rx /\ rx'[i] = rx[i]
    BY <1>3, <2>1 DEF IInv, ChannelInv
  <2>2. CASE Harmless(rx'[i])
    BY <1>3, <2>2 DEF Harmless
  <2> QED  BY ONLY <1>5, <1>6, <2>1, <2>2
<1>11. ShownInv'
  BY <1>2, <1>6 DEF IInv, ShownInv, IsDone
<1>12. Patient => OneInv'
  BY <1>2, <1>6, <1>7 DEF IInv, OneInv, IsDone
<1> QED  BY <1>8, <1>9, <1>10, <1>11, <1>12 DEF IInv

-----------------------------------------------------------------------------
(* The theorems.                                                            *)

(* The invariant holds, so every value has its type.                        *)
THEOREM Invariance == Spec => []IInv
<1>1. Init => IInv
  <2> SUFFICES ASSUME Init PROVE IInv
    OBVIOUS
  <2>1. NewMachine \in Machines /\ Fresh \in Entries
    BY BackoffTypes, PhaseTypes DEF NewMachine, Machines, Fresh, Entries, Sessions
  <2>2. /\ Fresh.machine = NewMachine /\ NewMachine.epoch = 0 /\ NewMachine.phase = Disconnected
        /\ Fresh.held = {}
    BY DEF Fresh, NewMachine
  <2>3. rx = <<>> /\ rx \in Seq(Messages)
    BY DEF Init
  <2>6. 0 \in 0..MaxAttempts
    OBVIOUS
  <2>4. /\ started = 0 /\ host = Fresh
        /\ {master, socket, refuses} \subseteq BOOLEAN /\ polling \in BOOLEAN
        /\ attempts = {} /\ closers = {} /\ probes = {} /\ openers = {} /\ opened = {}
        /\ raised = {} /\ queue = {} /\ delivered = {} /\ dropped = {}
    BY DEF Init
  <2>5. TypeOK
    BY ONLY <2>1, <2>3, <2>4, <2>6 DEF TypeOK, Entries
  <2> QED
    BY <2>2, <2>3, <2>4, <2>5
       DEF IInv, EntryInv, ChannelInv, ShownInv, HiddenIsIdle, OneInv, IsDone, IsKind, Busy,
           Disconnected, Held
<1>2. IInv /\ [Next]_vars => IInv'
  <2>1. IInv /\ UNCHANGED vars => IInv'
    BY DEF vars, worker, remote, hooks, IInv, TypeOK, EntryInv, ChannelInv, ShownInv, HiddenIsIdle,
           OneInv, IsDone, Held
  <2> QED  BY <2>1, CallStep, PollStep, AttemptStepInv, WorldStep DEF Next, Workers
<1> QED  BY <1>1, <1>2, PTL DEF Spec

(* A host that shows "connecting" has its attempt under way, known to the   *)
(* Manager, and one that nothing holds stays disconnected: for any user,    *)
(* whatever old attempts still report (Machine::handle, Manager::apply).    *)
THEOREM ShownCorrect == Spec => []ShownIsUnderWay
<1>1. IInv => ShownIsUnderWay
  BY DEF IInv, TypeOK, ShownInv, ShownIsUnderWay, NeverStuck, InChannel, IsDone
<1> QED  BY <1>1, Invariance, PTL

(* Nothing an attempt drained from the host is thrown away, of a user who   *)
(* starts no attempt while a worker is at work.                             *)
THEOREM DrainedDelivered == ASSUME Patient PROVE Spec => []DrainedIsDelivered
<1>1. IInv => DrainedIsDelivered
  BY DEF IInv, OneInv, DrainedIsDelivered
<1> QED  BY <1>1, Invariance, PTL

(* A released host stays until its attempt has reported (manager.rs:11), of *)
(* the same user.                                                           *)
THEOREM ReleasedKept == ASSUME Patient PROVE Spec => []ReleasedStays
<1>1. IInv => ReleasedStays
  BY DEF IInv, TypeOK, EntryInv, OneInv, ReleasedStays, InChannel, IsDone, Fresh, AttemptTypes, Messages
<1> QED  BY <1>1, Invariance, PTL

-----------------------------------------------------------------------------
(***************************************************************************)
(* The rest is about what the Manager leaves open on the host, for a user  *)
(* who starts no attempt while a worker is at work (Patient): without      *)
(* that, an old attempt's late CloseForwards shuts the new session's       *)
(* socket.                                                                 *)
(*                                                                         *)
(* The argument: every open thing is in one hand.  The reverse socket is   *)
(* the session's, a closer's, a forwarding attempt's or that of an outcome *)
(* on its way (SocketInv), and who counts on it has it (SessionInv).  A    *)
(* port passes from its opener over the channel to the list or to a closer *)
(* (PortInv), and is open in those hands (OpenInv, ListInv).  A closer     *)
(* shuts the socket only of a disconnected host (CloserInv), a probe that  *)
(* found the master dead is right about this connection (ProbeInv), and a  *)
(* cancelled attempt is never taken for the current one (LateInv).         *)
(***************************************************************************)

(* A forwarding attempt, an outcome that brings its socket, the answer of a *)
(* forward_port and a port about to be closed.                              *)
Forwarding(a) == a.at = "Drain" /\ a.session = "forwarded"
Bears(i) == IsDone(i) /\ rx[i].outcome = "Connected" /\ rx[i].session = "forwarded"
Answers(i) == i \in DOMAIN rx /\ rx[i].type = "Forwarded"
Closes(p) == \E c \in closers : p \in c.forwards

(* Nothing is open on a dead master.                                        *)
MasterInv == ~master => ~socket /\ opened = {}

(* Only a disconnected host's session is being closed.                      *)
CloserInv == \A c \in closers : c.socket => host.machine.phase = Disconnected

(* Whose an open reverse socket is.                                         *)
SocketInv ==
  socket =>
    \/ IsConnected(host.machine) /\ host.session # "none"
    \/ \E c \in closers : c.socket
    \/ \E a \in attempts : Forwarding(a)
    \/ \E i \in DOMAIN rx : Bears(i)

(* A session that counts on the socket has it, while its master lives.      *)
SessionInv ==
  master /\ host.machine.phase # Disconnected /\ ~socket =>
    /\ IsConnected(host.machine) => host.session # "forwarded"
    /\ \A a \in attempts : ~Forwarding(a)
    /\ \A i \in DOMAIN rx : ~Bears(i)

(* Forwards are listed while connected, and listed ones are open.           *)
ListInv ==
  /\ ~IsConnected(host.machine) => host.forwards = {}
  /\ master => host.forwards \subseteq opened

(* A port is in one hand: its opener, the channel, the list or a closer.    *)
PortInv ==
  /\ \A p \in openers : p \notin host.forwards /\ ~Closes(p)
  /\ \A p \in host.forwards : ~Closes(p)
  /\ \A i \in DOMAIN rx : Answers(i) =>
       /\ rx[i].port \notin openers \cup host.forwards /\ ~Closes(rx[i].port)
       /\ \A j \in DOMAIN rx : Answers(j) /\ rx[i].port = rx[j].port => i = j

(* An open port is in a hand that will list or close it, and a forward that *)
(* is going to be listed is open, while its master lives.                   *)
OpenInv ==
  /\ \A p \in opened :
       p \in host.forwards \/ Closes(p)
         \/ \E i \in DOMAIN rx : Answers(i) /\ rx[i].ok /\ rx[i].port = p
  /\ \A i \in DOMAIN rx :
       Answers(i) /\ rx[i].ok /\ master
         /\ (IsConnected(host.machine) \/ \E j \in DOMAIN rx : j < i /\ IsDone(j))
           => rx[i].port \in opened

(* Probes are of this connection or an earlier one, and one that found this *)
(* connection's master dead is right.                                       *)
Earlier(epoch) ==
  epoch <= host.machine.epoch /\ (epoch = host.machine.epoch => IsConnected(host.machine))

ProbeInv ==
  host.machine.phase # Disconnected =>
    /\ \A p \in probes : Earlier(p.epoch)
    /\ \A i \in DOMAIN rx : rx[i].type = "Probe" =>
         /\ Earlier(rx[i].epoch)
         /\ rx[i].epoch = host.machine.epoch /\ ~rx[i].alive => ~master

(* An attempt that still runs after a cancel is of an earlier epoch.        *)
LateInv ==
  /\ host.in_flight <= host.machine.epoch
  /\ host.machine.phase = Disconnected /\ host.in_flight # 0 => host.in_flight < host.machine.epoch

RemoteInv ==
  /\ MasterInv
  /\ CloserInv
  /\ SocketInv
  /\ SessionInv
  /\ ListInv
  /\ PortInv
  /\ OpenInv
  /\ ProbeInv
  /\ LateInv

-----------------------------------------------------------------------------
(* What a step of the Manager can do to the entry, with k messages taken    *)
(* from the channel: start an attempt, close everything, hear that the      *)
(* attempt has ended, or nothing.                                           *)
Opens(next, k) ==
  /\ IsKind(next.machine, Busy) /\ next.machine.epoch = host.machine.epoch + 1
  /\ next.forwards = {} /\ closers' = closers
  /\ \E a \in AttemptTypes : a.at = "Master" /\ attempts' = attempts \cup {a}
  /\ host.machine.phase = Disconnected => closers = {} /\ probes = {} /\ rx = <<>>
  /\ IsConnected(host.machine) => ~master
  /\ k = 1 => ~IsDone(1)

Shuts(next, k) ==
  /\ next.machine.phase = Disconnected /\ next.forwards = {}
  /\ attempts' = attempts /\ closers \subseteq closers'
  /\ \A c \in closers' : c \in closers \/ c.forwards \subseteq host.forwards
  /\ \A p \in host.forwards : \E c \in closers' : p \in c.forwards
  /\ IsConnected(host.machine) /\ host.session # "none" => \E c \in closers' : c.socket
  /\ k = 1 /\ Bears(1) => \E c \in closers' : c.socket
  /\ next.in_flight # 0 => next.in_flight < next.machine.epoch

Lands(next, k) ==
  /\ k = 1 /\ IsDone(1) /\ IsKind(host.machine, Busy)
  /\ next.machine.epoch = host.machine.epoch
  /\ ~IsKind(next.machine, Busy \cup {"Disconnected"})
  /\ next.forwards = host.forwards /\ attempts' = attempts /\ closers' = closers
  /\ IsConnected(next.machine) <=> rx[1].outcome = "Connected"
  /\ IsConnected(next.machine) => next.session = rx[1].session
  /\ next.in_flight \in {0, host.in_flight}

Rests(next, k) ==
  /\ next.machine = host.machine /\ next.session = host.session /\ next.forwards = host.forwards
  /\ next.in_flight \in {0, host.in_flight} /\ attempts' = attempts /\ closers' = closers
  /\ k = 1 => ~Bears(1)

LEMMA RemoteStep ==
  ASSUME IInv, IInv', RemoteInv, Patient,
         NEW next \in Entries, host' = next, NEW k \in {0, 1},
         \A i \in DOMAIN rx' : i \in Nat /\ i + k \in DOMAIN rx /\ rx'[i] = rx[i + k],
         \A i \in DOMAIN rx : i \in Nat /\ (i = k \/ (i - k \in DOMAIN rx' /\ rx'[i - k] = rx[i])),
         k = 1 => 1 \in DOMAIN rx /\ rx[1].type # "Forwarded",
         UNCHANGED <<openers, master, socket, opened>>,
         \A p \in probes' : p \in probes \/ (IsConnected(next.machine) /\ p.epoch = next.machine.epoch),
         Opens(next, k) \/ Shuts(next, k) \/ Lands(next, k) \/ Rests(next, k)
  PROVE  RemoteInv'
<1>1. /\ host.machine.epoch \in Nat /\ next.machine.epoch \in Nat /\ host.in_flight \in Nat
      /\ next.in_flight \in Nat /\ \A p \in probes : p.epoch \in Nat
      /\ \A i \in DOMAIN rx : rx[i].type = "Probe" => rx[i].epoch \in Nat
      /\ host.machine \in Machines /\ next.machine \in Machines
  <2>1. /\ host.machine \in Machines /\ next.machine \in Machines /\ rx \in Seq(Messages)
        /\ host.in_flight \in 0..MaxEpoch /\ next.in_flight \in 0..MaxEpoch /\ probes \subseteq ProbeTypes
    BY DEF IInv, TypeOK, Entries, ProbeTypes
  <2>2. \A i \in DOMAIN rx : rx[i].type = "Probe" => rx[i].epoch \in Nat
    BY <2>1 DEF Messages
  <2> QED  BY <2>1, <2>2 DEF Machines, ProbeTypes
<1>2. \A m \in Machines : /\ IsKind(m, {"Disconnected"}) <=> m.phase = Disconnected
                          /\ IsConnected(m) => ~IsKind(m, Busy) /\ m.phase # Disconnected
                          /\ IsKind(m, Busy) => m.phase # Disconnected
  BY PhaseFields DEF IsKind, IsConnected, Busy, Disconnected, Machines
\* one attempt at a time
<1>3. /\ \A a, b \in attempts' : a = b
      /\ attempts' # {} => \A i \in DOMAIN rx' : ~IsDone(i)'
      /\ \A i, j \in DOMAIN rx : IsDone(i) /\ IsDone(j) => i = j
      /\ \A i \in DOMAIN rx : IsDone(i) => attempts = {}
      /\ attempts # {} \/ (\E i \in DOMAIN rx : IsDone(i)) => ~IsConnected(host.machine)
  BY DEF IInv, OneInv, IsConnected, IsKind, Busy, IsDone
<1>4. 0 \notin DOMAIN rx /\ 0 \notin DOMAIN rx'
  BY DEF IInv, TypeOK
<1>5. \A i \in DOMAIN rx : Answers(i) => i # k
  <2>1. CASE k = 0
    BY <1>4, <2>1
  <2>2. CASE k = 1
    BY <2>2 DEF Answers
  <2> QED  BY <2>1, <2>2
<1>6. MasterInv'
  BY DEF RemoteInv, MasterInv
<1>7. \A i \in DOMAIN rx' : /\ IsDone(i)' = IsDone(i + k)
                            /\ Bears(i)' = Bears(i + k)
                            /\ Answers(i)' = Answers(i + k)
  BY DEF IsDone, Bears, Answers
<1>8. \A i \in DOMAIN rx : i # k => /\ IsDone(i) = IsDone(i - k)'
                                    /\ Bears(i) = Bears(i - k)'
                                    /\ Answers(i) = Answers(i - k)'
  BY DEF IsDone, Bears, Answers
<1>9. \A i \in DOMAIN rx : Answers(i) =>
         i - k \in DOMAIN rx' /\ Answers(i - k)' /\ rx'[i - k] = rx[i]
  <2>1. \A i \in DOMAIN rx : i # k => i - k \in DOMAIN rx' /\ rx'[i - k] = rx[i]
    OBVIOUS
  <2> QED  BY <1>8, <1>5, <2>1
<1>10. \A i \in DOMAIN rx' : Answers(i)' =>
         /\ i + k \in DOMAIN rx /\ Answers(i + k) /\ rx'[i] = rx[i + k]
         /\ (\E j \in DOMAIN rx' : j < i /\ IsDone(j)') =>
              \E j \in DOMAIN rx : j < i + k /\ IsDone(j)
  <2> SUFFICES ASSUME NEW i \in DOMAIN rx', NEW j \in DOMAIN rx', j < i, IsDone(j)'
               PROVE  \E l \in DOMAIN rx : l < i + k /\ IsDone(l)
    BY <1>7
  <2>1. j + k \in DOMAIN rx /\ IsDone(j + k) /\ j + k < i + k
    BY <1>7
  <2> QED  BY <2>1
<1>11. CASE Opens(next, k)
  <2>1. /\ ~IsConnected(next.machine) /\ next.machine.phase # Disconnected
        /\ \A a \in attempts' : a.at = "Master"
        /\ \A i \in DOMAIN rx' : ~IsDone(i)'
        /\ next.in_flight = next.machine.epoch
    <3>1. ~IsConnected(next.machine) /\ next.machine.phase # Disconnected
      <4>1. IsKind(next.machine, Busy)
        BY <1>11 DEF Opens
      <4> QED  BY <4>1 DEF IsConnected, IsKind, Busy, Disconnected
    <3>2. next.in_flight = next.machine.epoch
      BY <1>11 DEF Opens, IInv, ShownInv
    <3>3. PICK a \in AttemptTypes : a.at = "Master" /\ attempts' = attempts \cup {a}
      BY <1>11 DEF Opens
    <3> QED  BY <1>3, <3>1, <3>2, <3>3
  <2>2. \A i \in DOMAIN rx : ~IsDone(i)
    <3>1. \A i \in DOMAIN rx : i # k => ~IsDone(i)
      <4>1. \A i \in DOMAIN rx : i # k => i - k \in DOMAIN rx'
        OBVIOUS
      <4> QED  BY ONLY <1>8, <2>1, <4>1
    <3>2. CASE k = 0
      BY <1>4, <3>2, <3>1
    <3>3. CASE k = 1
      BY <1>11, <3>3, <3>1 DEF Opens
    <3> QED  BY <3>2, <3>3
  <2>3. ~socket
    <3> SUFFICES ASSUME socket PROVE FALSE
      OBVIOUS
    <3>1. ~IsConnected(host.machine)
      BY <1>11 DEF Opens, RemoteInv, MasterInv
    <3>2. ~\E c \in closers : c.socket
      BY <1>11 DEF Opens, RemoteInv, CloserInv
    <3>3. \A a \in attempts : ~Forwarding(a)
      <4>1. attempts \subseteq attempts'
        BY <1>11 DEF Opens
      <4> QED  BY <2>1, <4>1 DEF Forwarding
    <3>4. \A i \in DOMAIN rx : ~Bears(i)
      BY <2>2 DEF Bears
    <3> QED  BY <3>1, <3>2, <3>3, <3>4 DEF RemoteInv, SocketInv
  <2>4. CloserInv' /\ SocketInv' /\ SessionInv'
    BY <1>11, <2>1, <2>3 DEF Opens, RemoteInv, CloserInv, SocketInv, SessionInv, Forwarding, Bears, IsDone
  <2>5. ListInv'
    BY <1>11 DEF Opens, ListInv
  <2>6. PortInv'
    BY <1>7, <1>11 DEF Opens, RemoteInv, PortInv, Closes
  <2>7. OpenInv'
    <3>1. /\ closers' = closers /\ ~(master /\ \E p \in host.forwards : TRUE)
          /\ ~master => opened = {}
      BY <1>11 DEF Opens, RemoteInv, MasterInv, ListInv
    <3>2. \A p \in opened : Closes(p)' \/ \E i \in DOMAIN rx' : Answers(i)' /\ rx'[i].ok /\ rx'[i].port = p
      <4> SUFFICES ASSUME NEW p \in opened, ~Closes(p)
                   PROVE  \E i \in DOMAIN rx' : Answers(i)' /\ rx'[i].ok /\ rx'[i].port = p
        BY <3>1 DEF Closes
      <4>1. PICK i \in DOMAIN rx : Answers(i) /\ rx[i].ok /\ rx[i].port = p
        BY <3>1 DEF RemoteInv, OpenInv
      <4>2. i - k \in DOMAIN rx' /\ Answers(i - k)' /\ rx'[i - k] = rx[i]
        BY <1>9, <4>1
      <4> QED  BY <4>1, <4>2
    <3> QED  BY <2>1, <3>2 DEF OpenInv
  <2>8. ProbeInv'
    BY <1>1, <1>11, <2>1 DEF Opens, RemoteInv, ProbeInv, Earlier
  <2>9. LateInv'
    BY <1>1, <2>1 DEF LateInv
  <2> QED  BY <1>6, <2>4, <2>5, <2>6, <2>7, <2>8, <2>9 DEF RemoteInv
<1>12. CASE Shuts(next, k)
  <2>1. CloserInv' /\ SessionInv' /\ ProbeInv'
    BY <1>12 DEF Shuts, CloserInv, SessionInv, ProbeInv
  <2>2. SocketInv'
    <3> SUFFICES ASSUME socket /\ ~\E c \in closers' : c.socket
                 PROVE  \/ \E a \in attempts' : Forwarding(a)
                        \/ \E i \in DOMAIN rx' : Bears(i)'
      BY DEF SocketInv
    <3>1. socket /\ ~\E c \in closers' : c.socket
      OBVIOUS
    <3>2. \A i \in DOMAIN rx : Bears(i) => i # k
      <4>1. CASE k = 0
        BY <1>4, <4>1
      <4>2. CASE k = 1
        BY <1>12, <3>1, <4>2 DEF Shuts
      <4> QED  BY <4>1, <4>2
    <3>3. ~(\E c \in closers : c.socket) /\ ~(IsConnected(host.machine) /\ host.session # "none")
      BY <1>12, <3>1 DEF Shuts
    <3>4. \/ \E a \in attempts : Forwarding(a)
          \/ \E i \in DOMAIN rx : Bears(i) /\ i # k
      BY <3>1, <3>2, <3>3 DEF RemoteInv, SocketInv
    <3> QED  BY <1>8, <1>12, <3>4 DEF Shuts
  <2>3. \A p : Closes(p)' => Closes(p) \/ p \in host.forwards
    BY <1>12 DEF Shuts, Closes
  <2>4. \A p : Closes(p) \/ p \in host.forwards => Closes(p)'
    BY <1>12 DEF Shuts, Closes
  <2>5. ListInv'
    BY <1>12 DEF Shuts, ListInv
  <2>6. PortInv'
    BY <1>7, <1>12, <2>3 DEF Shuts, RemoteInv, PortInv
  <2>7. OpenInv'
    <3>1. ~IsConnected(next.machine) /\ host'.forwards = {}
      <4>1. next.machine.phase = Disconnected /\ next.forwards = {}
        BY <1>12 DEF Shuts
      <4> QED  BY <4>1 DEF IsConnected, IsKind, Disconnected
    <3> QED  BY <2>4, <3>1, <1>9, <1>10 DEF RemoteInv, OpenInv
  <2>8. LateInv'
    BY <1>1, <1>12 DEF Shuts, LateInv
  <2> QED  BY <1>6, <2>1, <2>2, <2>5, <2>6, <2>7, <2>8 DEF RemoteInv
<1>13. CASE Lands(next, k)
  <2>1. /\ attempts = {} /\ attempts' = {} /\ host.machine.phase # Disconnected
        /\ ~IsConnected(host.machine) /\ next.machine.phase # Disconnected
        /\ 1 \in DOMAIN rx /\ k = 1
    <3>1. /\ 1 \in DOMAIN rx /\ IsDone(1) /\ k = 1 /\ attempts' = attempts /\ IsKind(host.machine, Busy)
          /\ ~IsKind(next.machine, Busy \cup {"Disconnected"})
      BY <1>13 DEF Lands
    <3>2. attempts = {}
      BY <1>3, <3>1
    <3>3. next.machine.phase # Disconnected
      BY <3>1 DEF IsKind, Disconnected
    <3>4. host.machine.phase # Disconnected /\ ~IsConnected(host.machine)
      <4>1. IsKind(host.machine, Busy)
        BY <3>1
      <4> QED  BY <4>1 DEF IsConnected, IsKind, Busy, Disconnected
    <3> QED  BY <3>1, <3>2, <3>3, <3>4
  <2>2. \A i \in DOMAIN rx' : ~IsDone(i)' /\ ~Bears(i)'
    <3> SUFFICES ASSUME NEW i \in DOMAIN rx', IsDone(i)' PROVE FALSE
      BY DEF Bears
    <3>1. i + 1 \in DOMAIN rx /\ IsDone(i + 1) /\ IsDone(1) /\ i \in Nat /\ rx'[i] = rx[i + 1]
      BY <1>7, <1>13, <2>1 DEF Lands
    <3>2. i + 1 = 1
      BY <1>3, <2>1, <3>1
    <3>3. 0 \notin DOMAIN rx
      BY DEF IInv, TypeOK
    <3>4. 0 \notin DOMAIN rx'
      BY DEF IInv, TypeOK
    <3> QED  BY <3>1, <3>2, <3>4
  <2>3. CloserInv'
    BY <1>13, <2>1 DEF Lands, RemoteInv, CloserInv
  <2>4. \A i \in DOMAIN rx : Bears(i) => i = 1
    BY <1>3, <1>13, <2>1 DEF Lands, Bears
  <2>5. Bears(1) => IsConnected(next.machine) /\ next.session = "forwarded"
    BY <1>13 DEF Lands, Bears
  <2>6. SocketInv'
    BY <1>13, <2>1, <2>4, <2>5 DEF Lands, RemoteInv, SocketInv, CloserInv
  <2>7. IsConnected(next.machine) /\ next.session = "forwarded" => Bears(1)
    BY <1>13 DEF Lands, Bears
  <2>8. SessionInv'
    BY <1>13, <2>1, <2>2, <2>7 DEF Lands, RemoteInv, SessionInv
  <2>9. ListInv'
    BY <1>13, <2>1 DEF Lands, RemoteInv, ListInv
  <2>10. PortInv'
    BY <1>7, <1>13 DEF Lands, RemoteInv, PortInv, Closes
  <2>11. OpenInv'
    BY <1>7, <1>8, <1>13, <2>1 DEF Lands, RemoteInv, OpenInv, Closes, Answers
  <2>12. ProbeInv'
    BY <1>1, <1>13, <2>1 DEF Lands, RemoteInv, ProbeInv, Earlier
  <2>13. LateInv'
    BY <1>1, <1>13, <2>1 DEF Lands, RemoteInv, LateInv
  <2> QED  BY <1>6, <2>3, <2>6, <2>8, <2>9, <2>10, <2>11, <2>12, <2>13 DEF RemoteInv
<1>14. CASE Rests(next, k)
  <2>1. CloserInv' /\ ListInv'
    BY <1>14 DEF Rests, RemoteInv, CloserInv, ListInv
  <2>2. SocketInv'
    <3>1. \A i \in DOMAIN rx : Bears(i) => i # k
      <4>1. CASE k = 0
        BY <1>4, <4>1
      <4>2. CASE k = 1
        BY <1>14, <4>2 DEF Rests
      <4> QED  BY <4>1, <4>2
    <3>2. (\E i \in DOMAIN rx : Bears(i)) => \E i \in DOMAIN rx' : Bears(i)'
      BY <1>8, <3>1
    <3> QED  BY <1>14, <3>2 DEF Rests, RemoteInv, SocketInv
  <2>3. SessionInv'
    BY <1>7, <1>14 DEF Rests, RemoteInv, SessionInv
  <2>4. PortInv'
    BY <1>7, <1>14 DEF Rests, RemoteInv, PortInv, Closes
  <2>5. OpenInv'
    <3>1. /\ closers' = closers /\ next.machine = host.machine /\ next.forwards = host.forwards
      BY <1>14 DEF Rests
    <3>2. \A p : Closes(p)' = Closes(p)
      BY <3>1 DEF Closes
    <3> QED  BY <1>9, <1>10, <3>1, <3>2 DEF RemoteInv, OpenInv
  <2>6. ProbeInv'
    BY <1>1, <1>14 DEF Rests, RemoteInv, ProbeInv, Earlier
  <2>7. LateInv'
    BY <1>1, <1>14 DEF Rests, RemoteInv, LateInv
  <2> QED  BY <1>6, <2>1, <2>2, <2>3, <2>4, <2>5, <2>6, <2>7 DEF RemoteInv
<1> QED  BY <1>11, <1>12, <1>13, <1>14

-----------------------------------------------------------------------------
(* What a handled event does to the session, the forwards and the workers.  *)
Serves(h, result) ==
  /\ Starts(h.machine, result) =>
       /\ Performed(h, result).machine = result.machine
       /\ Performed(h, result).forwards = h.forwards /\ closers' = closers
       /\ \E a \in AttemptTypes : a.at = "Master" /\ attempts' = attempts \cup {a}
  /\ result.action = NoAction =>
       /\ Performed(h, result).machine = result.machine
       /\ Performed(h, result).session = h.session
       /\ Performed(h, result).forwards = h.forwards
       /\ Performed(h, result).in_flight = h.in_flight
       /\ UNCHANGED <<attempts, closers>>
  /\ result.action = CloseForwards =>
       /\ Performed(h, result).machine = result.machine
       /\ Performed(h, result).forwards = {}
       /\ Performed(h, result).in_flight = h.in_flight
       /\ attempts' = attempts /\ closers \subseteq closers'
       /\ \A c \in closers' : c \in closers \/ c.forwards = h.forwards
       /\ \A p \in h.forwards : \E c \in closers' : p \in c.forwards
       /\ h.session # "none" => \E c \in closers' : c.socket

LEMMA ManagerStep ==
  ASSUME IInv, IInv', RemoteInv, Patient,
         \/ \E w \in Workspaces : Acquire(w) \/ Release(w)
         \/ Trust \/ RetryNow \/ Cancel \/ Probe
         \/ ApplyDone \/ ApplyProbe \/ ApplyDrained
         \/ \E t \in {Early, Late}, due \in BOOLEAN : PollEnd(t, due)
  PROVE  RemoteInv'
<1>1. /\ host \in Entries /\ host' \in Entries /\ rx \in Seq(Messages) /\ attempts' \subseteq AttemptTypes
      /\ host.machine \in Machines /\ host.machine.epoch \in Nat /\ host.in_flight \in Nat
      /\ host.forwards \subseteq Ports
  BY DEF IInv, TypeOK, Entries, AttemptTypes, Machines
\* the four shapes, with no message taken or with one
<1>2. ASSUME NEW k \in {0, 1},
             \/ k = 0 /\ rx' = rx
             \/ k = 1 /\ rx # <<>> /\ rx' = Tail(rx) /\ Head(rx).type # "Forwarded",
             UNCHANGED <<openers, remote>>,
             \A p \in probes' :
               p \in probes \/ (IsConnected(host'.machine) /\ p.epoch = host'.machine.epoch),
             Opens(host', k) \/ Shuts(host', k) \/ Lands(host', k) \/ Rests(host', k)
      PROVE  RemoteInv'
  <2>1. \A i \in DOMAIN rx' : i \in Nat /\ i + k \in DOMAIN rx /\ rx'[i] = rx[i + k]
    <3>1. CASE k = 0 /\ rx' = rx
      BY <1>1, <3>1
    <3>2. CASE k = 1 /\ rx # <<>> /\ rx' = Tail(rx)
      BY <1>1, <3>2
    <3> QED  BY <1>2, <3>1, <3>2
  <2>2. \A i \in DOMAIN rx : i \in Nat /\ (i = k \/ (i - k \in DOMAIN rx' /\ rx'[i - k] = rx[i]))
    <3>1. CASE k = 0 /\ rx' = rx
      BY <1>1, <3>1
    <3>2. CASE k = 1 /\ rx # <<>> /\ rx' = Tail(rx)
      BY <1>1, <3>2
    <3> QED  BY <1>2, <3>1, <3>2
  <2>3. k = 1 => 1 \in DOMAIN rx /\ rx[1].type # "Forwarded"
    BY <1>1, <1>2
  <2>4. UNCHANGED <<openers, master, socket, opened>>
    BY <1>2 DEF remote
  <2> DEFINE next == host'
  <2>5. next \in Entries /\ host' = next
    BY <1>1
  <2> HIDE DEF next
  <2>6. /\ \A p \in probes' : p \in probes \/ (IsConnected(next.machine) /\ p.epoch = next.machine.epoch)
        /\ Opens(next, k) \/ Shuts(next, k) \/ Lands(next, k) \/ Rests(next, k)
    BY <1>2 DEF next
  <2> QED  BY <2>1, <2>2, <2>3, <2>4, <2>5, <2>6, RemoteStep
<1>3. ASSUME NEW h \in Entries, NEW result, Spawns(h, result)  PROVE Serves(h, result)
  <2>1. ASSUME Starts(h.machine, result)
        PROVE  /\ Performed(h, result).machine = result.machine
               /\ Performed(h, result).forwards = h.forwards /\ closers' = closers
               /\ \E a \in AttemptTypes : a.at = "Master" /\ attempts' = attempts \cup {a}
    <3>1. IsStart(result) /\ ~IsClose(result)
      BY <2>1 DEF Starts, Start, IsStart, IsClose
    <3>2. attempts' = attempts \cup {NewAttempt(result.action)} /\ closers' = closers
      BY <1>3, <3>1 DEF Spawns
    <3>3. NewAttempt(result.action) \in AttemptTypes /\ NewAttempt(result.action).at = "Master"
      BY <1>1, <3>2 DEF NewAttempt
    <3>4. Performed(h, result).machine = result.machine /\ Performed(h, result).forwards = h.forwards
      BY <3>1 DEF Performed, Entries
    <3> QED  BY <3>2, <3>3, <3>4
  <2>2. ASSUME result.action = NoAction
        PROVE  /\ Performed(h, result).machine = result.machine
               /\ Performed(h, result).session = h.session
               /\ Performed(h, result).forwards = h.forwards
               /\ Performed(h, result).in_flight = h.in_flight
               /\ UNCHANGED <<attempts, closers>>
    BY <1>3, <2>2 DEF Performed, Spawns, IsStart, IsClose, NoAction, Entries
  <2>3. ASSUME result.action = CloseForwards
        PROVE  /\ Performed(h, result).machine = result.machine
               /\ Performed(h, result).forwards = {}
               /\ Performed(h, result).in_flight = h.in_flight
               /\ attempts' = attempts /\ closers \subseteq closers'
               /\ \A c \in closers' : c \in closers \/ c.forwards = h.forwards
               /\ \A p \in h.forwards : \E c \in closers' : p \in c.forwards
               /\ h.session # "none" => \E c \in closers' : c.socket
    <3>1. ~IsStart(result) /\ IsClose(result)
      BY <2>3 DEF IsStart, IsClose, CloseForwards
    <3>2. /\ Performed(h, result).machine = result.machine
          /\ Performed(h, result).forwards = {}
          /\ Performed(h, result).in_flight = h.in_flight
      BY <3>1 DEF Performed, Entries
    <3>3. /\ attempts' = attempts
          /\ closers' = IF h.session # "none" \/ h.forwards # {} THEN closers \cup {Closer(h)} ELSE closers
      BY <1>3, <3>1 DEF Spawns
    <3>4. Closer(h).forwards = h.forwards /\ Closer(h).socket = (h.session # "none")
      BY DEF Closer
    <3> QED  BY <3>2, <3>3, <3>4
  <2> QED  BY <2>1, <2>2, <2>3 DEF Serves
<1>4. /\ Fresh.in_flight = 0 /\ Fresh.forwards = {} /\ Fresh.machine.phase = Disconnected
      /\ Fresh.session = "none" /\ ~Fresh.present /\ Fresh.machine = NewMachine
      /\ ~IsConnected(NewMachine) /\ ~IsKind(NewMachine, {"Retrying"})
  BY DEF Fresh, NewMachine, IsConnected, IsKind, Disconnected
<1>5. /\ host.in_flight <= host.machine.epoch
      /\ ~IsConnected(host.machine) => host.forwards = {}
  BY DEF RemoteInv, LateInv, ListInv
\* an event that closes everything, or forgets the entry
<1>6. ASSUME NEW h \in Entries, NEW result, Cancels(h.machine, result), Spawns(h, result),
             h.machine = host.machine, h.session = host.session, h.forwards = host.forwards,
             h.in_flight = host.in_flight, host' \in {Performed(h, result), Fresh}
      PROVE  Shuts(host', 0)
  <2>1. Serves(h, result)
    BY <1>3, <1>6
  <2>2. /\ result.machine.phase = Disconnected /\ result.machine.epoch = host.machine.epoch + 1
        /\ result.action = IF IsKind(h.machine, {"Connected", "Lost", "Retrying"}) THEN CloseForwards
                           ELSE NoAction
    BY <1>6 DEF Cancels
  <2>3. /\ host'.machine.phase = Disconnected
        /\ host'.in_flight # 0 => host'.in_flight < host'.machine.epoch
        /\ host'.forwards = {}
    <3>1. /\ Performed(h, result).machine = result.machine /\ Performed(h, result).forwards = {}
          /\ Performed(h, result).in_flight = host.in_flight
      <4>1. CASE result.action = CloseForwards
        BY <1>6, <2>1, <4>1 DEF Serves
      <4>2. CASE result.action = NoAction /\ ~IsKind(h.machine, {"Connected", "Lost", "Retrying"})
        <5>1. ~IsConnected(host.machine)
          BY <1>6, <4>2 DEF IsConnected, IsKind
        <5> QED  BY <1>5, <1>6, <2>1, <4>2, <5>1 DEF Serves
      <4> QED  BY <2>2, <4>1, <4>2
    <3>2. CASE host' = Performed(h, result)
      BY <1>1, <1>5, <2>2, <3>1, <3>2
    <3>3. CASE host' = Fresh
      BY <1>4, <3>3
    <3> QED  BY <1>6, <3>2, <3>3
  <2>4. /\ attempts' = attempts /\ closers \subseteq closers'
        /\ \A c \in closers' : c \in closers \/ c.forwards \subseteq host.forwards
        /\ \A p \in host.forwards : \E c \in closers' : p \in c.forwards
        /\ IsConnected(host.machine) /\ host.session # "none" => \E c \in closers' : c.socket
    <3>1. CASE result.action = CloseForwards
      BY <1>6, <2>1, <3>1 DEF Serves
    <3>2. CASE result.action = NoAction /\ ~IsKind(h.machine, {"Connected", "Lost", "Retrying"})
      <4>1. ~IsConnected(host.machine)
        BY <1>6, <3>2 DEF IsConnected, IsKind
      <4> QED  BY <1>5, <1>6, <2>1, <3>2, <4>1 DEF Serves
    <3> QED  BY <2>2, <3>1, <3>2
  <2> QED  BY <2>3, <2>4 DEF Shuts
\* an event that starts an attempt
<1>7. ASSUME NEW h \in Entries, NEW result, NEW k \in {0, 1}, Starts(h.machine, result), Spawns(h, result),
             h.machine = host.machine, ~IsConnected(host.machine) => h.forwards = host.forwards,
             IsConnected(host.machine) => h.forwards = {} /\ ~master,
             host.machine.phase = Disconnected => closers = {} /\ probes = {} /\ rx = <<>>,
             k = 1 => ~IsDone(1),
             host'.machine = Performed(h, result).machine,
             host'.forwards = Performed(h, result).forwards
      PROVE  Opens(host', k)
  <2>1. Serves(h, result)
    BY <1>3, <1>7
  <2>2. IsKind(result.machine, Busy) /\ result.machine.epoch = host.machine.epoch + 1
    BY <1>7 DEF Starts, IsKind
  <2>3. h.forwards = {}
    BY <1>5, <1>7
  <2> QED  BY ONLY <1>7, <2>1, <2>2, <2>3 DEF Opens, Serves
\* an event that changes nothing
<1>8. ASSUME NEW h \in Entries, NEW result, NEW k \in {0, 1}, result = Ignored(h.machine), Spawns(h, result),
             h.machine = host.machine, h.session = host.session, h.forwards = host.forwards,
             h.in_flight \in {0, host.in_flight}, k = 1 => ~Bears(1),
             host'.machine = Performed(h, result).machine,
             host'.session = Performed(h, result).session,
             host'.forwards = Performed(h, result).forwards,
             host'.in_flight = Performed(h, result).in_flight
      PROVE  Rests(host', k)
  <2>1. Serves(h, result)
    BY <1>3, <1>8
  <2>2. result.machine = h.machine /\ result.action = NoAction
    BY <1>8 DEF Ignored, Then
  <2> QED  BY ONLY <1>8, <2>1, <2>2 DEF Rests, Serves
<1>9. ~AtWork => closers = {} /\ probes = {} /\ rx = <<>>
  BY DEF AtWork
<1>10. ASSUME NEW w \in Workspaces, Acquire(w)  PROVE RemoteInv'
  <2> DEFINE h == [host EXCEPT !.present = TRUE, !.held = @ \cup {w}]
             result == IF IsConnected(h.machine) THEN Ignored(h.machine)
                                                 ELSE OnConnect(h.machine)
  <2>1. /\ h \in Entries /\ h.machine = host.machine /\ h.in_flight = host.in_flight
        /\ h.session = host.session /\ h.forwards = host.forwards
    BY <1>1 DEF Entries
  <2>2. /\ host' = Performed(h, result) /\ Spawns(h, result) /\ MayCall
        /\ UNCHANGED <<polling, rx, probes, openers, remote, hooks>>
    BY ONLY <1>10 DEF Acquire
  <2>3. (Starts(h.machine, result) /\ ~IsConnected(h.machine)) \/ result = Ignored(h.machine)
    BY <1>1, <2>1, UserResults
  <2> HIDE DEF h, result
  <2>4. /\ host' = Performed(h, result) /\ Spawns(h, result) /\ ~AtWork
        /\ UNCHANGED <<rx, probes, openers, remote>>
    BY <2>2 DEF MayCall
  <2>5. Opens(host', 0) \/ Rests(host', 0)
    <3>1. CASE Starts(h.machine, result) /\ ~IsConnected(h.machine)
      BY <1>7, <1>9, <2>1, <2>4, <3>1
    <3>2. CASE result = Ignored(h.machine)
      BY <1>8, <2>1, <2>4, <3>2
    <3> QED  BY <2>3, <3>1, <3>2
  <2> QED  BY <1>2, <2>4, <2>5
<1>11. ASSUME NEW w \in Workspaces, Release(w)  PROVE RemoteInv'
  <2> DEFINE h == [host EXCEPT !.held = @ \ {w}]
             result == Disconnects(h)
  <2>1. /\ h \in Entries /\ h.machine = host.machine /\ h.in_flight = host.in_flight
        /\ h.session = host.session /\ h.forwards = host.forwards
    BY <1>1 DEF Entries
  <2>2. /\ host' = Reaped(Performed(h, result)) /\ Spawns(h, result)
        /\ UNCHANGED <<rx, probes, openers, remote>>
    BY <1>11 DEF Release
  <2>3. Cancels(h.machine, result) \/ (result = Ignored(h.machine) /\ Held(h))
    BY <1>1, <2>1, UserResults DEF Disconnects
  <2>4. host' \in {Performed(h, result), Fresh} /\ (Held(h) => host' = Performed(h, result))
    BY <2>1, <2>2 DEF Reaped, Performed, Held, Entries
  <2> HIDE DEF h, result
  <2>5. Shuts(host', 0) \/ Rests(host', 0)
    BY <1>6, <1>8, <2>1, <2>2, <2>3, <2>4
  <2> QED  BY <1>2, <2>2, <2>5
<1>12. CASE Trust \/ RetryNow \/ Cancel
  <2>1. PICK result : /\ host' = Performed(host, result) /\ Spawns(host, result)
                      /\ UNCHANGED <<rx, probes, openers, remote>>
                      /\ \/ Starts(host.machine, result) /\ ~IsConnected(host.machine) /\ ~AtWork
                         \/ Cancels(host.machine, result)
                         \/ result = Ignored(host.machine)
    <3>1. /\ IsKind(host.machine, {"HostKeyUnknown"}) => ~IsConnected(host.machine)
          /\ IsKind(host.machine, {"Disconnected", "Failed", "Retrying"}) => ~IsConnected(host.machine)
      BY DEF IsConnected, IsKind
    <3>2. CASE Trust
      BY <1>1, <3>1, <3>2, UserResults DEF Trust, Send, MayCall
    <3>3. CASE RetryNow
      BY <1>1, <3>1, <3>3, UserResults DEF RetryNow, Send, MayCall
    <3>4. CASE Cancel
      BY <1>1, <3>4, UserResults DEF Cancel, Send
    <3> QED  BY <1>12, <3>2, <3>3, <3>4
  <2>2. Opens(host', 0) \/ Shuts(host', 0) \/ Rests(host', 0)
    BY <1>1, <1>6, <1>7, <1>8, <1>9, <2>1
  <2> QED  BY <1>2, <2>1, <2>2
<1>13. CASE Probe
  <2>1. /\ host' = [host EXCEPT !.probing = TRUE] /\ probes' = probes \cup {ProbeWorker(host)}
        /\ IsConnected(host.machine)
        /\ UNCHANGED <<rx, attempts, closers, openers, remote>>
    BY <1>13 DEF Probe, MayProbe
  <2>2. Rests(host', 0)
    BY <1>1, <2>1 DEF Rests, Entries
  <2>3. ProbeWorker(host).epoch = host'.machine.epoch /\ host'.machine = host.machine
    BY <1>1, <2>1 DEF ProbeWorker, Entries
  <2> QED  BY <1>2, <2>1, <2>2, <2>3

\* the messages of a poll: one is taken
<1>14. ASSUME Apply
       PROVE  /\ rx # <<>> /\ rx' = Tail(rx) /\ 1 \in DOMAIN rx /\ rx[1] = Head(rx)
              /\ Head(rx) \in Messages
  BY <1>1, <1>14 DEF Apply
<1>15. CASE ApplyDone
  <2> DEFINE msg == Head(rx)
             h == [Settled(host, msg) EXCEPT
                     !.session = IF KeepsSession(host, msg) THEN msg.session ELSE @]
             result == DoneResult(h.machine, msg)
  <2>1. /\ msg.type = "Done" /\ Apply /\ UNCHANGED <<probes, openers, remote>>
        /\ IF host.present THEN host' = Performed(h, result) /\ Spawns(h, result)
           ELSE UNCHANGED <<host, attempts, started, closers>>
    BY <1>15 DEF ApplyDone
  <2>2. /\ rx # <<>> /\ rx' = Tail(rx) /\ 1 \in DOMAIN rx /\ rx[1] = msg /\ msg \in Messages
    BY <1>14, <2>1
  <2>3. msg.epoch \in 1..MaxEpoch /\ msg.session \in Sessions /\ msg.outcome \in Outcomes
    BY <1>1, <2>1, <2>2, DoneResults
  \* the attempt in flight, of a host that is busy or cancelled it
  <2>4. IsDone(1) /\ msg.epoch = host.in_flight /\ IsKind(host.machine, Busy \cup {"Disconnected"})
    BY <2>1, <2>2 DEF IInv, OneInv, IsDone
  <2>5. host.present
    BY <2>3, <2>4 DEF IInv, EntryInv, Fresh
  <2>6. /\ h \in Entries /\ h.machine = host.machine /\ h.forwards = host.forwards
        /\ h.session = (IF KeepsSession(host, msg) THEN msg.session ELSE host.session)
        /\ h.in_flight = 0
    <3> DEFINE session == IF KeepsSession(host, msg) THEN msg.session ELSE host.session
    <3>1. session \in Sessions
      BY <1>1, <2>3 DEF Entries
    <3>2. h = [host EXCEPT !.in_flight = 0, !.session = session]
      BY <1>1, <2>4 DEF Settled, Entries
    <3> HIDE DEF session, h
    <3>3. h \in Entries /\ h.machine = host.machine /\ h.forwards = host.forwards
          /\ h.in_flight = 0 /\ h.session = session
      <4>1. host \in Entries /\ 0 \in 0..MaxEpoch
        BY <1>1, BoundsAssumption
      <4> QED  BY ONLY <3>1, <3>2, <4>1 DEF Entries
    <3> QED  BY <3>3 DEF session
  <2> HIDE DEF msg, h
  <2>7. host' = Performed(h, result) /\ Spawns(h, result) /\ Serves(h, result)
    BY <1>3, <2>1, <2>5, <2>6
  <2>8. CASE IsKind(host.machine, Busy)
    <3>1. msg.epoch = host.machine.epoch /\ InAttempt(h.machine, msg.epoch)
          /\ host.in_flight = host.machine.epoch
      BY <2>4, <2>6, <2>8 DEF IInv, ShownInv, InAttempt
    <3>2. EndsIn(h.machine, result, {"Connected", "HostKeyUnknown", "Failed", "Retrying"})
          /\ (IsConnected(result.machine) = (msg.outcome = "Connected"))
      <4>1. msg.epoch \in Nat /\ "Tools" \in Steps /\ Early \in Nat /\ h.machine \in Machines
        BY <1>1, <2>3, <2>6 DEF Steps, Early
      <4>2. /\ EndsIn(h.machine, OnConnected(h.machine, msg.epoch), {"Connected"})
            /\ EndsIn(h.machine, OnHostKeyUnknown(h.machine, msg.epoch), {"HostKeyUnknown"})
            /\ \A fatal \in BOOLEAN :
                 EndsIn(h.machine, OnFailed(h.machine, msg.epoch, "Tools", fatal, Early),
                        {"Failed", "Retrying"})
        BY <3>1, <4>1, AttemptResults
      <4>3. CASE msg.outcome = "Connected"
        <5>1. result = OnConnected(h.machine, msg.epoch)
          BY <4>3 DEF DoneResult
        <5> QED  BY <4>2, <4>3, <5>1 DEF EndsIn, IsConnected, IsKind
      <4>4. CASE msg.outcome = "HostKeyUnknown"
        <5>1. result = OnHostKeyUnknown(h.machine, msg.epoch)
          BY <4>4 DEF DoneResult
        <5> QED  BY <4>2, <4>4, <5>1 DEF EndsIn, IsConnected, IsKind
      <4>5. CASE msg.outcome \in {"Fatal", "Retryable"}
        <5>1. PICK fatal \in BOOLEAN : fatal <=> msg.outcome = "Fatal"
          OBVIOUS
        <5>2. result = OnFailed(h.machine, msg.epoch, "Tools", fatal, Early)
          BY <4>5, <5>1 DEF DoneResult
        <5> QED  BY <4>2, <4>5, <5>2 DEF EndsIn, IsConnected, IsKind
      <4> QED  BY <2>3, <4>3, <4>4, <4>5 DEF Outcomes
    <3> HIDE DEF result
    <3>3. /\ result.machine.epoch = host.machine.epoch /\ result.action = NoAction
          /\ ~IsKind(result.machine, Busy \cup {"Disconnected"})
      BY <2>6, <3>2 DEF EndsIn, IsKind, Busy
    <3>4. /\ host'.machine = result.machine /\ host'.forwards = host.forwards
          /\ host'.session = h.session /\ host'.in_flight = 0
          /\ attempts' = attempts /\ closers' = closers
      BY <2>6, <2>7, <3>3 DEF Serves
    <3>5. IsConnected(result.machine) => host'.session = rx[1].session
      BY <2>2, <2>5, <2>6, <3>1, <3>2, <3>4 DEF KeepsSession
    <3>6. Lands(host', 1)
      BY <2>2, <2>4, <2>8, <3>2, <3>3, <3>4, <3>5 DEF Lands
    <3> QED  BY <1>2, <2>1, <2>2, <3>6
  <2>9. CASE ~IsKind(host.machine, Busy)
    <3>1. host.machine.phase = Disconnected /\ ~IsConnected(host.machine)
          /\ ~InAttempt(h.machine, msg.epoch) /\ IsKind(h.machine, {"Disconnected"})
      <4>1. IsKind(host.machine, {"Disconnected"})
        BY <2>4, <2>9 DEF IsKind
      <4> QED  BY <1>1, <2>6, <2>9, <4>1, PhaseFields DEF IsKind, IsConnected, InAttempt, Machines
    <3>2. msg.epoch < host.machine.epoch
      BY <2>3, <2>4, <3>1 DEF RemoteInv, LateInv
    <3>3. CASE msg.outcome = "Connected"
      <4>1. result = Then(h.machine, CloseForwards)
        <5>1. result = OnConnected(h.machine, msg.epoch)
          BY <3>3 DEF DoneResult
        <5> QED  BY <2>6, <3>1, <3>2, <5>1 DEF OnConnected
      <4> HIDE DEF result
      <4>2. result.machine = h.machine /\ result.action = CloseForwards
        BY <4>1 DEF Then
      <4>3. h.session = msg.session
        BY <2>5, <2>6, <3>1, <3>3 DEF KeepsSession
      <4>4. host.forwards = {}
        BY <1>5, <3>1
      <4>5. Bears(1) => h.session # "none"
        BY <2>2, <4>3 DEF Bears
      <4>6. Shuts(host', 1)
        BY <2>6, <2>7, <3>1, <4>2, <4>4, <4>5 DEF Serves, Shuts
      <4> QED  BY <1>2, <2>1, <2>2, <4>6
    <3>4. CASE msg.outcome # "Connected"
      <4>1. result = Ignored(h.machine)
        BY <2>3, <3>1, <3>4 DEF DoneResult, Outcomes, OnHostKeyUnknown, OnFailed
      <4>2. h.session = host.session /\ ~Bears(1)
        BY <2>2, <2>6, <3>4 DEF KeepsSession, Bears
      <4> HIDE DEF result
      <4>3. Rests(host', 1)
        BY <1>8, <2>6, <2>7, <4>1, <4>2
      <4> QED  BY <1>2, <2>1, <2>2, <4>3
    <3> QED  BY <3>3, <3>4
  <2> QED  BY <2>8, <2>9

<1>16. CASE ApplyProbe
  <2> DEFINE msg == Head(rx)
             h == Probed(host, msg)
             result == OnMasterDied(h.machine, Early)
  <2>1. /\ msg.type = "Probe" /\ Apply /\ UNCHANGED <<probes, openers, remote>>
        /\ \/ /\ ~msg.alive /\ msg.epoch = h.machine.epoch /\ IsConnected(h.machine)
              /\ host' = Performed(Bereft(h), result) /\ Spawns(h, result)
           \/ host' \in {h, host} /\ UNCHANGED <<attempts, closers>>
    BY <1>16 DEF ApplyProbe
  <2>2. /\ rx # <<>> /\ rx' = Tail(rx) /\ 1 \in DOMAIN rx /\ rx[1] = msg
    BY <1>14, <2>1
  <2>3. /\ h \in Entries /\ h.machine = host.machine /\ h.forwards = host.forwards
        /\ h.session = host.session /\ h.in_flight = host.in_flight
    BY <1>1 DEF Probed, Entries
  <2>4. /\ Bereft(h) \in Entries /\ Bereft(h).machine = host.machine /\ Bereft(h).forwards = {}
    BY <2>3 DEF Bereft, Entries
  <2>5. ~IsDone(1) /\ ~Bears(1)
    BY <2>1, <2>2 DEF IsDone, Bears
  <2> HIDE DEF msg, h
  <2>6. CASE /\ ~msg.alive /\ msg.epoch = h.machine.epoch /\ IsConnected(h.machine)
             /\ host' = Performed(Bereft(h), result) /\ Spawns(h, result)
    <3>1. ~master
      BY <2>1, <2>2, <2>3, <2>6 DEF RemoteInv, ProbeInv, IsConnected, IsKind, Disconnected
    <3>2. Starts(h.machine, result)
      BY <1>1, <2>3, <2>6, ClockResults DEF Early
    <3>3. Spawns(Bereft(h), result)
      <4>1. ~IsClose(result)
        BY <3>2 DEF Starts, Start, IsClose
      <4> QED  BY <2>6, <4>1 DEF Spawns
    <3>4. host.machine.phase # Disconnected /\ IsConnected(host.machine)
      BY <2>3, <2>6 DEF IsConnected, IsKind, Disconnected
    <3> HIDE DEF result
    <3>5. Opens(host', 1)
      BY <1>7, <2>3, <2>4, <2>5, <2>6, <3>1, <3>2, <3>3, <3>4
    <3> QED  BY <1>2, <2>1, <2>2, <3>5
  <2>7. CASE host' \in {h, host} /\ UNCHANGED <<attempts, closers>>
    <3>1. Rests(host', 1)
      BY <2>3, <2>5, <2>7 DEF Rests
    <3> QED  BY <1>2, <2>1, <2>2, <3>1
  <2> QED  BY <2>1, <2>6, <2>7
<1>17. CASE ApplyDrained
  <2>1. /\ Head(rx).type = "Drained" /\ Apply
        /\ UNCHANGED <<host, attempts, closers, probes, openers, remote>>
    BY <1>17 DEF ApplyDrained, worker
  <2>2. rx # <<>> /\ rx' = Tail(rx) /\ rx[1] = Head(rx)
    BY <1>14, <2>1
  <2>3. Rests(host', 1)
    BY <2>1, <2>2 DEF Rests, Bears, IsDone
  <2> QED  BY <1>2, <2>1, <2>2, <2>3
<1>18. ASSUME NEW t \in {Early, Late}, NEW due \in BOOLEAN, PollEnd(t, due)  PROVE RemoteInv'
  <2> DEFINE reaped == Reaped(host)
             result == OnTick(reaped.machine, t)
             h == Performed(reaped, result)
             probe == due /\ MayProbe(h)
  <2>1. /\ rx = <<>> /\ rx' = rx /\ Spawns(reaped, result) /\ UNCHANGED <<openers, remote>>
        /\ host' = IF probe THEN [h EXCEPT !.probing = TRUE] ELSE h
        /\ probes' = IF probe THEN probes \cup {ProbeWorker(h)} ELSE probes
    BY ONLY <1>18 DEF PollEnd
  <2>2. t \in Nat
    BY BackoffCapAssumption DEF Early, Late
  <2>3. CASE reaped = host
    <3>1. \/ Starts(host.machine, result) /\ IsKind(host.machine, {"Retrying"})
          \/ result = Ignored(host.machine)
      BY <1>1, <2>2, <2>3, ClockResults DEF RetryDue
    <3>2. h = Performed(host, result) /\ Spawns(host, result)
      BY <2>1, <2>3
    <3>3. /\ host'.machine = h.machine /\ host'.session = h.session /\ host'.forwards = h.forwards
          /\ host'.in_flight = h.in_flight
      BY <2>1 DEF Performed
    <3>4. MayProbe(h) => IsConnected(h.machine) /\ ProbeWorker(h).epoch = h.machine.epoch
      BY DEF MayProbe, ProbeWorker
    <3> HIDE DEF result, reaped, h
    <3>5. Opens(host', 0) \/ Rests(host', 0)
      <4>1. CASE Starts(host.machine, result) /\ IsKind(host.machine, {"Retrying"})
        <5>1. host.machine.phase # Disconnected /\ ~IsConnected(host.machine)
          BY <4>1 DEF IsKind, IsConnected, Disconnected
        <5> QED  BY <1>1, <1>7, <3>2, <3>3, <4>1, <5>1
      <4>2. CASE result = Ignored(host.machine)
        BY <1>1, <1>8, <3>2, <3>3, <4>2
      <4> QED  BY <3>1, <4>1, <4>2
    <3>6. \A p \in probes' :
            p \in probes \/ (IsConnected(host'.machine) /\ p.epoch = host'.machine.epoch)
      BY <2>1, <3>3, <3>4
    <3> QED  BY <1>2, <2>1, <3>5, <3>6
  <2>4. CASE reaped = Fresh /\ ~Held(host)
    <3>1. result = Ignored(NewMachine)
      BY <1>4, <2>4 DEF OnTick, RetryDue
    <3>2. h.machine = NewMachine /\ h.forwards = {} /\ h.in_flight = 0 /\ ~h.present
          /\ UNCHANGED <<attempts, closers>>
      BY <1>4, <2>1, <2>4, <3>1 DEF Performed, Spawns, IsStart, IsClose, Ignored, Then, NoAction
    <3> HIDE DEF h
    <3>3. host' = h /\ probes' = probes
      BY <2>1, <3>2 DEF MayProbe
    <3>4. host.forwards = {} /\ ~IsConnected(host.machine)
      BY <1>5, <2>4 DEF IInv, HiddenIsIdle, IsConnected, IsKind, Disconnected
    <3>5. Shuts(host', 0)
      BY <1>4, <3>2, <3>3, <3>4 DEF Shuts
    <3> QED  BY <1>2, <2>1, <3>3, <3>5
  <2> QED  BY <2>3, <2>4 DEF Reaped
<1> QED  BY <1>10, <1>11, <1>12, <1>13, <1>15, <1>16, <1>17, <1>18

-----------------------------------------------------------------------------
(* Port forwards, the workers and the host.                                 *)
LEMMA WorkerStep ==
  ASSUME IInv, IInv', RemoteInv, Patient,
         \/ ApplyForwarded
         \/ \E p \in Ports : ForwardPort(p) \/ CancelPort(p)
         \/ Workers
         \/ MasterDies
         \/ \E e \in Events : RaiseEvent(e)
         \/ UNCHANGED vars
  PROVE  RemoteInv'
<1>1. /\ host \in Entries /\ rx \in Seq(Messages) /\ openers \subseteq Ports /\ probes \subseteq ProbeTypes
      /\ master \in BOOLEAN /\ socket \in BOOLEAN /\ refuses \in BOOLEAN /\ opened \subseteq Ports
      /\ attempts \subseteq AttemptTypes
  BY DEF IInv, TypeOK, Entries, ProbeTypes, AttemptTypes
<1>2. /\ \A i \in DOMAIN rx : IsDone(i) = (rx[i].type = "Done")
      /\ \A i \in DOMAIN rx' : IsDone(i)' = (rx'[i].type = "Done")
      /\ \A i \in DOMAIN rx : Answers(i) = (rx[i].type = "Forwarded")
      /\ \A i \in DOMAIN rx' : Answers(i)' = (rx'[i].type = "Forwarded")
  BY DEF IsDone, Answers
<1>3. CASE ApplyForwarded
  <2> DEFINE p == rx[1].port
  <2>1. /\ rx # <<>> /\ rx' = Tail(rx) /\ 1 \in DOMAIN rx /\ rx[1] = Head(rx)
    BY <1>1, <1>3 DEF ApplyForwarded, Apply
  <2>2. /\ Answers(1) /\ ~IsDone(1) /\ ~Bears(1) /\ rx[1].ok \in BOOLEAN
        /\ UNCHANGED <<attempts, probes, openers, master, socket, opened>>
    <3>1. rx[1].type = "Forwarded" /\ rx[1] \in Messages
      BY <1>1, <1>3, <2>1 DEF ApplyForwarded
    <3> QED  BY <1>3, <2>1, <3>1 DEF ApplyForwarded, Answers, IsDone, Bears, remote, Messages
  <2>3. /\ host' = (IF rx[1].ok /\ Lists(host) THEN [host EXCEPT !.forwards = @ \cup {p}] ELSE host)
        /\ closers' = IF rx[1].ok /\ ~Lists(host)
                        THEN closers \cup {[epoch |-> host.machine.epoch, tag |-> started,
                                            socket |-> FALSE, forwards |-> {p}]}
                        ELSE closers
    BY <1>3, <2>1 DEF ApplyForwarded
  <2>4. Lists(host) = IsConnected(host.machine)
    BY DEF Lists, IInv, EntryInv, Fresh, NewMachine, IsConnected, IsKind, Disconnected
  <2>5. /\ host'.machine = host.machine /\ host'.session = host.session /\ host'.in_flight = host.in_flight
        /\ host'.forwards = IF rx[1].ok /\ IsConnected(host.machine) THEN host.forwards \cup {p}
                            ELSE host.forwards
    BY <1>1, <2>3, <2>4 DEF Entries
  <2>6. /\ \A q : Closes(q)' = (Closes(q) \/ (q = p /\ rx[1].ok /\ ~IsConnected(host.machine)))
        /\ \A c \in closers' : c.socket => c \in closers
        /\ closers \subseteq closers'
    <3> DEFINE c == [epoch |-> host.machine.epoch, tag |-> started, socket |-> FALSE, forwards |-> {p}]
    <3>1. c.forwards = {p} /\ ~c.socket
      OBVIOUS
    <3>2. closers' = IF rx[1].ok /\ ~IsConnected(host.machine) THEN closers \cup {c} ELSE closers
      BY <2>3, <2>4
    <3> HIDE DEF c, p
    <3> QED  BY <3>1, <3>2 DEF Closes
  <2>7. /\ \A i \in DOMAIN rx' : i \in Nat /\ i + 1 \in DOMAIN rx /\ rx'[i] = rx[i + 1] /\ i + 1 # 1
        /\ \A i \in DOMAIN rx : i \in Nat /\ (i = 1 \/ (i - 1 \in DOMAIN rx' /\ rx'[i - 1] = rx[i]))
    BY <1>1, <2>1
  <2>8. /\ \A i \in DOMAIN rx' : /\ IsDone(i)' = IsDone(i + 1)
                                 /\ Bears(i)' = Bears(i + 1)
                                 /\ Answers(i)' = Answers(i + 1)
        /\ \A i \in DOMAIN rx : i # 1 => /\ IsDone(i) = IsDone(i - 1)'
                                         /\ Bears(i) = Bears(i - 1)'
                                         /\ Answers(i) = Answers(i - 1)'
    BY <2>7 DEF IsDone, Bears, Answers
  <2> HIDE DEF p
  <2>9. MasterInv' /\ CloserInv' /\ LateInv'
    BY <2>2, <2>5, <2>6 DEF RemoteInv, MasterInv, CloserInv, LateInv
  <2>10. SocketInv'
    <3>1. (\E i \in DOMAIN rx : Bears(i)) => \E i \in DOMAIN rx' : Bears(i)'
      BY <2>2, <2>7, <2>8
    <3> QED  BY <2>2, <2>5, <2>6, <3>1 DEF RemoteInv, SocketInv
  <2>11. SessionInv'
    <3>1. (\A i \in DOMAIN rx : ~Bears(i)) => \A i \in DOMAIN rx' : ~Bears(i)'
      BY <2>7, <2>8
    <3> QED  BY <2>2, <2>5, <3>1 DEF RemoteInv, SessionInv
  <2>12. p = rx[1].port
    BY DEF p
  <2>13. ListInv'
    <3>1. rx[1].ok /\ IsConnected(host.machine) /\ master => p \in opened
      BY <2>1, <2>2, <2>12 DEF RemoteInv, OpenInv
    <3> QED  BY <2>2, <2>5, <3>1 DEF RemoteInv, ListInv
  <2>14. PortInv'
    <3>1. p \notin openers \cup host.forwards /\ ~Closes(p)
          /\ \A i \in DOMAIN rx : Answers(i) /\ rx[i].port = p => i = 1
      BY <2>1, <2>2, <2>12 DEF RemoteInv, PortInv
    <3>2. \A i \in DOMAIN rx' : Answers(i)' => Answers(i + 1) /\ rx'[i] = rx[i + 1] /\ rx'[i].port # p
      BY <2>7, <2>8, <3>1
    <3>3. \A i \in DOMAIN rx : Answers(i) =>
            /\ rx[i].port \notin openers \cup host.forwards /\ ~Closes(rx[i].port)
            /\ \A j \in DOMAIN rx : Answers(j) /\ rx[i].port = rx[j].port => i = j
      BY DEF RemoteInv, PortInv
    <3>4. \A i \in DOMAIN rx' : Answers(i)' =>
            /\ rx'[i].port \notin openers' \cup host'.forwards
            /\ ~\E c \in closers' : rx'[i].port \in c.forwards
      <4> SUFFICES ASSUME NEW i \in DOMAIN rx', Answers(i)'
                   PROVE  /\ rx'[i].port \notin openers' \cup host'.forwards
                          /\ ~\E c \in closers' : rx'[i].port \in c.forwards
        OBVIOUS
      <4>1. i + 1 \in DOMAIN rx /\ Answers(i + 1) /\ rx'[i] = rx[i + 1] /\ rx'[i].port # p
        BY <2>7, <3>2
      <4>2. rx'[i].port \notin openers \cup host.forwards /\ ~Closes(rx'[i].port)
        BY <3>3, <4>1
      <4>3. \A q : (\E c \in closers' : q \in c.forwards) => Closes(q) \/ q = p
        BY <2>6 DEF Closes
      <4> QED  BY ONLY <2>2, <2>5, <4>1, <4>2, <4>3
    <3>5. \A i, j \in DOMAIN rx' : Answers(i)' /\ Answers(j)' /\ rx'[i].port = rx'[j].port => i = j
      <4> SUFFICES ASSUME NEW i \in DOMAIN rx', NEW j \in DOMAIN rx', Answers(i)', Answers(j)',
                          rx'[i].port = rx'[j].port
                   PROVE  i = j
        OBVIOUS
      <4>1. /\ i + 1 \in DOMAIN rx /\ Answers(i + 1) /\ rx[i + 1].port = rx'[i].port
            /\ j + 1 \in DOMAIN rx /\ Answers(j + 1) /\ rx[j + 1].port = rx'[j].port
        BY <2>7, <3>2
      <4>2. i + 1 = j + 1
        BY <3>3, <4>1
      <4> QED  BY <2>7, <4>2
    <3>6. /\ \A q \in openers' : q \notin host'.forwards /\ ~Closes(q)'
          /\ \A q \in host'.forwards : ~Closes(q)'
      BY <2>2, <2>5, <2>6, <3>1 DEF RemoteInv, PortInv
    <3> QED  BY ONLY <3>4, <3>5, <3>6 DEF PortInv, Closes
  <2>15. OpenInv'
    <3>1. ASSUME NEW q \in opened'
          PROVE  q \in host'.forwards \/ Closes(q)'
                   \/ \E i \in DOMAIN rx' : Answers(i)' /\ rx'[i].ok /\ rx'[i].port = q
      <4>1. CASE q \in host.forwards \/ Closes(q)
        BY <2>5, <2>6, <4>1
      <4>2. CASE \E i \in DOMAIN rx : Answers(i) /\ rx[i].ok /\ rx[i].port = q
        <5>1. PICK i \in DOMAIN rx : Answers(i) /\ rx[i].ok /\ rx[i].port = q
          BY <4>2
        <5>2. CASE i = 1
          BY <2>5, <2>6, <2>12, <5>1, <5>2
        <5>3. CASE i # 1
          BY <2>7, <2>8, <5>1, <5>3
        <5> QED  BY <5>2, <5>3
      <4> QED  BY <2>2, <3>1, <4>1, <4>2 DEF RemoteInv, OpenInv
    <3>2. ASSUME NEW i \in DOMAIN rx', Answers(i)', rx'[i].ok, master',
                 IsConnected(host'.machine) \/ \E j \in DOMAIN rx' : j < i /\ IsDone(j)'
          PROVE  rx'[i].port \in opened'
      <4>1. i + 1 \in DOMAIN rx /\ Answers(i + 1) /\ rx'[i] = rx[i + 1]
        BY <2>7, <2>8, <3>2
      <4>2. IsConnected(host.machine) \/ \E j \in DOMAIN rx : j < i + 1 /\ IsDone(j)
        <5>1. CASE IsConnected(host'.machine)
          BY <2>5, <5>1
        <5>2. CASE \E j \in DOMAIN rx' : j < i /\ IsDone(j)'
          <6>1. PICK j \in DOMAIN rx' : j < i /\ IsDone(j)'
            BY <5>2
          <6>2. j + 1 \in DOMAIN rx /\ IsDone(j + 1) /\ j + 1 < i + 1
            BY <2>7, <2>8, <6>1
          <6> QED  BY <6>2
        <5> QED  BY <3>2, <5>1, <5>2
      <4> QED  BY <2>2, <3>2, <4>1, <4>2 DEF RemoteInv, OpenInv
    <3> QED  BY <3>1, <3>2 DEF OpenInv
  <2>16. ProbeInv'
    BY <2>2, <2>5, <2>7 DEF RemoteInv, ProbeInv, Earlier
  <2> QED  BY <2>9, <2>10, <2>11, <2>13, <2>14, <2>15, <2>16 DEF RemoteInv
<1>4. ASSUME NEW p \in Ports, ForwardPort(p)  PROVE RemoteInv'
  <2>1. /\ ~InUse(p) /\ openers' = openers \cup {p}
        /\ UNCHANGED <<host, rx, attempts, closers, probes, master, socket, opened>>
    BY <1>4 DEF ForwardPort, remote
  <2>2. /\ p \notin host.forwards /\ ~Closes(p)
        /\ \A i \in DOMAIN rx : Answers(i) => rx[i].port # p
    BY <1>1, <2>1 DEF InUse, InChannel, Closes, Answers
  <2>3. PortInv'
    BY <2>1, <2>2 DEF RemoteInv, PortInv, Closes, Answers
  <2> QED
    BY <2>1, <2>3 DEF RemoteInv, MasterInv, CloserInv, SocketInv, SessionInv, ListInv, OpenInv, ProbeInv,
                      LateInv, Forwarding, Bears, IsDone, Answers, Closes, Earlier
<1>5. ASSUME NEW p \in Ports, CancelPort(p)  PROVE RemoteInv'
  <2> DEFINE c == [epoch |-> host.machine.epoch, tag |-> started, socket |-> FALSE, forwards |-> {p}]
  <2>1. /\ p \in host.forwards /\ host' = [host EXCEPT !.forwards = @ \ {p}] /\ closers' = closers \cup {c}
        /\ UNCHANGED <<rx, attempts, probes, openers, master, socket, opened>>
    BY <1>5 DEF CancelPort, remote
  <2>2. c.forwards = {p} /\ ~c.socket
    OBVIOUS
  <2>3. /\ host'.machine = host.machine /\ host'.session = host.session /\ host'.in_flight = host.in_flight
        /\ host'.forwards = host.forwards \ {p}
    BY <1>1, <2>1 DEF Entries
  <2> HIDE DEF c
  <2>4. \A q : (\E d \in closers' : q \in d.forwards) = (Closes(q) \/ q = p)
    BY <2>1, <2>2 DEF Closes
  <2>5. MasterInv' /\ CloserInv' /\ LateInv' /\ ProbeInv'
    BY <2>1, <2>2, <2>3 DEF RemoteInv, MasterInv, CloserInv, LateInv, ProbeInv, Earlier
  <2>6. SocketInv' /\ SessionInv' /\ ListInv'
    BY <2>1, <2>2, <2>3 DEF RemoteInv, SocketInv, SessionInv, ListInv, Forwarding, Bears, IsDone
  <2>7. PortInv'
    <3>1. \A q \in openers : q # p
      BY <2>1 DEF RemoteInv, PortInv
    <3>2. \A i \in DOMAIN rx : Answers(i) => rx[i].port # p
      BY <2>1 DEF RemoteInv, PortInv
    <3> QED  BY <2>1, <2>3, <2>4, <3>1, <3>2 DEF RemoteInv, PortInv, Closes, Answers
  <2>8. OpenInv'
    <3>1. /\ \A i \in DOMAIN rx : IsDone(i)' = IsDone(i) /\ Answers(i)' = Answers(i)
          /\ rx' = rx
      BY <2>1 DEF IsDone, Answers
    <3>2. \A q \in opened' : \/ q \in host'.forwards \/ (\E d \in closers' : q \in d.forwards)
                             \/ \E i \in DOMAIN rx : Answers(i) /\ rx[i].ok /\ rx[i].port = q
      BY <2>1, <2>3, <2>4 DEF RemoteInv, OpenInv
    <3>3. \A i \in DOMAIN rx :
            Answers(i) /\ rx[i].ok /\ master
              /\ (IsConnected(host.machine) \/ \E j \in DOMAIN rx : j < i /\ IsDone(j))
                => rx[i].port \in opened
      BY DEF RemoteInv, OpenInv
    <3> QED  BY <2>1, <2>3, <3>1, <3>2, <3>3 DEF OpenInv, Closes
  <2> QED  BY <2>5, <2>6, <2>7, <2>8 DEF RemoteInv
<1>6. ASSUME NEW c \in closers, CloserRuns(c)  PROVE RemoteInv'
  <2>1. /\ closers' = closers \ {c} /\ socket' = (socket /\ ~c.socket) /\ opened' = opened \ c.forwards
        /\ UNCHANGED <<host, rx, attempts, probes, openers, master>>
    BY <1>6 DEF CloserRuns
  <2>2. c.socket => host.machine.phase = Disconnected
    BY DEF RemoteInv, CloserInv
  <2>3. c.socket \in BOOLEAN
    BY DEF IInv, TypeOK
  <2>4. MasterInv' /\ CloserInv' /\ LateInv' /\ ProbeInv'
    BY <2>1, <2>3 DEF RemoteInv, MasterInv, CloserInv, LateInv, ProbeInv, Earlier
  <2>5. SocketInv'
    <3> SUFFICES ASSUME socket' PROVE SocketInv'
      BY DEF SocketInv
    <3>1. socket /\ ~c.socket
      BY <2>1
    <3> QED  BY <2>1, <3>1 DEF RemoteInv, SocketInv, Forwarding, Bears, IsDone
  <2>6. SessionInv'
    <3> SUFFICES ASSUME host.machine.phase # Disconnected PROVE SessionInv'
      BY <2>1 DEF SessionInv
    <3>1. socket' = socket
      BY <1>1, <2>1, <2>2, <2>3
    <3> QED  BY <2>1, <3>1 DEF RemoteInv, SessionInv, Forwarding, Bears, IsDone
  <2>7. ListInv' /\ PortInv'
    BY <2>1 DEF RemoteInv, ListInv, PortInv, Closes, Answers
  <2>8. OpenInv'
    <3>1. \A i \in DOMAIN rx : Answers(i) => rx[i].port \notin c.forwards
      BY DEF RemoteInv, PortInv, Closes
    <3>2. \A p \in opened' : (\E d \in closers : p \in d.forwards) => \E d \in closers' : p \in d.forwards
      BY <2>1
    <3>3. /\ \A i \in DOMAIN rx : IsDone(i)' = IsDone(i) /\ Answers(i)' = Answers(i)
          /\ rx' = rx
      BY <2>1 DEF IsDone, Answers
    <3>4. /\ \A p \in opened : p \in host.forwards \/ (\E d \in closers : p \in d.forwards)
               \/ \E i \in DOMAIN rx : Answers(i) /\ rx[i].ok /\ rx[i].port = p
          /\ \A i \in DOMAIN rx :
               Answers(i) /\ rx[i].ok /\ master
                 /\ (IsConnected(host.machine) \/ \E j \in DOMAIN rx : j < i /\ IsDone(j))
                   => rx[i].port \in opened
      BY DEF RemoteInv, OpenInv, Closes
    <3>5. /\ \A p \in opened' : p \in host.forwards \/ (\E d \in closers' : p \in d.forwards)
               \/ \E i \in DOMAIN rx : Answers(i) /\ rx[i].ok /\ rx[i].port = p
          /\ \A i \in DOMAIN rx :
               Answers(i) /\ rx[i].ok /\ master
                 /\ (IsConnected(host.machine) \/ \E j \in DOMAIN rx : j < i /\ IsDone(j))
                   => rx[i].port \in opened'
      BY ONLY <2>1, <3>1, <3>2, <3>4
    <3> QED  BY <2>1, <3>3, <3>5 DEF OpenInv, Closes
  <2> QED  BY <2>4, <2>5, <2>6, <2>7, <2>8 DEF RemoteInv
<1>7. CASE MasterDies
  BY <1>7 DEF MasterDies, worker, RemoteInv, MasterInv, CloserInv, SocketInv, SessionInv, ListInv,
              PortInv, OpenInv, ProbeInv, LateInv, Forwarding, Bears, IsDone, Answers, Closes, Earlier
<1>8. CASE (\E e \in Events : RaiseEvent(e)) \/ UNCHANGED vars
  <2>1. UNCHANGED <<host, rx, attempts, closers, probes, openers, master, socket, opened>>
    BY <1>8 DEF RaiseEvent, vars, worker, remote
  <2> QED
    BY <2>1 DEF RemoteInv, MasterInv, CloserInv, SocketInv, SessionInv, ListInv, PortInv, OpenInv,
                ProbeInv, LateInv, Forwarding, Bears, IsDone, Answers, Closes, Earlier
\* messages are appended, none of them a Done or a Forwarded
<1>9. ASSUME NEW messages \in Seq(Messages), rx' = rx \o messages
      PROVE  /\ \A i \in DOMAIN rx : i \in Nat /\ i \in DOMAIN rx' /\ rx'[i] = rx[i]
             /\ \A i \in DOMAIN rx' : i \in Nat /\ \/ i \in DOMAIN rx /\ rx'[i] = rx[i]
                                                   \/ \E j \in DOMAIN messages : rx'[i] = messages[j]
  BY <1>1, <1>9
<1>10. ASSUME NEW p \in probes, ProbeRuns(p)  PROVE RemoteInv'
  <2> DEFINE New(msg) == msg.type = "Drained"
                           \/ (msg.type = "Probe" /\ msg.epoch = p.epoch /\ (~msg.alive => ~master))
  <2>1. PICK messages \in Seq(Messages) :
          rx' = rx \o messages /\ \A j \in DOMAIN messages : New(messages[j])
    <3>1. p.epoch \in 1..MaxEpoch /\ queue \subseteq Events
      BY <1>1 DEF ProbeTypes, IInv, TypeOK
    <3>2. \A alive \in BOOLEAN :
            /\ ProbeMsg(p.epoch, alive) \in Messages
            /\ (~alive => ~master) => New(ProbeMsg(p.epoch, alive))
      BY <3>1 DEF ProbeMsg, Messages
    <3>3. DrainedMsg(queue) \in Messages /\ New(DrainedMsg(queue))
      BY <3>1 DEF DrainedMsg, Messages
    <3> HIDE DEF New
    <3>4. CASE ProbeCollects(p)
      <4>1. PICK yes \in BOOLEAN : yes = TRUE
        OBVIOUS
      <4>2. rx' = rx \o <<DrainedMsg(queue), ProbeMsg(p.epoch, yes)>>
        BY <3>4, <4>1 DEF ProbeCollects, ProbeDone
      <4>3. ProbeMsg(p.epoch, yes) \in Messages /\ New(ProbeMsg(p.epoch, yes))
        BY <3>2, <4>1
      <4> DEFINE m == DrainedMsg(queue)
                 n == ProbeMsg(p.epoch, yes)
      <4>4. rx' = rx \o <<m, n>> /\ m \in Messages /\ n \in Messages /\ New(m) /\ New(n)
        BY <3>3, <4>2, <4>3
      <4> HIDE DEF m, n
      <4>5. <<m, n>> \in Seq(Messages) /\ \A j \in DOMAIN <<m, n>> : New(<<m, n>>[j])
        BY <4>4
      <4> QED  BY <4>4, <4>5
    <3>5. CASE ProbeAnswers(p)
      <4> DEFINE m == ProbeMsg(p.epoch, master)
      <4>1. rx' = rx \o <<m>> /\ m \in Messages /\ New(m)
        <5>1. rx' = rx \o <<m>>
          BY <3>5 DEF ProbeAnswers, ProbeDone
        <5> QED  BY <1>1, <3>2, <5>1
      <4> HIDE DEF m
      <4>2. <<m>> \in Seq(Messages) /\ \A j \in DOMAIN <<m>> : New(<<m>>[j])
        BY <4>1
      <4> QED  BY <4>1, <4>2
    <3> QED  BY <1>10, <3>4, <3>5 DEF ProbeRuns
  <2>2. /\ probes' \subseteq probes
        /\ UNCHANGED <<host, attempts, closers, openers, master, socket, opened>>
    BY <1>10 DEF ProbeRuns, ProbeCollects, ProbeAnswers, ProbeDone, remote
  <2>3. /\ \A i \in DOMAIN rx : i \in Nat /\ i \in DOMAIN rx' /\ rx'[i] = rx[i]
        /\ \A i \in DOMAIN rx' : (i \in DOMAIN rx /\ rx'[i] = rx[i]) \/ New(rx'[i])
    <3> HIDE DEF New
    <3> QED  BY ONLY <1>9, <2>1
  <2>4. /\ \A i \in DOMAIN rx : /\ IsDone(i)' = IsDone(i) /\ Bears(i)' = Bears(i) /\ Answers(i)' = Answers(i)
        /\ \A i \in DOMAIN rx' : IsDone(i)' \/ Answers(i)' => i \in DOMAIN rx /\ rx'[i] = rx[i]
        /\ \A i \in DOMAIN rx' : Bears(i)' => IsDone(i)'
    BY <2>3 DEF IsDone, Bears, Answers
  <2>5. ProbeInv'
    <3> SUFFICES ASSUME host.machine.phase # Disconnected PROVE ProbeInv'
      BY <2>2 DEF ProbeInv
    <3>1. \A i \in DOMAIN rx' : rx'[i].type = "Probe" =>
            Earlier(rx'[i].epoch) /\ (rx'[i].epoch = host.machine.epoch /\ ~rx'[i].alive => ~master)
      BY <2>3 DEF RemoteInv, ProbeInv
    <3>2. \A q \in probes' : Earlier(q.epoch)
      BY <2>2 DEF RemoteInv, ProbeInv
    <3> QED  BY <2>2, <3>1, <3>2 DEF ProbeInv, Earlier
  <2> HIDE DEF New
  <2>6. MasterInv' /\ CloserInv' /\ LateInv' /\ ListInv'
    BY <2>2 DEF RemoteInv, MasterInv, CloserInv, LateInv, ListInv
  <2>7. SocketInv' /\ SessionInv'
    BY <2>2, <2>3, <2>4 DEF RemoteInv, SocketInv, SessionInv, Forwarding
  <2>8. PortInv'
    BY <2>2, <2>3, <2>4 DEF RemoteInv, PortInv, Closes
  <2>9. OpenInv'
    BY <2>2, <2>3, <2>4 DEF RemoteInv, OpenInv, Closes
  <2> QED  BY <2>5, <2>6, <2>7, <2>8, <2>9 DEF RemoteInv
<1>11. ASSUME NEW m, rx' = Append(rx, m)
       PROVE  \E n \in Nat : /\ n \notin DOMAIN rx /\ n \in DOMAIN rx' /\ rx'[n] = m
                             /\ \A i \in DOMAIN rx : i \in Nat /\ i < n /\ i \in DOMAIN rx' /\ rx'[i] = rx[i]
                             /\ \A i \in DOMAIN rx' : i = n \/ (i \in DOMAIN rx /\ rx'[i] = rx[i])
  <2>1. Len(rx) + 1 \in Nat /\ Len(rx) + 1 \notin DOMAIN rx
    BY <1>1
  <2> QED  BY <1>1, <1>11, <2>1
<1>12. ASSUME NEW p \in openers, OpenerRuns(p)  PROVE RemoteInv'
  <2>1. PICK ok \in BOOLEAN :
          /\ ok => master
          /\ opened' = IF ok THEN opened \cup {p} ELSE opened
          /\ rx' = Append(rx, ForwardedMsg(p, ok))
    BY <1>1, <1>12 DEF OpenerRuns
  <2>2. /\ openers' = openers \ {p} /\ UNCHANGED <<host, attempts, closers, probes, master, socket>>
    BY <1>12 DEF OpenerRuns
  <2>3. PICK n \in Nat :
          /\ n \notin DOMAIN rx /\ n \in DOMAIN rx' /\ rx'[n] = ForwardedMsg(p, ok)
          /\ \A i \in DOMAIN rx : i \in Nat /\ i < n /\ i \in DOMAIN rx' /\ rx'[i] = rx[i]
          /\ \A i \in DOMAIN rx' : i = n \/ (i \in DOMAIN rx /\ rx'[i] = rx[i])
    BY <1>11, <2>1
  <2>4. rx'[n].type = "Forwarded" /\ rx'[n].port = p /\ rx'[n].ok = ok
    BY <2>3 DEF ForwardedMsg
  <2>5. /\ \A i \in DOMAIN rx : IsDone(i)' = IsDone(i) /\ Bears(i)' = Bears(i) /\ Answers(i)' = Answers(i)
        /\ \A i \in DOMAIN rx' : IsDone(i)' => i \in DOMAIN rx /\ rx'[i] = rx[i]
        /\ \A i \in DOMAIN rx' : Bears(i)' => IsDone(i)'
        /\ Answers(n)' /\ ~IsDone(n)'
    BY <2>3, <2>4 DEF IsDone, Bears, Answers
  <2>6. MasterInv' /\ CloserInv' /\ LateInv' /\ ListInv'
    BY <2>1, <2>2 DEF RemoteInv, MasterInv, CloserInv, LateInv, ListInv
  <2>7. SocketInv' /\ SessionInv'
    BY <2>2, <2>3, <2>5 DEF RemoteInv, SocketInv, SessionInv, Forwarding
  <2>8. ProbeInv'
    BY <2>2, <2>3, <2>4 DEF RemoteInv, ProbeInv, Earlier
  <2>9. PortInv'
    <3>1. /\ p \notin host.forwards /\ ~Closes(p)
          /\ \A i \in DOMAIN rx : Answers(i) => rx[i].port # p
      BY DEF RemoteInv, PortInv
    <3> QED  BY <2>2, <2>3, <2>4, <2>5, <3>1 DEF RemoteInv, PortInv, Closes
  <2>10. OpenInv'
    <3>1. ASSUME NEW q \in opened'
          PROVE  \/ q \in host.forwards \/ Closes(q)
                 \/ \E i \in DOMAIN rx' : Answers(i)' /\ rx'[i].ok /\ rx'[i].port = q
      <4>1. CASE q \in opened
        BY <2>3, <2>5, <4>1 DEF RemoteInv, OpenInv
      <4>2. CASE q = p /\ ok
        BY <2>3, <2>4, <2>5, <4>2
      <4> QED  BY <2>1, <3>1, <4>1, <4>2
    <3>2. ASSUME NEW i \in DOMAIN rx', Answers(i)', rx'[i].ok, master,
                 IsConnected(host.machine) \/ \E j \in DOMAIN rx' : j < i /\ IsDone(j)'
          PROVE  rx'[i].port \in opened'
      <4>1. CASE i = n
        BY <2>1, <2>4, <3>2, <4>1
      <4>2. CASE i \in DOMAIN rx /\ rx'[i] = rx[i]
        <5>1. Answers(i) /\ (IsConnected(host.machine) \/ \E j \in DOMAIN rx : j < i /\ IsDone(j))
          BY <2>5, <3>2, <4>2
        <5> QED  BY <2>1, <3>2, <4>2, <5>1 DEF RemoteInv, OpenInv
      <4> QED  BY <2>3, <4>1, <4>2
    <3> QED  BY <2>2, <3>1, <3>2 DEF OpenInv, Closes
  <2> QED  BY <2>6, <2>7, <2>8, <2>9, <2>10 DEF RemoteInv
<1>13. ASSUME NEW a \in attempts, AttemptStep(a)  PROVE RemoteInv'
  <2>1. /\ attempts = {a} /\ \A i \in DOMAIN rx : ~IsDone(i)
        /\ ~IsConnected(host.machine)
    BY DEF IInv, OneInv, IsConnected, IsKind, Busy
  <2>2. /\ UNCHANGED <<host, closers, probes, openers, opened>>
        /\ master => master'
    BY <1>13 DEF AttemptStep, OpenMaster, MasterRefused, CheckHost, ForwardSocket, DrainQueue, MovesTo,
                 Reports, remote
  <2>3. host.forwards = {} /\ \A i \in DOMAIN rx : ~Bears(i)
    BY <2>1 DEF RemoteInv, ListInv, Bears
  \* the attempt moves on to b
  <2>4. ASSUME NEW b, attempts' = {b}, rx' = rx, master', ~Forwarding(a),
               socket' => socket \/ Forwarding(b), Forwarding(b) => socket'
        PROVE  RemoteInv'
    <3>1. \A i \in DOMAIN rx' : ~IsDone(i)' /\ ~Bears(i)' /\ Answers(i)' = Answers(i)
      BY <2>1, <2>3, <2>4 DEF IsDone, Bears, Answers
    <3>2. MasterInv' /\ CloserInv' /\ LateInv' /\ ListInv'
      BY <2>2, <2>3, <2>4 DEF RemoteInv, MasterInv, CloserInv, LateInv, ListInv
    <3>3. SocketInv'
      <4>1. socket => Forwarding(a) \/ \E c \in closers : c.socket
        BY <2>1, <2>3 DEF RemoteInv, SocketInv
      <4> QED  BY <2>2, <2>4, <4>1 DEF SocketInv, Forwarding
    <3>4. SessionInv'
      BY <2>1, <2>2, <2>4, <3>1 DEF SessionInv, Forwarding
    <3>5. PortInv'
      BY <2>2, <2>4, <3>1 DEF RemoteInv, PortInv, Closes
    <3>6. OpenInv'
      <4>1. \A p \in opened' : Closes(p) \/ \E i \in DOMAIN rx' : Answers(i)' /\ rx'[i].ok /\ rx'[i].port = p
        BY <2>2, <2>3, <2>4, <3>1 DEF RemoteInv, OpenInv
      <4> QED  BY <2>1, <2>2, <3>1, <4>1 DEF OpenInv, Closes
    <3>7. ProbeInv'
      <4>1. host.machine.phase # Disconnected =>
              /\ \A p \in probes : Earlier(p.epoch)
              /\ \A i \in DOMAIN rx : rx[i].type = "Probe" =>
                   Earlier(rx[i].epoch) /\ rx[i].epoch # host.machine.epoch
        BY <2>1 DEF RemoteInv, ProbeInv, Earlier
      <4> QED  BY <2>2, <2>4, <4>1 DEF ProbeInv, Earlier
    <3> QED  BY <3>2, <3>3, <3>4, <3>5, <3>6, <3>7 DEF RemoteInv
  \* the attempt ends with the message d
  <2>5. ASSUME NEW d, attempts' = {}, rx' = Append(rx, d), d.type = "Done",
               UNCHANGED <<master, socket>>,
               Forwarding(a) /\ master => d.outcome = "Connected" /\ d.session = "forwarded",
               d.outcome = "Connected" /\ d.session = "forwarded" => Forwarding(a)
        PROVE  RemoteInv'
    <3>1. PICK n \in Nat :
            /\ n \notin DOMAIN rx /\ n \in DOMAIN rx' /\ rx'[n] = d
            /\ \A i \in DOMAIN rx : i \in Nat /\ i < n /\ i \in DOMAIN rx' /\ rx'[i] = rx[i]
            /\ \A i \in DOMAIN rx' : i = n \/ (i \in DOMAIN rx /\ rx'[i] = rx[i])
      BY <1>11, <2>5
    <3>2. /\ \A i \in DOMAIN rx : ~IsDone(i)' /\ ~Bears(i)' /\ Answers(i)' = Answers(i)
          /\ ~Answers(n)'
          /\ Bears(n)' = (d.outcome = "Connected" /\ d.session = "forwarded")
      BY <2>1, <2>3, <2>5, <3>1 DEF IsDone, Bears, Answers
    <3>3. MasterInv' /\ CloserInv' /\ LateInv' /\ ListInv'
      BY <2>2, <2>3, <2>5 DEF RemoteInv, MasterInv, CloserInv, LateInv, ListInv
    <3>4. SocketInv'
      <4>1. socket => Forwarding(a) \/ \E c \in closers : c.socket
        BY <2>1, <2>3 DEF RemoteInv, SocketInv
      <4>2. socket => master
        BY DEF RemoteInv, MasterInv
      <4> QED  BY <2>2, <2>5, <3>1, <3>2, <4>1, <4>2 DEF SocketInv
    <3>5. SessionInv'
      <4>1. master /\ host.machine.phase # Disconnected /\ ~socket => ~Forwarding(a)
        BY DEF RemoteInv, SessionInv
      <4>2. master /\ host.machine.phase # Disconnected /\ ~socket => \A i \in DOMAIN rx' : ~Bears(i)'
        BY <2>5, <3>1, <3>2, <4>1
      <4> QED  BY <2>1, <2>2, <2>5, <4>2 DEF SessionInv
    <3>6. PortInv'
      BY <2>2, <3>1, <3>2 DEF RemoteInv, PortInv, Closes
    <3>7. OpenInv'
      <4>1. \A p \in opened' : Closes(p) \/ \E i \in DOMAIN rx' : Answers(i)' /\ rx'[i].ok /\ rx'[i].port = p
        BY <2>2, <2>3, <3>1, <3>2 DEF RemoteInv, OpenInv
      <4>2. \A i, j \in DOMAIN rx' : Answers(i)' /\ IsDone(j)' => ~(j < i)
        BY <3>1, <3>2
      <4> QED  BY <2>1, <2>2, <4>1, <4>2 DEF OpenInv, Closes
    <3>8. ProbeInv'
      BY <2>2, <2>5, <3>1 DEF RemoteInv, ProbeInv, Earlier
    <3> QED  BY <3>3, <3>4, <3>5, <3>6, <3>7, <3>8 DEF RemoteInv
  \* which steps do which
  <2>6. a \in AttemptTypes
    BY <1>1
  <2>7. ASSUME NEW step \in {"Master", "Check", "Socket", "Drain"}, NEW session \in Sessions,
               MovesTo(a, step, session)
        PROVE  \E b : attempts' = {b} /\ rx' = rx /\ b.at = step /\ b.session = session
    <3> DEFINE b == [a EXCEPT !.at = step, !.session = session]
    <3>1. b.at = step /\ b.session = session
      BY <2>6 DEF AttemptTypes
    <3>2. attempts' = {b} /\ rx' = rx
      BY <2>1, <2>7 DEF MovesTo
    <3> QED  BY <3>1, <3>2
  <2>8. ASSUME NEW outcome, NEW drained, Reports(a, outcome, drained)
        PROVE  \E d : /\ attempts' = {} /\ rx' = Append(rx, d) /\ d.type = "Done"
                      /\ d.outcome = outcome /\ d.session = a.session
    BY <2>1, <2>8 DEF Reports, Done
  <2>9. CASE OpenMaster(a)
    BY <2>4, <2>7, <2>9 DEF OpenMaster, Forwarding, Sessions
  <2>10. CASE MasterRefused(a)
    BY <2>5, <2>8, <2>10 DEF MasterRefused, Forwarding, remote
  <2>11. CASE CheckHost(a)
    BY <2>4, <2>5, <2>7, <2>8, <2>11 DEF CheckHost, Forwarding, remote, Sessions
  <2>12. CASE ForwardSocket(a)
    BY <1>1, <2>4, <2>5, <2>7, <2>8, <2>12 DEF ForwardSocket, Forwarding, Sessions
  <2>13. CASE DrainQueue(a)
    BY <2>5, <2>8, <2>13 DEF DrainQueue, Forwarding, remote
  <2> QED  BY <1>13, <2>9, <2>10, <2>11, <2>12, <2>13 DEF AttemptStep
<1> QED  BY <1>3, <1>4, <1>5, <1>6, <1>7, <1>8, <1>10, <1>12, <1>13 DEF Workers

-----------------------------------------------------------------------------
(* The theorems.                                                            *)

(* What is open on the host is accounted for, of a user who starts no       *)
(* attempt while a worker is at work.                                       *)
THEOREM RemoteInvariance == ASSUME Patient PROVE Spec => [](IInv /\ RemoteInv)
<1>1. Init => RemoteInv
  BY DEF Init, Fresh, NewMachine, Disconnected, RemoteInv, MasterInv, CloserInv, SocketInv, SessionInv,
         ListInv, PortInv, OpenInv, ProbeInv, LateInv, IsConnected, IsKind
<1>2. IInv /\ IInv' /\ RemoteInv /\ [Next]_vars => RemoteInv'
  BY ManagerStep, WorkerStep DEF Next, UI, Poll
<1> QED  BY <1>1, <1>2, Invariance, PTL DEF Spec

(* Nothing is left open on the host that no session, list, closer or        *)
(* attempt accounts for, and a listed forward is open (Manager::perform,    *)
(* the Forwarded arm of Manager::apply and steps::connect together).        *)
THEOREM LeaksNothing == ASSUME Patient PROVE Spec => []NothingLeaks
<1>1. IInv /\ RemoteInv => NothingLeaks
  <2> SUFFICES ASSUME IInv, RemoteInv PROVE NothingLeaks
    OBVIOUS
  <2>1. rx \in Seq(Messages)
    BY DEF IInv, TypeOK
  <2>2. \A i \in DOMAIN rx : rx[i] \in InChannel(rx[i].type)
    BY <2>1 DEF InChannel
  <2>3. NoLeakedSocket
    BY <2>2 DEF RemoteInv, SocketInv, Forwarding, Bears, IsDone, NoLeakedSocket
  <2>4. NoLeakedPorts
    BY <2>2 DEF RemoteInv, OpenInv, Answers, Closes, NoLeakedPorts
  <2>5. ListedPortsAreOpen
    BY DEF RemoteInv, ListInv, ListedPortsAreOpen
  <2> QED  BY <2>3, <2>4, <2>5 DEF NothingLeaks
<1> QED  BY <1>1, RemoteInvariance, PTL

(* A host shown as connected with a forwarded socket has that socket, so    *)
(* the hooks of agents on it reach the app.                                 *)
THEOREM HooksArrive == ASSUME Patient PROVE Spec => []HooksReachApp
<1>1. RemoteInv => HooksReachApp
  BY DEF RemoteInv, SessionInv, HooksReachApp, IsConnected, IsKind, Disconnected
<1> QED  BY <1>1, RemoteInvariance, PTL
=============================================================================
