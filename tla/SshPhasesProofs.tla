--------------------------- MODULE SshPhasesProofs ---------------------------
(***************************************************************************)
(* Lemmas about the operators of SshPhases, for any machine value: what    *)
(* the proofs about SshMachine and SshManager need to know of a result.    *)
(***************************************************************************)
EXTENDS SshPhases, TLAPS

USE BackoffCapAssumption, U64MaxAssumption

(* The delays: doubling stays within the u64, and a retry is due some time. *)
LEMMA BackoffTypes ==
  /\ FirstDelay \in 0..U64Max
  /\ \A b \in 0..U64Max : Doubled(b) \in 0..U64Max /\ Delay(b) \in Nat
  BY DEF FirstDelay, Doubled, Delay, Least

(* What a phase's kind says about its fields.                               *)
LEMMA PhaseFields ==
  ASSUME NEW p \in Phases
  PROVE  /\ p.kind = "Connected" => p.warnings \in SUBSET Warnings
         /\ p.kind \in {"Lost", "Retrying"} => p.outage \in Outages
         /\ p.kind = "Retrying" => p.next_at \in Nat
         /\ p.kind = "Connecting" => p = Connecting(p.step, p.trust) /\ p.trust \in BOOLEAN
         /\ p.kind = "Lost" => p = Lost(p.outage, p.step)
         /\ p.kind \in {"Disconnected", "HostKeyUnknown", "Connecting",
                        "Connected", "Lost", "Retrying", "Failed"}
         /\ p.kind = "Disconnected" => p = Disconnected
  BY DEF Phases, Connecting, Lost, Disconnected

LEMMA PhaseTypes ==
  /\ Disconnected \in Phases
  /\ HostKeyUnknown \in Phases
  /\ \A s \in Steps : Failed(s) \in Phases
  /\ \A s \in Steps, t \in BOOLEAN : Connecting(s, t) \in Phases
  /\ \A w \in SUBSET Warnings : Connected(w) \in Phases
  /\ \A o \in Outages, s \in Steps : Lost(o, s) \in Phases
  /\ \A o \in Outages, t \in Nat : Retrying(o, t) \in Phases
  BY DEF Phases, Disconnected, HostKeyUnknown, Failed, Connecting, Connected,
         Lost, Retrying

-----------------------------------------------------------------------------
(* Machine::handle in three shapes: an attempt starts in a fresh epoch, the *)
(* machine is disconnected in a fresh epoch, or the attempt of the epoch    *)
(* ends.  What is none of these leaves the machine as it was.               *)
Starts(m, result) ==
  /\ result.machine \in Machines
  /\ result.machine.epoch = m.epoch + 1
  /\ result.machine.phase.kind \in Busy
  /\ \E trust \in BOOLEAN : result.action = Start(m.epoch + 1, trust)

Cancels(m, result) ==
  /\ result.machine \in Machines
  /\ result.machine.epoch = m.epoch + 1
  /\ result.machine.phase = Disconnected
  /\ result.action = IF IsKind(m, {"Connected", "Lost", "Retrying"}) THEN CloseForwards
                     ELSE NoAction

EndsIn(m, result, kinds) ==
  /\ result.machine \in Machines
  /\ result.machine.epoch = m.epoch
  /\ result.machine.phase.kind \in kinds
  /\ result.action = NoAction

LEMMA UserResults ==
  ASSUME NEW m \in Machines
  PROVE  /\ IF IsKind(m, {"Disconnected", "Failed"}) THEN Starts(m, OnConnect(m))
            ELSE OnConnect(m) = Ignored(m)
         /\ IF IsKind(m, {"Disconnected", "Failed", "Retrying"}) THEN Starts(m, OnRetryNow(m))
            ELSE OnRetryNow(m) = Ignored(m)
         /\ IF IsKind(m, {"HostKeyUnknown"}) THEN Starts(m, OnTrust(m))
            ELSE OnTrust(m) = Ignored(m)
         /\ Cancels(m, OnCancel(m))
<1>0. m \in Machines /\ {} \in SUBSET Warnings /\ m.epoch + 1 \in Nat
  BY DEF Machines
<1>1. /\ m.phase \in Phases /\ m.epoch \in Nat /\ m.backoff \in 0..U64Max
      /\ m = [phase |-> m.phase, epoch |-> m.epoch, backoff |-> m.backoff,
              pending |-> m.pending, last_error |-> m.last_error]
      /\ m.pending \in SUBSET Warnings /\ m.last_error \in Nat
  BY DEF Machines
<1>2. \A trust \in BOOLEAN : Starts(m, StartFresh(m, trust))
  <2> SUFFICES ASSUME NEW trust \in BOOLEAN PROVE Starts(m, StartFresh(m, trust))
    OBVIOUS
  <2>1. Connecting("Master", trust) \in Phases /\ Connecting("Master", trust).kind \in Busy
    BY PhaseTypes DEF Steps, Connecting, Busy
  <2> DEFINE next == [m EXCEPT !.epoch = m.epoch + 1, !.pending = {},
                               !.phase = Connecting("Master", trust), !.backoff = FirstDelay]
  <2>2. next \in Machines /\ next.epoch = m.epoch + 1 /\ next.phase = Connecting("Master", trust)
    BY ONLY <1>0, <1>1, <2>1, BackoffTypes DEF Machines
  <2> HIDE DEF next
  <2>3. StartFresh(m, trust) = [machine |-> next, action |-> Start(m.epoch + 1, trust)]
    BY DEF StartFresh, Then, next
  <2> QED  BY <2>1, <2>2, <2>3 DEF Starts
<1>3. IsKind(m, {"Retrying"}) => Starts(m, StartReconnect(m, m.phase.outage))
  <2> SUFFICES ASSUME IsKind(m, {"Retrying"}) PROVE Starts(m, StartReconnect(m, m.phase.outage))
    OBVIOUS
  <2>1. m.phase.outage \in Outages
    BY <1>1, PhaseFields DEF IsKind
  <2>2. Lost(m.phase.outage, "Master") \in Phases /\ Lost(m.phase.outage, "Master").kind \in Busy
    BY <2>1, PhaseTypes DEF Steps, Lost, Busy
  <2> DEFINE next == [m EXCEPT !.epoch = m.epoch + 1, !.pending = {},
                               !.phase = Lost(m.phase.outage, "Master")]
  <2>3. next \in Machines /\ next.epoch = m.epoch + 1 /\ next.phase = Lost(m.phase.outage, "Master")
    BY ONLY <1>0, <1>1, <2>2 DEF Machines
  <2> HIDE DEF next
  <2>4. StartReconnect(m, m.phase.outage) = [machine |-> next, action |-> Start(m.epoch + 1, FALSE)]
    BY DEF StartReconnect, Then, next
  <2>5. PICK no \in BOOLEAN : no = FALSE
    OBVIOUS
  <2>6. StartReconnect(m, m.phase.outage) = [machine |-> next, action |-> Start(m.epoch + 1, no)]
    BY <2>4, <2>5
  <2> QED  BY ONLY <2>2, <2>3, <2>5, <2>6 DEF Starts
<1>4. Cancels(m, OnCancel(m))
  <2> DEFINE next == [m EXCEPT !.phase = Disconnected, !.epoch = m.epoch + 1, !.pending = {}]
  <2>1. next \in Machines /\ next.epoch = m.epoch + 1 /\ next.phase = Disconnected
    BY ONLY <1>0, <1>1, PhaseTypes DEF Machines
  <2> HIDE DEF next
  <2>2. OnCancel(m) = [machine |-> next,
                       action |-> IF IsKind(m, {"Connected", "Lost", "Retrying"}) THEN CloseForwards
                                  ELSE NoAction]
    BY DEF OnCancel, Then, next
  <2> QED  BY <2>1, <2>2 DEF Cancels
<1> QED  BY <1>2, <1>3, <1>4 DEF OnConnect, OnRetryNow, OnTrust, IsKind

LEMMA ClockResults ==
  ASSUME NEW m \in Machines, NEW now \in Nat
  PROVE  /\ IF RetryDue(m, now) THEN Starts(m, OnTick(m, now)) ELSE OnTick(m, now) = Ignored(m)
         /\ IF IsConnected(m) THEN Starts(m, OnMasterDied(m, now))
            ELSE OnMasterDied(m, now) = Ignored(m)
<1>0. m \in Machines /\ {} \in SUBSET Warnings /\ m.epoch + 1 \in Nat
  BY DEF Machines
<1>1. RetryDue(m, now) => OnTick(m, now) = OnRetryNow(m)
  BY DEF RetryDue, OnTick, OnRetryNow
<1>2. IsConnected(m) => Starts(m, OnMasterDied(m, now))
  <2> DEFINE outage == [since |-> now, attempt |-> 0, ever_connected |-> TRUE]
  <2>1. outage \in Outages
    BY DEF Outages
  <2>2. Lost(outage, "Master") \in Phases /\ Lost(outage, "Master").kind \in Busy
    BY <2>1, PhaseTypes DEF Steps, Lost, Busy
  <2> HIDE DEF outage
  <2> DEFINE next == [m EXCEPT !.epoch = m.epoch + 1, !.pending = {},
                               !.phase = Lost(outage, "Master")]
  <2>3. next \in Machines /\ next.epoch = m.epoch + 1 /\ next.phase = Lost(outage, "Master")
    BY ONLY <1>0, <2>2 DEF Machines
  <2> HIDE DEF next
  <2>4. StartReconnect(m, outage) = [machine |-> next, action |-> Start(m.epoch + 1, FALSE)]
    BY DEF StartReconnect, Then, next
  <2>5. PICK no \in BOOLEAN : no = FALSE
    OBVIOUS
  <2>6. StartReconnect(m, outage) = [machine |-> next, action |-> Start(m.epoch + 1, no)]
    BY <2>4, <2>5
  <2>7. Starts(m, StartReconnect(m, outage))
    BY ONLY <2>2, <2>3, <2>5, <2>6 DEF Starts
  <2> QED  BY <2>7 DEF OnMasterDied, outage
<1> QED  BY <1>1, <1>2, UserResults DEF OnTick, OnMasterDied, RetryDue, IsKind

LEMMA AttemptResults ==
  ASSUME NEW m \in Machines, NEW epoch \in Nat, NEW step \in Steps, NEW fatal \in BOOLEAN,
         NEW now \in Nat
  PROVE  /\ InAttempt(m, epoch) =>
              /\ EndsIn(m, OnConnected(m, epoch), {"Connected"})
              /\ EndsIn(m, OnHostKeyUnknown(m, epoch), {"HostKeyUnknown"})
              /\ EndsIn(m, OnFailed(m, epoch, step, fatal, now), {"Failed", "Retrying"})
         /\ ~InAttempt(m, epoch) =>
              /\ OnConnected(m, epoch) = IF IsKind(m, {"Disconnected"}) /\ epoch < m.epoch
                                           THEN Then(m, CloseForwards) ELSE Ignored(m)
              /\ OnHostKeyUnknown(m, epoch) = Ignored(m)
              /\ OnFailed(m, epoch, step, fatal, now) = Ignored(m)
<1>1. m.phase \in Phases /\ m.backoff \in 0..U64Max /\ m.pending \in SUBSET Warnings
  BY DEF Machines
<1>2. InAttempt(m, epoch) => EndsIn(m, OnConnected(m, epoch), {"Connected"})
  <2>1. Connected(m.pending) \in Phases /\ Connected(m.pending).kind = "Connected"
    BY <1>1, PhaseTypes DEF Connected
  <2> QED  BY <2>1, BackoffTypes DEF OnConnected, Ignored, Then, EndsIn, Machines
<1>3. InAttempt(m, epoch) => EndsIn(m, OnHostKeyUnknown(m, epoch), {"HostKeyUnknown"})
  <2>1. HostKeyUnknown \in Phases /\ HostKeyUnknown.kind = "HostKeyUnknown"
    BY PhaseTypes DEF HostKeyUnknown
  <2> QED  BY <2>1 DEF OnHostKeyUnknown, Ignored, Then, EndsIn, Machines
<1>4. InAttempt(m, epoch) =>
        EndsIn(m, OnFailed(m, epoch, step, fatal, now), {"Failed", "Retrying"})
  <2> SUFFICES ASSUME InAttempt(m, epoch)
               PROVE  EndsIn(m, OnFailed(m, epoch, step, fatal, now), {"Failed", "Retrying"})
    OBVIOUS
  <2>1. Failed(step) \in Phases /\ Failed(step).kind = "Failed"
    BY PhaseTypes DEF Failed
  <2>2. OutageAfter(m, now) \in Outages
    BY <1>1, PhaseFields DEF OutageAfter, IsKind, Outages
  <2>3. now + Delay(m.backoff) \in Nat /\ Doubled(m.backoff) \in 0..U64Max
    BY <1>1, BackoffTypes
  <2> DEFINE retrying == Retrying(OutageAfter(m, now), now + Delay(m.backoff))
  <2>4. retrying \in Phases /\ retrying.kind = "Retrying"
    BY <2>2, <2>3, PhaseTypes DEF Retrying
  <2> HIDE DEF retrying
  <2>5. CASE fatal
    BY <2>1, <2>5 DEF OnFailed, Ignored, Then, EndsIn, Machines
  <2>6. CASE ~fatal
    <3> DEFINE next == [m EXCEPT !.phase = retrying, !.backoff = Doubled(m.backoff),
                                 !.pending = {}, !.last_error = epoch]
    <3>1. next \in Machines /\ next.epoch = m.epoch /\ next.phase = retrying
      BY <2>3, <2>4 DEF Machines
    <3>2. OnFailed(m, epoch, step, fatal, now) = [machine |-> next, action |-> NoAction]
      BY <2>6 DEF OnFailed, retrying, Ignored, Then
    <3> HIDE DEF next
    <3> QED  BY <2>4, <3>1, <3>2 DEF EndsIn
  <2> QED  BY <2>5, <2>6
<1> QED  BY <1>2, <1>3, <1>4 DEF OnConnected, OnHostKeyUnknown, OnFailed
=============================================================================
