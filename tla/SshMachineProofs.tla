-------------------------- MODULE SshMachineProofs --------------------------
(***************************************************************************)
(* Proofs about SshMachine for every set of warnings, every backoff cap    *)
(* and every bound.                                                        *)
(***************************************************************************)
EXTENDS SshMachine, SshPhasesProofs

(* What the named properties leave implicit and the induction needs: the    *)
(* epoch is within the bound, epoch 0 is the machine nobody has used, and   *)
(* no attempt has an epoch the machine has not reached.                     *)
EpochsInv ==
  /\ machine.epoch \in 0..MaxEpoch
  /\ machine.epoch = 0 => machine.phase = Disconnected
  /\ machine.last_error \in 0..machine.epoch
  /\ \A e \in Epochs : e > machine.epoch => attempts[e] = NoAttempt

IInv ==
  /\ TypeOK
  /\ EpochsInv
  /\ PhaseIsLatestAttempts
  /\ WarningsAreTheAttempts
  /\ TrustFollowsDialog
  /\ DetailsAreCurrent

USE MaxEpochAssumption, MaxNowAssumption, BackoffCapAssumption, U64MaxAssumption

-----------------------------------------------------------------------------
(* The shapes every step of the machine has: it starts an attempt, it goes  *)
(* to Disconnected, the current attempt ends, another one ends.             *)

(* A phase that waits on an attempt is met by that attempt alone.           *)
LEMMA RunningIsCurrent ==
  ASSUME IInv, NEW e \in Epochs, Running(e), e = machine.epoch
  PROVE  IsKind(machine, Busy)
<1>1. machine.phase \in Phases
  BY DEF IInv, TypeOK, Machines
<1>2. machine.phase.kind \in {"Disconnected", "HostKeyUnknown", "Connecting",
                              "Connected", "Lost", "Retrying", "Failed"}
  BY <1>1, PhaseFields
<1>3. e > 0
  BY DEF Epochs
<1>. QED
  BY <1>2, <1>3 DEF IInv, PhaseIsLatestAttempts, Running, IsKind, IsConnected, Busy

LEMMA StartStep ==
  ASSUME IInv, Bounded,
         NEW phase \in Phases, phase.kind \in Busy,
         NEW backoff \in 0..U64Max, NEW trust \in BOOLEAN,
         trust => IsKind(machine, {"HostKeyUnknown"}),
         machine' = [machine EXCEPT !.epoch = machine.epoch + 1, !.pending = {},
                                    !.phase = phase, !.backoff = backoff],
         attempts' = [attempts EXCEPT ![machine.epoch + 1] =
                        [state |-> "running", trust |-> trust, said |-> {}]],
         now' = now
  PROVE  IInv'
<1> DEFINE n == machine.epoch + 1
<1>1. n \in Epochs /\ machine.epoch \in 0..MaxEpoch
  BY DEF IInv, EpochsInv, Bounded, Epochs
<1>2. /\ machine' \in Machines
      /\ machine'.epoch = n
      /\ machine'.phase = phase
      /\ machine'.pending = {}
      /\ machine'.last_error = machine.last_error
  <2>1. machine \in Machines
    BY DEF IInv, TypeOK
  <2>2. machine' = [machine EXCEPT !.epoch = n, !.pending = {},
                                   !.phase = phase, !.backoff = backoff]
    OBVIOUS
  <2>3. n \in Nat /\ {} \in SUBSET Warnings
    BY <1>1
  <2>. QED
    BY ONLY <2>1, <2>2, <2>3, phase \in Phases, backoff \in 0..U64Max DEF Machines
<1>3. /\ attempts'[n] = [state |-> "running", trust |-> trust, said |-> {}]
      /\ \A e \in Epochs : e # n => attempts'[e] = attempts[e]
  BY <1>1 DEF IInv, TypeOK
<1>4. TypeOK'
  BY <1>1, <1>2 DEF IInv, TypeOK, AttemptStates
<1>5. EpochsInv'
  BY <1>1, <1>2, <1>3 DEF IInv, EpochsInv, Epochs
<1>6. PhaseIsLatestAttempts'
  BY <1>1, <1>2, <1>3 DEF PhaseIsLatestAttempts, IsKind, IsConnected, Busy, Running
<1>7. WarningsAreTheAttempts'
  BY <1>1, <1>2, <1>3 DEF WarningsAreTheAttempts, IsKind, IsConnected, Busy
<1>8. TrustFollowsDialog'
  <2> SUFFICES ASSUME NEW e \in Epochs, attempts'[e].trust
               PROVE  e > 1 /\ attempts'[e - 1].state = "key"
    BY DEF TrustFollowsDialog
  <2>1. CASE e = n
    <3>1. IsKind(machine, {"HostKeyUnknown"})
      BY <2>1, <1>3
    <3>2. machine.epoch > 0 /\ attempts[machine.epoch].state = "key"
      BY <3>1, <1>1 DEF IInv, EpochsInv, PhaseIsLatestAttempts, IsKind, Disconnected
    <3>. QED
      BY <2>1, <3>2, <1>1, <1>3 DEF Epochs
  <2>2. CASE e # n
    <3>1. attempts[e].trust /\ e > 1 /\ attempts[e - 1].state = "key"
      BY <2>2, <1>3 DEF IInv, TrustFollowsDialog
    <3>2. e - 1 # n
      BY <3>1, <1>1 DEF IInv, EpochsInv, NoAttempt, Epochs
    <3>. QED
      BY <3>1, <3>2, <1>3 DEF Epochs
  <2>. QED
    BY <2>1, <2>2
<1>9. DetailsAreCurrent'
  <2>1. machine.last_error # 0 => machine.last_error \in Epochs \ {n}
    BY <1>1 DEF IInv, EpochsInv, Epochs
  <2>. QED
    BY <1>1, <1>2, <1>3, <2>1 DEF IInv, DetailsAreCurrent, IsKind, IsConnected, Busy
<1>. QED
  BY <1>4, <1>5, <1>6, <1>7, <1>8, <1>9 DEF IInv

LEMMA CancelStep ==
  ASSUME IInv, Bounded,
         machine' = [machine EXCEPT !.phase = Disconnected,
                                    !.epoch = machine.epoch + 1, !.pending = {}],
         attempts' = attempts, now' = now
  PROVE  IInv'
<1> DEFINE n == machine.epoch + 1
<1>1. n \in Epochs /\ machine.epoch \in 0..MaxEpoch
  BY DEF IInv, EpochsInv, Bounded, Epochs
<1>2. /\ machine' \in Machines
      /\ machine'.epoch = n
      /\ machine'.phase = Disconnected
      /\ machine'.last_error = machine.last_error
  <2>1. machine \in Machines
    BY DEF IInv, TypeOK
  <2>2. n \in Nat /\ {} \in SUBSET Warnings
    BY <1>1
  <2>3. Disconnected \in Phases
    BY PhaseTypes
  <2>4. machine' = [machine EXCEPT !.phase = Disconnected, !.epoch = n, !.pending = {}]
    OBVIOUS
  <2>. QED
    BY ONLY <2>1, <2>2, <2>3, <2>4 DEF Machines
<1>3. attempts[n] = NoAttempt
  BY <1>1 DEF IInv, EpochsInv
<1>. QED
  BY <1>1, <1>2, <1>3
     DEF IInv, TypeOK, EpochsInv, Epochs, PhaseIsLatestAttempts, NoAttempt,
         WarningsAreTheAttempts, TrustFollowsDialog, DetailsAreCurrent,
         IsKind, IsConnected, Busy, Disconnected

(* An attempt's end leaves what every attempt reported as it was.           *)
Ended(e, outcome) ==
  /\ e \in Epochs /\ e \in Nat /\ e > 0
  /\ machine.epoch \in 0..MaxEpoch
  /\ machine.last_error \in 0..machine.epoch
  /\ attempts[e].state = "running"
  /\ e <= machine.epoch
  /\ attempts'[e] = [attempts[e] EXCEPT !.state = outcome]
  /\ \A i \in Epochs : i # e => attempts'[i] = attempts[i]
  /\ \A i \in Epochs : /\ attempts'[i].trust = attempts[i].trust
                       /\ attempts'[i].said = attempts[i].said
  /\ attempts'[e].state = outcome
  /\ attempts' \in [Epochs -> [state: AttemptStates, trust: BOOLEAN,
                               said: SUBSET Warnings]]
  /\ TrustFollowsDialog'

LEMMA EndEffect ==
  ASSUME IInv, NEW e \in Epochs, Running(e),
         NEW outcome \in {"connected", "key", "fatal", "retryable"},
         attempts' = [attempts EXCEPT ![e].state = outcome], now' = now
  PROVE  Ended(e, outcome)
<1>1. /\ e \in Epochs /\ e \in Nat /\ e > 0
      /\ machine.epoch \in 0..MaxEpoch
      /\ machine.last_error \in 0..machine.epoch
      /\ attempts[e].state = "running"
      /\ e <= machine.epoch
  BY DEF IInv, EpochsInv, Epochs, Running, NoAttempt
<1>2. /\ attempts'[e] = [attempts[e] EXCEPT !.state = outcome]
      /\ \A i \in Epochs : i # e => attempts'[i] = attempts[i]
      /\ \A i \in Epochs : /\ attempts'[i].trust = attempts[i].trust
                           /\ attempts'[i].said = attempts[i].said
      /\ attempts'[e].state = outcome
      /\ attempts' \in [Epochs -> [state: AttemptStates, trust: BOOLEAN,
                                   said: SUBSET Warnings]]
  BY DEF IInv, TypeOK, AttemptStates
<1>3. TrustFollowsDialog'
  BY <1>1, <1>2 DEF IInv, TrustFollowsDialog, Epochs
<1>. QED
  BY <1>1, <1>2, <1>3 DEF Ended

(* Either the machine waits on another attempt and ignores it,              *)
LEMMA EndIgnored ==
  ASSUME IInv, NEW e \in Epochs, Running(e),
         NEW outcome \in {"connected", "key", "fatal", "retryable"},
         attempts' = [attempts EXCEPT ![e].state = outcome], now' = now,
         e # machine.epoch, machine' = machine
  PROVE  IInv'
<1>0. Ended(e, outcome)
  BY EndEffect
<1>1. TypeOK' /\ EpochsInv'
  BY <1>0 DEF Ended, IInv, TypeOK, EpochsInv
<1>2. PhaseIsLatestAttempts' /\ WarningsAreTheAttempts'
  BY <1>0, PhaseFields
     DEF Ended, IInv, EpochsInv, PhaseIsLatestAttempts, WarningsAreTheAttempts, Running,
         IsKind, IsConnected, Busy, Epochs, Disconnected, TypeOK, Machines
<1>3. DetailsAreCurrent'
  BY <1>0
     DEF Ended, IInv, EpochsInv, DetailsAreCurrent, IsKind, IsConnected, Epochs
<1>. QED
  BY <1>0, <1>1, <1>2, <1>3 DEF IInv, Ended

(* or the phase becomes one that waits on no attempt, and fits the outcome. *)
LEMMA EndLands ==
  ASSUME IInv, NEW e \in Epochs, Running(e),
         NEW outcome \in {"connected", "key", "fatal", "retryable"},
         attempts' = [attempts EXCEPT ![e].state = outcome], now' = now,
         e = machine.epoch,
         NEW phase \in Phases, NEW backoff \in 0..U64Max,
         NEW last_error \in {0, e, machine.last_error},
         machine' = [machine EXCEPT !.phase = phase, !.pending = {},
                                    !.backoff = backoff,
                                    !.last_error = last_error],
         phase.kind = "Connected" =>
           outcome = "connected" /\ phase.warnings = machine.pending /\ last_error = 0,
         phase.kind = "HostKeyUnknown" => outcome = "key",
         phase.kind = "Retrying" => outcome = "retryable" /\ last_error = e,
         phase.kind = "Failed" => outcome = "fatal" /\ last_error = e,
         phase.kind \in {"Connected", "HostKeyUnknown", "Retrying", "Failed"},
         last_error = e => outcome \in {"fatal", "retryable"}
  PROVE  IInv'
<1>0. Ended(e, outcome)
  BY EndEffect
<1>1. IsKind(machine, Busy)
  BY RunningIsCurrent
<1>2. /\ machine' \in Machines
      /\ machine'.epoch = machine.epoch
      /\ machine'.phase = phase
      /\ machine'.last_error = last_error
  <2>1. machine \in Machines
    BY DEF IInv, TypeOK
  <2>2. last_error \in Nat /\ {} \in SUBSET Warnings
    BY <1>0 DEF Ended
  <2>3. machine' = [machine EXCEPT !.phase = phase, !.pending = {},
                                   !.backoff = backoff, !.last_error = last_error]
    OBVIOUS
  <2>. QED
    BY ONLY <2>1, <2>2, <2>3, phase \in Phases, backoff \in 0..U64Max DEF Machines
<1>3. TypeOK' /\ EpochsInv'
  BY <1>0, <1>2 DEF Ended, IInv, TypeOK, EpochsInv
<1>4. PhaseIsLatestAttempts'
  BY <1>0, <1>2 DEF Ended, PhaseIsLatestAttempts, IsKind, IsConnected, Busy
<1>5. WarningsAreTheAttempts'
  BY <1>0, <1>1, <1>2
     DEF Ended, IInv, WarningsAreTheAttempts, IsKind, IsConnected, Busy
<1>6. DetailsAreCurrent'
  BY <1>0, <1>1, <1>2
     DEF Ended, IInv, DetailsAreCurrent, EpochsInv, IsKind, IsConnected, Epochs
<1>. QED
  BY <1>0, <1>3, <1>4, <1>5, <1>6 DEF IInv, Ended

-----------------------------------------------------------------------------
(* The invariant is inductive: one step per action.                         *)

(* Perform of a result that starts no attempt and changes nothing.          *)
LEMMA StutterIInv ==
  ASSUME IInv, (UNCHANGED <<machine, attempts>> /\ now' \in Nat) \/ Perform(Ignored(machine))
  PROVE  IInv'
<1>1. UNCHANGED <<machine, attempts>> /\ now' \in Nat
  BY DEF Perform, Ignored, Then, NoAction, IInv, TypeOK
<1>. QED
  BY <1>1
     DEF IInv, TypeOK, EpochsInv, PhaseIsLatestAttempts, WarningsAreTheAttempts,
         TrustFollowsDialog, DetailsAreCurrent, Running

(* Perform of the two results that start an attempt.                        *)
LEMMA PerformStart ==
  ASSUME IInv, Bounded,
         \/ \E trust \in BOOLEAN : /\ trust => IsKind(machine, {"HostKeyUnknown"})
                                   /\ Perform(StartFresh(machine, trust))
         \/ \E outage \in Outages : Perform(StartReconnect(machine, outage))
  PROVE  IInv'
<1>1. ASSUME NEW trust \in BOOLEAN, trust => IsKind(machine, {"HostKeyUnknown"}),
             Perform(StartFresh(machine, trust))
      PROVE  IInv'
  <2>1. Connecting("Master", trust) \in Phases
    BY PhaseTypes DEF Steps
  <2>2. Connecting("Master", trust).kind \in Busy
    BY DEF Connecting, Busy
  <2>3. machine' = [machine EXCEPT !.epoch = machine.epoch + 1, !.pending = {},
                                   !.phase = Connecting("Master", trust),
                                   !.backoff = FirstDelay]
    BY <1>1 DEF Perform, StartFresh, Then
  <2>4. /\ attempts' = [attempts EXCEPT ![machine.epoch + 1] =
                         [state |-> "running", trust |-> trust, said |-> {}]]
        /\ now' = now
    BY <1>1 DEF Perform, StartFresh, Then, Start
  <2>. QED
    BY <1>1, <2>1, <2>2, <2>3, <2>4, BackoffTypes, StartStep
<1>2. ASSUME NEW outage \in Outages, Perform(StartReconnect(machine, outage)) PROVE IInv'
  <2>1. machine \in Machines /\ machine.backoff \in 0..U64Max
    BY DEF IInv, TypeOK, Machines
  <2>2. Lost(outage, "Master") \in Phases
    BY PhaseTypes DEF Steps
  <2>3. Lost(outage, "Master").kind \in Busy
    BY DEF Lost, Busy
  <2>4. machine' = [machine EXCEPT !.epoch = machine.epoch + 1, !.pending = {},
                                   !.phase = Lost(outage, "Master"),
                                   !.backoff = machine.backoff]
    BY <1>2, <2>1 DEF Perform, StartReconnect, Then, Machines
  <2>5. /\ attempts' = [attempts EXCEPT ![machine.epoch + 1] =
                         [state |-> "running", trust |-> FALSE, said |-> {}]]
        /\ now' = now
    BY <1>2 DEF Perform, StartReconnect, Then, Start
  <2>. QED
    BY <2>1, <2>2, <2>3, <2>4, <2>5, StartStep
<1>. QED
  BY <1>1, <1>2

LEMMA EventIInv == ASSUME IInv, User \/ Tick \/ MasterDied \/ Advance PROVE IInv'
<1>1. CASE User
  <2>1. machine \in Machines /\ machine.phase \in Phases
    BY DEF IInv, TypeOK, Machines
  <2>2. ASSUME Bounded, Perform(OnConnect(machine)) PROVE IInv'
    BY <2>2, PerformStart, StutterIInv DEF OnConnect
  <2>3. CASE Connect
    BY <2>2, <2>3 DEF Connect
  <2>4. CASE RetryNow
    <3>1. CASE IsKind(machine, {"Retrying"})
      <4>1. machine.phase.outage \in Outages
        BY <2>1, <3>1, PhaseFields DEF IsKind
      <4>. QED
        BY <2>4, <3>1, <4>1, PerformStart DEF RetryNow, OnRetryNow
    <3>2. CASE ~IsKind(machine, {"Retrying"})
      BY <2>2, <2>4, <3>2 DEF RetryNow, OnRetryNow
    <3>. QED
      BY <3>1, <3>2
  <2>5. CASE Trust
    BY <2>5, PerformStart, StutterIInv DEF Trust, OnTrust
  <2>6. CASE Cancel
    <3>1. /\ machine' = [machine EXCEPT !.phase = Disconnected,
                                        !.epoch = machine.epoch + 1, !.pending = {}]
          /\ attempts' = attempts /\ now' = now
      BY <2>6 DEF Cancel, Perform, OnCancel, Then, CloseForwards, NoAction
    <3>. QED
      BY <2>6, <3>1, CancelStep DEF Cancel
  <2>. QED
    BY <1>1, <2>3, <2>4, <2>5, <2>6 DEF User
<1>2. CASE Tick \/ MasterDied \/ Advance
  <2>1. machine \in Machines /\ machine.phase \in Phases /\ now \in Nat
    BY DEF IInv, TypeOK, Machines
  <2>2. CASE Tick
    <3>1. CASE RetryDue(machine, now)
      <4>1. machine.phase.outage \in Outages
        BY <2>1, <3>1, PhaseFields DEF RetryDue, IsKind
      <4>. QED
        BY <2>2, <3>1, <4>1, PerformStart DEF Tick, OnTick
    <3>2. CASE ~RetryDue(machine, now)
      BY <2>2, <3>2, StutterIInv DEF Tick, OnTick
    <3>. QED
      BY <3>1, <3>2
  <2>3. CASE MasterDied
    <3>1. [since |-> now, attempt |-> 0, ever_connected |-> TRUE] \in Outages
      BY <2>1 DEF Outages
    <3>. QED
      BY <2>3, <3>1, PerformStart, StutterIInv DEF MasterDied, OnMasterDied
  <2>4. CASE Advance
    BY <2>1, <2>4, StutterIInv DEF Advance
  <2>. QED
    BY <1>2, <2>2, <2>3, <2>4
<1>. QED
  BY <1>1, <1>2

LEMMA AttemptIInv == ASSUME IInv, NEW e \in Epochs, Attempt(e) PROVE IInv'
<1>1. CASE (\E step \in Steps : StepStarted(e, step)) \/ (\E w \in Warnings : Warning(e, w))
  <2>1. machine \in Machines /\ machine.phase \in Phases /\ now \in Nat
    BY DEF IInv, TypeOK, Machines
  <2>2. ASSUME NEW step \in Steps, StepStarted(e, step) PROVE IInv'
    <3>1. CASE InAttempt(machine, e)
      <4> DEFINE phase == [machine.phase EXCEPT !.step = step]
      <4>1. machine' = [machine EXCEPT !.phase = phase]
        BY <2>1, <2>2, <3>1 DEF StepStarted, OnStepStarted, Ignored, Then, Machines
      <4>2. phase \in Phases /\ phase.kind \in Busy /\ phase.kind = machine.phase.kind
        BY <2>1, <3>1 DEF InAttempt, IsKind, Busy, Phases
      <4>3. /\ machine' \in Machines
            /\ machine'.epoch = machine.epoch
            /\ machine'.phase = phase
            /\ machine'.pending = machine.pending
            /\ machine'.last_error = machine.last_error
        BY ONLY <2>1, <4>1, <4>2 DEF Machines
      <4>. QED
        BY <2>2, <3>1, <4>2, <4>3
           DEF StepStarted, InAttempt, IInv, TypeOK, EpochsInv, PhaseIsLatestAttempts,
               WarningsAreTheAttempts, TrustFollowsDialog, DetailsAreCurrent, Running,
               IsKind, IsConnected, Busy, Disconnected, Epochs
    <3>2. CASE ~InAttempt(machine, e)
      BY <2>1, <2>2, <3>2, StutterIInv DEF StepStarted, OnStepStarted, Ignored, Then
    <3>. QED
      BY <3>1, <3>2
  <2>3. ASSUME NEW w \in Warnings, Warning(e, w) PROVE IInv'
    <3>1. /\ attempts' = [attempts EXCEPT ![e].said = @ \cup {w}]
          /\ Running(e) /\ now' = now
      BY <2>3 DEF Warning
    <3>2. /\ attempts' \in [Epochs -> [state: AttemptStates, trust: BOOLEAN,
                                       said: SUBSET Warnings]]
          /\ \A i \in Epochs : /\ attempts'[i].state = attempts[i].state
                               /\ attempts'[i].trust = attempts[i].trust
                               /\ i # e => attempts'[i] = attempts[i]
          /\ attempts'[e].said = attempts[e].said \cup {w}
      BY <3>1 DEF IInv, TypeOK
    <3>3. attempts[e].state = "running" /\ e <= machine.epoch /\ e > 0
      BY <3>1 DEF IInv, EpochsInv, Running, NoAttempt, Epochs
    <3>4. CASE InAttempt(machine, e)
      <4>1. machine' = [machine EXCEPT !.pending = machine.pending \cup {w}]
        BY <2>1, <2>3, <3>4 DEF Warning, OnWarning, Ignored, Then, Machines
      <4>2. machine.pending \cup {w} \in SUBSET Warnings
        BY <2>1 DEF Machines
      <4>3. /\ machine' \in Machines
            /\ machine'.epoch = machine.epoch
            /\ machine'.phase = machine.phase
            /\ machine'.pending = machine.pending \cup {w}
            /\ machine'.last_error = machine.last_error
        BY ONLY <2>1, <4>1, <4>2 DEF Machines
      <4>. QED
        BY <2>1, <3>1, <3>2, <3>3, <3>4, <4>3
           DEF InAttempt, IInv, TypeOK, EpochsInv, PhaseIsLatestAttempts,
               WarningsAreTheAttempts, TrustFollowsDialog, DetailsAreCurrent, Running,
               IsKind, IsConnected, Busy, Epochs
    <3>5. CASE ~InAttempt(machine, e)
      <4>1. machine' = machine
        BY <2>3, <3>5 DEF Warning, OnWarning, Ignored, Then
      <4>2. e = machine.epoch => IsKind(machine, Busy)
        BY <3>1, RunningIsCurrent
      <4>3. e # machine.epoch
        BY <3>5, <4>2 DEF InAttempt
      <4>. QED
        BY <2>1, <3>1, <3>2, <3>3, <4>1, <4>3, PhaseFields
           DEF IInv, TypeOK, EpochsInv, PhaseIsLatestAttempts, WarningsAreTheAttempts,
               TrustFollowsDialog, DetailsAreCurrent, Running, IsKind, IsConnected,
               Busy, Epochs, Disconnected
    <3>. QED
      BY <3>4, <3>5
  <2>. QED
    BY <1>1, <2>2, <2>3
<1>2. CASE AttemptEnds(e)
  <2>1. /\ machine \in Machines /\ machine.phase \in Phases /\ now \in Nat
        /\ machine.backoff \in 0..U64Max
        /\ machine.pending \in SUBSET Warnings
        /\ machine = [machine EXCEPT !.backoff = machine.backoff,
                                     !.last_error = machine.last_error]
    BY DEF IInv, TypeOK, Machines
  <2>2. Running(e) => (InAttempt(machine, e) <=> e = machine.epoch)
    BY RunningIsCurrent DEF InAttempt
  <2>3. CASE AttemptHostKeyUnknown(e)
    <3>1. HostKeyUnknown \in Phases /\ HostKeyUnknown.kind = "HostKeyUnknown"
      BY PhaseTypes DEF HostKeyUnknown
    <3>2. Running(e) /\ attempts' = [attempts EXCEPT ![e].state = "key"] /\ now' = now
      BY <2>3 DEF AttemptHostKeyUnknown, Ends
    <3>3. CASE InAttempt(machine, e)
      <4>1. machine' = [machine EXCEPT !.phase = HostKeyUnknown, !.pending = {},
                                       !.backoff = machine.backoff,
                                       !.last_error = machine.last_error]
        BY <2>1, <2>3, <3>3
           DEF AttemptHostKeyUnknown, OnHostKeyUnknown, Ignored, Then, Machines
      <4>2. machine.last_error # e
        BY <2>3 DEF AttemptHostKeyUnknown, Ends, Running, IInv, DetailsAreCurrent, Epochs
      <4>. QED
        BY <2>1, <2>2, <3>1, <3>3, <3>2, <4>1, <4>2, EndLands
    <3>4. CASE ~InAttempt(machine, e)
      <4>1. machine' = machine
        BY <2>3, <3>4 DEF AttemptHostKeyUnknown, OnHostKeyUnknown, Ignored, Then
      <4>. QED
        BY <2>2, <3>4, <3>2, <4>1, EndIgnored
    <3>. QED
      BY <3>3, <3>4
  <2>4. CASE AttemptConnected(e)
    <3>1. /\ Connected(machine.pending) \in Phases
          /\ Connected(machine.pending).kind = "Connected"
          /\ Connected(machine.pending).warnings = machine.pending
      BY <2>1, PhaseTypes DEF Connected
    <3>2. Running(e) /\ attempts' = [attempts EXCEPT ![e].state = "connected"] /\ now' = now
      BY <2>4 DEF AttemptConnected, Ends
    <3>3. CASE InAttempt(machine, e)
      <4>1. machine' = [machine EXCEPT !.phase = Connected(machine.pending), !.pending = {},
                                       !.backoff = FirstDelay, !.last_error = 0]
        BY <2>4, <3>3 DEF AttemptConnected, OnConnected, Ignored, Then
      <4>2. e # 0
        BY DEF Epochs
      <4>. QED
        BY <2>2, <3>1, <3>3, <3>2, <4>1, <4>2, BackoffTypes, EndLands
    <3>4. CASE ~InAttempt(machine, e)
      <4>1. machine' = machine
        BY <2>4, <3>4 DEF AttemptConnected, OnConnected, Ignored, Then
      <4>. QED
        BY <2>2, <3>4, <3>2, <4>1, EndIgnored
    <3>. QED
      BY <3>3, <3>4
  <2>5. ASSUME NEW step \in Steps, NEW fatal \in BOOLEAN, AttemptFailed(e, step, fatal)
        PROVE  IInv'
    <3>1. /\ OutageAfter(machine, now) \in Outages
          /\ now + Delay(machine.backoff) \in Nat
          /\ Doubled(machine.backoff) \in 0..U64Max
      <4>1. CASE IsKind(machine, {"Lost"})
        <5>1. machine.phase.outage \in Outages
          BY <2>1, <4>1, PhaseFields DEF IsKind
        <5>. QED
          BY <2>1, <4>1, <5>1, BackoffTypes DEF OutageAfter, Outages
      <4>2. CASE ~IsKind(machine, {"Lost"})
        BY <2>1, <4>2, BackoffTypes DEF OutageAfter, Outages
      <4>. QED
        BY <4>1, <4>2
    <3> DEFINE phase == IF fatal THEN Failed(step)
                        ELSE Retrying(OutageAfter(machine, now), now + Delay(machine.backoff))
               backoff == IF fatal THEN machine.backoff ELSE Doubled(machine.backoff)
               outcome == IF fatal THEN "fatal" ELSE "retryable"
    <3>2. /\ phase \in Phases
          /\ phase.kind = (IF fatal THEN "Failed" ELSE "Retrying")
          /\ backoff \in 0..U64Max
          /\ outcome \in {"connected", "key", "fatal", "retryable"}
      BY <2>1, <3>1, PhaseTypes DEF Failed, Retrying
    <3>3. Running(e) /\ attempts' = [attempts EXCEPT ![e].state = outcome] /\ now' = now
      BY <2>5 DEF AttemptFailed, Ends
    <3>4. CASE InAttempt(machine, e)
      <4>1. machine' = [machine EXCEPT !.phase = phase, !.pending = {},
                                       !.backoff = backoff, !.last_error = e]
        BY <2>1, <2>5, <3>4 DEF AttemptFailed, OnFailed, Ignored, Then, Machines
      <4> HIDE DEF phase, backoff
      <4>2. e = machine.epoch
        BY <2>2, <3>3, <3>4
      <4>. QED
        BY <3>2, <3>3, <4>1, <4>2, EndLands
    <3>5. CASE ~InAttempt(machine, e)
      <4>1. machine' = machine
        BY <2>5, <3>5 DEF AttemptFailed, OnFailed, Ignored, Then
      <4> HIDE DEF phase, backoff
      <4>. QED
        BY <2>2, <3>2, <3>3, <3>5, <4>1, EndIgnored
    <3>. QED
      BY <3>4, <3>5
  <2>. QED
    BY <1>2, <2>3, <2>4, <2>5 DEF AttemptEnds
<1>. QED
  BY <1>1, <1>2 DEF Attempt

-----------------------------------------------------------------------------
(* The theorems.                                                            *)

LEMMA Inductive == Spec => []IInv
<1>1. Init => IInv
  <2> SUFFICES ASSUME Init PROVE IInv
    OBVIOUS
  <2>1. NewMachine \in Machines
    BY BackoffTypes, PhaseTypes DEF NewMachine, Machines
  <2>2. NoAttempt \in [state: AttemptStates, trust: BOOLEAN, said: SUBSET Warnings]
    BY DEF NoAttempt, AttemptStates
  <2>. QED
    BY <2>1, <2>2
       DEF Init, IInv, TypeOK, EpochsInv, Epochs, NewMachine, NoAttempt, Disconnected,
           PhaseIsLatestAttempts, WarningsAreTheAttempts, TrustFollowsDialog,
           DetailsAreCurrent, IsKind, IsConnected, Busy
<1>2. IInv /\ [Next]_vars => IInv'
  <2> SUFFICES ASSUME IInv, [Next]_vars PROVE IInv'
    OBVIOUS
  <2>1. CASE UNCHANGED vars
    BY <2>1, StutterIInv DEF vars, IInv, TypeOK
  <2>. QED
    BY <2>1, EventIInv, AttemptIInv DEF Next
<1>. QED
  BY <1>1, <1>2, PTL DEF Spec

(* Machine values stay within the types of state.rs; in particular the      *)
(* backoff's doubling never leaves its u64.                                 *)
THEOREM TypeCorrect == Spec => []TypeOK
  BY Inductive, PTL DEF IInv

(* Results from an older attempt are ignored: whatever the order of events, *)
(* the phase is the one the attempt of the current epoch put the machine in.*)
THEOREM LatestAttemptDecides == Spec => []PhaseIsLatestAttempts
  BY Inductive, PTL DEF IInv

(* accept-new is only ever used right after the host-key dialog.            *)
THEOREM TrustNeedsDialog == Spec => []TrustFollowsDialog
  BY Inductive, PTL DEF IInv

(* A connection shows exactly the warnings of the attempt that opened it,   *)
(* and Details the failure of the attempt just made.                        *)
THEOREM ReportsCorrect == Spec => []ReportsAreTheAttempts
<1>1. IInv => ReportsAreTheAttempts
  BY DEF IInv, ReportsAreTheAttempts
<1>. QED
  BY <1>1, Inductive, PTL

(* An epoch is used by one attempt only, so a report names its attempt.     *)
THEOREM EpochsFresh == Spec => EpochsNeverReused
<1>1. IInv /\ [Next]_vars => [EpochsNeverReusedStep]_vars
  <2> SUFFICES ASSUME IInv, Next, NEW e \in Epochs, attempts'[e].state = "running"
               PROVE  attempts[e].state \in {"none", "running"}
    BY DEF EpochsNeverReusedStep
  <2>1. ASSUME NEW r, r.action.kind = "Start" => r.action.epoch = machine.epoch + 1,
               Perform(r), Bounded
        PROVE  attempts[e].state \in {"none", "running"}
    <3>1. attempts' = attempts \/ r.action.epoch = machine.epoch + 1
      BY <2>1 DEF Perform
    <3>2. attempts'[e] = attempts[e] \/ e = machine.epoch + 1
      BY <2>1, <3>1 DEF Perform, IInv, TypeOK
    <3>. QED
      BY <3>2 DEF IInv, EpochsInv, NoAttempt, Epochs
  <2>2. \A trust, outage :
          /\ StartFresh(machine, trust).action.epoch = machine.epoch + 1
          /\ StartReconnect(machine, outage).action.epoch = machine.epoch + 1
          /\ Ignored(machine).action.kind = "None"
    BY DEF StartFresh, StartReconnect, Ignored, Then, Start, NoAction
  <2>3. ASSUME User \/ Tick \/ MasterDied
        PROVE  attempts[e].state \in {"none", "running"}
    <3>1. OnCancel(machine).action.kind # "Start"
      BY DEF OnCancel, Then, CloseForwards, NoAction
    <3>2. \A r \in {OnConnect(machine), OnRetryNow(machine), OnTrust(machine),
                    OnTick(machine, now), OnMasterDied(machine, now)} :
            r.action.kind = "Start" => r.action.epoch = machine.epoch + 1
      BY <2>2 DEF OnConnect, OnRetryNow, OnTrust, OnTick, OnMasterDied
    <3>. QED
      BY <2>1, <2>3, <3>1, <3>2
         DEF User, Connect, RetryNow, Trust, Cancel, Tick, MasterDied
  <2>4. ASSUME Advance PROVE attempts[e].state \in {"none", "running"}
    BY <2>4 DEF Advance
  <2>5. ASSUME NEW i \in Epochs, Attempt(i)
        PROVE  attempts[e].state \in {"none", "running"}
    BY <2>5 DEF Attempt, AttemptEnds, StepStarted, Warning, AttemptHostKeyUnknown,
                AttemptConnected, AttemptFailed, Ends, Running, IInv, TypeOK
  <2>. QED
    BY <2>3, <2>4, <2>5 DEF Next
<1>. QED
  BY Inductive, <1>1, PTL DEF Spec, EpochsNeverReused
=============================================================================
