----------------------------- MODULE SshMachine -----------------------------
(***************************************************************************)
(* One host's connection machine under every order of its inputs: what the *)
(* user presses, clock ticks, the death of the master, and the reports of  *)
(* connect attempts, of which several may be running at once (a cancelled  *)
(* attempt keeps running on its worker until it ends).                     *)
(***************************************************************************)
EXTENDS SshPhases

CONSTANTS
  MaxEpoch,  \* bound: attempts and cancels in a behaviour
  MaxNow     \* bound: the clock

ASSUME MaxEpochAssumption == MaxEpoch \in Nat
ASSUME MaxNowAssumption == MaxNow \in Nat

VARIABLES
  machine,  \* the Machine
  now,      \* the caller's clock
  attempts  \* epoch -> what the attempt tagged with it has reported

vars == <<machine, now, attempts>>

Epochs == 1..MaxEpoch

(* "none": no attempt has this epoch (a cancel took it, or it is not used   *)
(* yet).  The other states are the running attempt and its four outcomes.   *)
AttemptStates == {"none", "running", "connected", "key", "fatal", "retryable"}

NoAttempt == [state |-> "none", trust |-> FALSE, said |-> {}]

Running(e) == attempts[e].state = "running"

TypeOK ==
  /\ machine \in Machines
  /\ now \in Nat
  /\ attempts \in [Epochs -> [state: AttemptStates, trust: BOOLEAN,
                              said: SUBSET Warnings]]

Init ==
  /\ machine = NewMachine
  /\ now = 0
  /\ attempts = [e \in Epochs |-> NoAttempt]

-----------------------------------------------------------------------------
(* Event: what the user or the clock does.  A Start runs a new attempt.     *)

Perform(result) ==
  /\ machine' = result.machine
  /\ attempts' =
       IF result.action.kind = "Start"
         THEN [attempts EXCEPT ![result.action.epoch] =
                 [state |-> "running", trust |-> result.action.trust, said |-> {}]]
         ELSE attempts
  /\ UNCHANGED now

Bounded == machine.epoch < MaxEpoch

Connect == Bounded /\ Perform(OnConnect(machine))
RetryNow == Bounded /\ Perform(OnRetryNow(machine))
Trust == Bounded /\ Perform(OnTrust(machine))
Cancel == Bounded /\ Perform(OnCancel(machine))
Tick == Bounded /\ Perform(OnTick(machine, now))
MasterDied == Bounded /\ Perform(OnMasterDied(machine, now))

User == Connect \/ RetryNow \/ Trust \/ Cancel

Advance ==
  /\ now < MaxNow
  /\ now' = now + 1
  /\ UNCHANGED <<machine, attempts>>

-----------------------------------------------------------------------------
(* Event: what an attempt reports.                                          *)

StepStarted(e, step) ==
  /\ Running(e)
  /\ machine' = OnStepStarted(machine, e, step).machine
  /\ UNCHANGED <<now, attempts>>

Warning(e, w) ==
  /\ Running(e)
  /\ machine' = OnWarning(machine, e, w).machine
  /\ attempts' = [attempts EXCEPT ![e].said = @ \cup {w}]
  /\ UNCHANGED now

Ends(e, outcome) ==
  /\ Running(e)
  /\ attempts' = [attempts EXCEPT ![e].state = outcome]
  /\ UNCHANGED now

AttemptHostKeyUnknown(e) ==
  /\ Ends(e, "key")
  /\ machine' = OnHostKeyUnknown(machine, e).machine

AttemptConnected(e) ==
  /\ Ends(e, "connected")
  /\ machine' = OnConnected(machine, e).machine

AttemptFailed(e, step, fatal) ==
  /\ Ends(e, IF fatal THEN "fatal" ELSE "retryable")
  /\ machine' = OnFailed(machine, e, step, fatal, now).machine

AttemptEnds(e) ==
  \/ AttemptHostKeyUnknown(e)
  \/ AttemptConnected(e)
  \/ \E step \in Steps, fatal \in BOOLEAN : AttemptFailed(e, step, fatal)

Attempt(e) ==
  \/ \E step \in Steps : StepStarted(e, step)
  \/ \E w \in Warnings : Warning(e, w)
  \/ AttemptEnds(e)

-----------------------------------------------------------------------------
Next ==
  \/ User
  \/ Tick
  \/ MasterDied
  \/ Advance
  \/ \E e \in Epochs : Attempt(e)

Spec == Init /\ [][Next]_vars

(* The UI polls every frame and time passes; a worker's ssh commands end.   *)
Fairness ==
  /\ WF_vars(Tick)
  /\ WF_vars(Advance)
  /\ \A e \in Epochs : WF_vars(AttemptEnds(e))

FairSpec == Spec /\ Fairness

-----------------------------------------------------------------------------
(* Properties.                                                              *)

(* The phase is always the latest attempt's: it waits on an attempt exactly *)
(* while that attempt runs, and a dialog, a connection, a retry or a        *)
(* failure is what the attempt of the current epoch ended with, never what  *)
(* an older one reported ("results from an older attempt are ignored").     *)
PhaseIsLatestAttempts ==
  /\ IsKind(machine, Busy) => Running(machine.epoch)
  /\ IsConnected(machine) => attempts[machine.epoch].state = "connected"
  /\ IsKind(machine, {"HostKeyUnknown"}) => attempts[machine.epoch].state = "key"
  /\ IsKind(machine, {"Retrying"}) => attempts[machine.epoch].state = "retryable"
  /\ IsKind(machine, {"Failed"}) => attempts[machine.epoch].state = "fatal"
  /\ IsKind(machine, {"Disconnected"}) /\ machine.epoch > 0
       => attempts[machine.epoch].state = "none"

(* "Every attempt gets a fresh epoch number": once an attempt has ended, no *)
(* attempt runs under its epoch again, so its reports can be told apart.    *)
EpochsNeverReusedStep ==
  \A e \in Epochs :
    attempts'[e].state = "running" => attempts[e].state \in {"none", "running"}

EpochsNeverReused == [][EpochsNeverReusedStep]_vars

(* The warnings a connection shows, and those being collected, are those    *)
(* its own attempt reported: none left over from a cancelled or failed one, *)
(* none lost.                                                               *)
WarningsAreTheAttempts ==
  /\ IsConnected(machine) => machine.phase.warnings = attempts[machine.epoch].said
  /\ IsKind(machine, Busy) => machine.pending = attempts[machine.epoch].said

(* Host keys are only ever accepted through the dialog: an attempt with     *)
(* accept-new directly follows one that stopped at an unknown key.          *)
TrustFollowsDialog ==
  \A e \in Epochs :
    attempts[e].trust => e > 1 /\ attempts[e - 1].state = "key"

(* The banner's Details are the failure of the attempt just made, and a     *)
(* connection has none.                                                     *)
DetailsAreCurrent ==
  /\ IsKind(machine, {"Retrying", "Failed"}) => machine.last_error = machine.epoch
  /\ IsConnected(machine) => machine.last_error = 0
  /\ machine.last_error # 0
       => attempts[machine.last_error].state \in {"fatal", "retryable"}

(* What a connection tells the user of its attempts is its own attempt's.   *)
ReportsAreTheAttempts == WarningsAreTheAttempts /\ DetailsAreCurrent

(* The documented schedule: the wait after the k-th failure of an outage is *)
(* 3 * 2^(k-1), at most the cap, however the attempts before it were        *)
(* started or interrupted.                                                  *)
ScheduledDelay(k) == Least(Least(3 * 2^(k - 1), U64Max), BackoffCap)

RetryScheduleStep ==
  machine'.phase.kind = "Retrying" /\ machine.phase.kind # "Retrying"
    => machine'.phase.next_at = now + ScheduledDelay(machine'.phase.outage.attempt)

RetrySchedule == [][RetryScheduleStep]_vars

(* One outage is one outage: while attempts fail and are retried, its start *)
(* and whether the host was ever reached stay, and the count only grows, by *)
(* the attempt that just failed.                                            *)
InOutage(m) == IsKind(m, {"Lost", "Retrying"})

OutageKeptStep ==
  InOutage(machine) /\ InOutage(machine')
    => LET before == machine.phase.outage
           after == machine'.phase.outage
       IN /\ after.since = before.since
          /\ after.ever_connected = before.ever_connected
          /\ after.attempt - before.attempt
               = IF IsKind(machine, {"Lost"}) /\ IsKind(machine', {"Retrying"})
                   THEN 1 ELSE 0

OutageKept == [][OutageKeptStep]_vars

(* An outage is retried on the documented schedule and stays one outage.    *)
OutageIsKeptAndRetried == OutageKept /\ RetrySchedule

(* A retry that is scheduled is made (or the user takes over), and no phase *)
(* waits on an attempt forever.                                             *)
RetriesHappen ==
  (/\ IsKind(machine, {"Retrying"})
   /\ machine.phase.next_at <= MaxNow
   /\ Bounded) ~> ~IsKind(machine, {"Retrying"})

AttemptsSettle == IsKind(machine, Busy) ~> ~IsKind(machine, Busy)

(* Neither a scheduled retry nor a running attempt is waited for forever.   *)
NothingHangs == RetriesHappen /\ AttemptsSettle
=============================================================================
