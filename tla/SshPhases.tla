------------------------------ MODULE SshPhases ------------------------------
(***************************************************************************)
(* The connection state machine of one ssh host (src/ssh/state.rs) as pure *)
(* operators: a machine value, and for every event the machine after it    *)
(* together with the action its caller must perform.  SshMachine runs it   *)
(* against any order of events; SshManager drives it the way the Manager   *)
(* does.                                                                   *)
(*                                                                         *)
(* An operator named X_Y, here and in the other modules, is X with the     *)
(* mistake Y: no specification uses it.  PROJECT.json pairs it with the    *)
(* property that tells it from X.                                          *)
(***************************************************************************)
EXTENDS Integers

CONSTANTS
  Warnings,    \* the distinct warnings an attempt may report
  BackoffCap,  \* Settings::backoff_cap, the longest reconnect delay
  U64Max       \* the largest value of Backoff's u64, where doubling saturates

ASSUME BackoffCapAssumption == BackoffCap \in Nat
ASSUME U64MaxAssumption == U64Max \in Nat /\ U64Max >= 3

Steps == {"Master", "Cli", "Tools", "Socket", "Drain"}

Least(a, b) == IF a <= b THEN a ELSE b

-----------------------------------------------------------------------------
(* Backoff: 3, 6, 12, 24, 48, then the cap.  The machine keeps `next`.      *)

FirstDelay == 3
Delay(backoff) == Least(backoff, BackoffCap)
Doubled_Unsaturated(backoff) == 2 * backoff
Doubled(backoff) == Least(2 * backoff, U64Max)

-----------------------------------------------------------------------------
(* Phases.  A tagged union: each kind has the fields its Rust variant has,  *)
(* with the host-key prompt and the error text left out.                    *)

Disconnected == [kind |-> "Disconnected"]
Connecting(step, trust) == [kind |-> "Connecting", step |-> step, trust |-> trust]
HostKeyUnknown == [kind |-> "HostKeyUnknown"]
Connected(warnings) == [kind |-> "Connected", warnings |-> warnings]
Lost(outage, step) == [kind |-> "Lost", outage |-> outage, step |-> step]
Retrying(outage, next_at) ==
  [kind |-> "Retrying", outage |-> outage, next_at |-> next_at]
Failed(step) == [kind |-> "Failed", step |-> step]

Outages == [since: Nat, attempt: Nat, ever_connected: BOOLEAN]

Phases ==
  [kind: {"Disconnected", "HostKeyUnknown"}]
    \cup [kind: {"Connecting"}, step: Steps, trust: BOOLEAN]
    \cup [kind: {"Connected"}, warnings: SUBSET Warnings]
    \cup [kind: {"Lost"}, outage: Outages, step: Steps]
    \cup [kind: {"Retrying"}, outage: Outages, next_at: Nat]
    \cup [kind: {"Failed"}, step: Steps]

(* last_error is the epoch of the attempt whose error it holds; 0 is None.  *)
Machines ==
  [phase: Phases, epoch: Nat, backoff: 0..U64Max, pending: SUBSET Warnings,
   last_error: Nat]

NewMachine ==
  [phase |-> Disconnected, epoch |-> 0, backoff |-> FirstDelay,
   pending |-> {}, last_error |-> 0]

IsKind(m, kinds) == m.phase.kind \in kinds
IsConnected(m) == IsKind(m, {"Connected"})

(* An attempt is running and its reports still count.                       *)
Busy == {"Connecting", "Lost"}
InAttempt_AnyEpoch(m, epoch) == IsKind(m, Busy)
InAttempt(m, epoch) == IsKind(m, Busy) /\ epoch = m.epoch

-----------------------------------------------------------------------------
(* What the caller must do after an event.                                  *)

NoAction == [kind |-> "None"]
Start(epoch, trust) == [kind |-> "Start", epoch |-> epoch, trust |-> trust]
CloseForwards == [kind |-> "CloseForwards"]

Then(m, action) == [machine |-> m, action |-> action]
Ignored(m) == Then(m, NoAction)

(* Machine::start: a fresh epoch, nothing pending, step Master.             *)
StartFresh(m, trust) ==
  Then([m EXCEPT !.epoch = m.epoch + 1, !.pending = {},
                 !.phase = Connecting("Master", trust),
                 !.backoff = FirstDelay],
       Start(m.epoch + 1, trust))

StartReconnect(m, outage) ==
  Then([m EXCEPT !.epoch = m.epoch + 1, !.pending = {},
                 !.phase = Lost(outage, "Master")],
       Start(m.epoch + 1, FALSE))

-----------------------------------------------------------------------------
(* Machine::handle, one operator per event.                                 *)

OnConnect(m) ==
  IF IsKind(m, {"Disconnected", "Failed"}) THEN StartFresh(m, FALSE)
                                           ELSE Ignored(m)

OnRetryNow(m) ==
  IF IsKind(m, {"Retrying"}) THEN StartReconnect(m, m.phase.outage)
                             ELSE OnConnect(m)

RetryDue(m, now) == IsKind(m, {"Retrying"}) /\ now >= m.phase.next_at

OnTick(m, now) ==
  IF RetryDue(m, now) THEN StartReconnect(m, m.phase.outage) ELSE Ignored(m)

OnTrust_AfterFailure(m) ==
  IF IsKind(m, {"HostKeyUnknown", "Failed"}) THEN StartFresh(m, TRUE)
                                             ELSE Ignored(m)

OnTrust(m) ==
  IF IsKind(m, {"HostKeyUnknown"}) THEN StartFresh(m, TRUE) ELSE Ignored(m)

(* Cancel and Disconnect: bumping the epoch drops whatever the cancelled    *)
(* attempt still reports.                                                   *)
OnCancel(m) ==
  Then([m EXCEPT !.phase = Disconnected, !.epoch = m.epoch + 1, !.pending = {}],
       IF IsKind(m, {"Connected", "Lost", "Retrying"}) THEN CloseForwards
                                                       ELSE NoAction)

OnMasterDied(m, now) ==
  IF IsConnected(m)
    THEN StartReconnect(m, [since |-> now, attempt |-> 0, ever_connected |-> TRUE])
    ELSE Ignored(m)

OnStepStarted(m, epoch, step) ==
  IF InAttempt(m, epoch) THEN Ignored([m EXCEPT !.phase.step = step])
                         ELSE Ignored(m)

OnWarning_AnyEpoch(m, epoch, warning) ==
  IF IsKind(m, Busy) THEN Ignored([m EXCEPT !.pending = @ \cup {warning}])
                     ELSE Ignored(m)

OnWarning(m, epoch, warning) ==
  IF InAttempt(m, epoch) THEN Ignored([m EXCEPT !.pending = @ \cup {warning}])
                         ELSE Ignored(m)

OnHostKeyUnknown_NotWhileLost(m, epoch) ==
  IF IsKind(m, {"Connecting"}) /\ epoch = m.epoch
    THEN Ignored([m EXCEPT !.phase = HostKeyUnknown, !.pending = {}])
    ELSE Ignored(m)

OnHostKeyUnknown(m, epoch) ==
  IF InAttempt(m, epoch)
    THEN Ignored([m EXCEPT !.phase = HostKeyUnknown, !.pending = {}])
    ELSE Ignored(m)

OnConnected_LeavesForwards(m, epoch) ==
  IF InAttempt(m, epoch)
    THEN Ignored([m EXCEPT !.phase = Connected(m.pending), !.pending = {},
                           !.backoff = FirstDelay, !.last_error = 0])
    ELSE Ignored(m)

(* A cancelled attempt that still succeeded opened forwards: the caller     *)
(* closes them again.                                                       *)
OnConnected(m, epoch) ==
  IF InAttempt(m, epoch)
    THEN Ignored([m EXCEPT !.phase = Connected(m.pending), !.pending = {},
                           !.backoff = FirstDelay, !.last_error = 0])
    ELSE IF IsKind(m, {"Disconnected"}) /\ epoch < m.epoch
      THEN Then(m, CloseForwards)
      ELSE Ignored(m)

OutageAfter_Forgets(m, now) ==
  [since |-> now, attempt |-> 1, ever_connected |-> FALSE]

OutageAfter(m, now) ==
  IF IsKind(m, {"Lost"})
    THEN [m.phase.outage EXCEPT !.attempt = @ + 1]
    ELSE [since |-> now, attempt |-> 1, ever_connected |-> FALSE]

OnFailed(m, epoch, step, fatal, now) ==
  IF ~InAttempt(m, epoch)
    THEN Ignored(m)
    ELSE IF fatal
      THEN Ignored([m EXCEPT !.phase = Failed(step), !.pending = {},
                             !.last_error = epoch])
      ELSE Ignored([m EXCEPT !.phase = Retrying(OutageAfter(m, now),
                                                now + Delay(m.backoff)),
                             !.backoff = Doubled(m.backoff), !.pending = {},
                             !.last_error = epoch])
=============================================================================
