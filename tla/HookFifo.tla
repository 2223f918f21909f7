------------------------------ MODULE HookFifo ------------------------------
(***************************************************************************)
(* What the offline queue promises one drainer (src/ctl/queue.rs): events  *)
(* come out once, oldest first, and only a drain that crashes loses any,   *)
(* the oldest ones, which it had taken.                                    *)
(***************************************************************************)
EXTENDS Sequences, Naturals

CONSTANT Events

VARIABLES pending, printed

Init == pending = <<>> /\ printed = <<>>

Put(e) == pending' = Append(pending, e) /\ UNCHANGED printed

Deliver(n) ==
  /\ printed' = printed \o SubSeq(pending, 1, n)
  /\ pending' = SubSeq(pending, n + 1, Len(pending))

Lose(n) ==
  /\ pending' = SubSeq(pending, n + 1, Len(pending))
  /\ UNCHANGED printed

Next ==
  \/ \E e \in Events : Put(e)
  \/ \E n \in 1..Len(pending) : Deliver(n) \/ Lose(n)

Spec == Init /\ [][Next]_<<pending, printed>>
=============================================================================
