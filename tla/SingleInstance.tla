--------------------------- MODULE SingleInstance ---------------------------
(***************************************************************************)
(* What the control socket promises (src/ctl/socket.rs, first comment):    *)
(* one app instance per user.  An app becomes the primary only while there *)
(* is none, and stops being it when it quits or crashes.                   *)
(***************************************************************************)
CONSTANTS
  Apps,   \* processes of one user
  NoApp   \* no process

VARIABLE primary  \* the app that answers on the socket

Init == primary = NoApp

Becomes(a) == primary = NoApp /\ primary' = a

Leaves == primary # NoApp /\ primary' = NoApp

Next == Leaves \/ \E a \in Apps : Becomes(a)

Spec == Init /\ [][Next]_primary
=============================================================================
