------------------------------ MODULE Delivery ------------------------------
(***************************************************************************)
(* What a receiver may observe of the messages written to it: each comes   *)
(* out whole and at most once, in any order, or not at all; only a message *)
(* that the transport repeats may come out again.                          *)
(***************************************************************************)
EXTENDS Sequences

CONSTANTS
    Message,    \* the messages that are written
    Repeated    \* those whose fragments arrive more than once

VARIABLES
    pending,    \* messages that may come out
    out         \* messages the application got, in order

Init == pending = Message /\ out = <<>>

Deliver(m) ==
    /\ m \in pending
    /\ pending' = pending \ ({m} \ Repeated)
    /\ out' = Append(out, m)

Next == \E m \in Message : Deliver(m)

Spec == Init /\ [][Next]_<<pending, out>>
=============================================================================
