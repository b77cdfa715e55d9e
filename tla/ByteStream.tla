----------------------------- MODULE ByteStream -----------------------------
(***************************************************************************)
(* What one direction of a channel promises: the bytes given to it reach   *)
(* the other side once and in order, and the end of the stream after them. *)
(* FlowControl implements it while the session has nothing to queue: an    *)
(* EOF overtakes what waits for the window.                                *)
(***************************************************************************)
EXTENDS Naturals, Sequences

CONSTANT Total   \* bytes there are to give, 1 to Total in their order

VARIABLES
    given,      \* bytes given so far
    closed,     \* nothing more will be given
    received,   \* the bytes the other side was handed
    ended       \* it has been told that there are no more

vars == <<given, closed, received, ended>>

Upto(n) == [i \in 1..n |-> i]

Init == given = 0 /\ closed = FALSE /\ received = <<>> /\ ended = FALSE

Give ==
    /\ ~closed
    /\ given' \in given + 1 .. Total
    /\ UNCHANGED <<closed, received, ended>>

Close ==
    /\ ~closed /\ given = Total
    /\ closed' = TRUE
    /\ UNCHANGED <<given, received, ended>>

Deliver ==
    /\ ~ended
    /\ \E n \in Len(received) + 1 .. given : received' = Upto(n)
    /\ UNCHANGED <<given, closed, ended>>

End ==
    /\ closed /\ ~ended /\ Len(received) = given
    /\ ended' = TRUE
    /\ UNCHANGED <<given, closed, received>>

Next == Give \/ Close \/ Deliver \/ End

Spec == Init /\ [][Next]_vars

=============================================================================
