----------------------------- MODULE ByteQueue -----------------------------
(***************************************************************************)
(* What a byte ring promises its two users: a bounded queue of bytes.      *)
(* Bytes are named 1, 2, 3, ... in the order in which they are accepted.   *)
(***************************************************************************)
EXTENDS Naturals

CONSTANT Capacity

VARIABLES
    accepted,  \* number of bytes accepted so far
    taken,     \* number of bytes handed out so far
    chunk      \* the bytes handed out last

vars == <<accepted, taken, chunk>>

Init == accepted = 0 /\ taken = 0 /\ chunk = <<>>

\* Some bytes are accepted, never more than fit.
Put ==
    /\ accepted' > accepted
    /\ accepted' - taken <= Capacity
    /\ UNCHANGED <<taken, chunk>>

\* The oldest bytes not yet handed out are handed out, in order.
Take ==
    /\ taken' > taken
    /\ taken' <= accepted
    /\ chunk' = [k \in 1..(taken' - taken) |-> taken + k]
    /\ UNCHANGED accepted

Next == Put \/ Take

Spec == Init /\ [][Next]_vars
=============================================================================
