------------------------------ MODULE ItemList ------------------------------
(***************************************************************************)
(* What common/list.c promises: a sequence of distinct items. In a list    *)
(* that only grows, whose readers take no lock, an item keeps its place.   *)
(***************************************************************************)
EXTENDS Integers, Sequences, SequencesExt

CONSTANT Items

VARIABLES
    items,
    kind   \* "growing", or "guarded" by a lock and changed at will

vars == <<items, kind>>

New == Items \ ToSet(items)

Init == items = <<>> /\ kind \in {"growing", "guarded"}

Add    == \E x \in New : items' = Append(items, x)
Insert == \E x \in New, i \in DOMAIN items : items' = InsertAt(items, i, x)
TakeOut == \E i \in DOMAIN items : items' = RemoveAt(items, i)
Free   == items' = <<>>

Next ==
    /\ UNCHANGED kind
    /\ Add \/ (kind = "guarded" /\ (Insert \/ TakeOut \/ Free))

Spec == Init /\ [][Next]_vars
=============================================================================
