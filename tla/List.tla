-------------------------------- MODULE List --------------------------------
(***************************************************************************)
(* The doubly linked list of common/list.c and its two uses. The tasks of  *)
(* media.c, the output_pads of a media, the channels and the http tasks    *)
(* only grow: one thread at a time calls ListAdd, another one walks the    *)
(* list without a lock. The clients of an http task are added and walked   *)
(* under the task's lock, and removed by the walk.                         *)
(*                                                                         *)
(* The stores into an entry that is not yet linked are one step; those     *)
(* that an unlocked walk can observe are a step each, in program order.    *)
(***************************************************************************)
EXTENDS Integers, Sequences, SequencesExt, FiniteSets

CONSTANTS
    Entries,   \* what calloc can return; an entry freed may come back
    NULL,
    MaxItems   \* bound: items added to the list

ASSUME ListAssumption ==
    /\ NULL \notin Entries
    /\ IsFiniteSet(Entries)
    /\ MaxItems \in Nat

VARIABLES
    kind,              \* how the program uses the list
    head, tail, count, \* the List_t
    data, next, prev,  \* the fields of the entries
    allocated,         \* the entries that calloc gave out
    addPc, at, entry,  \* ListInsertAfterCurrent: where, iterator->current, entry
    walkPc, current,   \* a walk over the list: where, and its iterator
    (* history *)
    added,             \* the number of items added, which are 1, 2, 3, ...
    start,             \* the items in the list when the walk began
    seen,              \* the items that the walk has come to
    removed            \* those of them that it removed

list  == <<head, tail, count, data, next, prev, allocated>>
add   == <<addPc, at, entry>>
walk  == <<walkPc, current, start, seen, removed>>
vars  == <<kind, list, add, walk, added>>

Pointers == Entries \cup {NULL}

\* The entries that a walk from the pointer h comes to, in order, when nx holds
\* the field next of each entry.
Walked(h, nx) ==
    LET From[n \in 0..Cardinality(Entries)] ==
            [e \in Pointers |-> IF e = NULL \/ n = 0 THEN <<>>
                                ELSE <<e>> \o From[n - 1][nx[e]]]
    IN  From[Cardinality(Entries)][h]

Reach == Walked(head, next)

Contents == [i \in DOMAIN Reach |-> data[Reach[i]]]

\* The lock of a guarded list, which a walk and each call below hold.
Free == addPc = "idle" /\ (kind = "guarded" => walkPc = "idle")

Init ==
    /\ kind \in {"growing", "guarded"}
    /\ head = NULL /\ tail = NULL /\ count = 0
    /\ data = [e \in Entries |-> 0]
    /\ next = [e \in Entries |-> NULL] /\ prev = [e \in Entries |-> NULL]
    /\ allocated = {}
    /\ addPc = "idle" /\ at = NULL /\ entry = NULL
    /\ walkPc = "idle" /\ current = NULL
    /\ added = 0 /\ start = <<>> /\ seen = <<>> /\ removed = {}

----------------------------------------------------------------------------
(* Adding.                                                                 *)

\* ListInsertAfterCurrent up to the first store that links the entry; calloc
\* may fail, and nothing happens.
InsertAfter(c) ==
    /\ Free /\ added < MaxItems
    /\ \E e \in Entries \ allocated :
          /\ allocated' = allocated \cup {e} /\ entry' = e
          /\ data' = [data EXCEPT ![e] = added + 1]
          /\ next' = [next EXCEPT ![e] = IF c = NULL THEN NULL ELSE next[c]]
          /\ prev' = [prev EXCEPT ![e] = IF c = NULL THEN tail ELSE c]
    /\ at' = c /\ addPc' = "link"
    /\ added' = added + 1
    /\ UNCHANGED <<kind, head, tail, count, walk>>

\* ListAdd inserts behind the tail; other iterators need a guarded list.
ListAdd == InsertAfter(tail)

ListInsertAfterCurrent ==
    kind = "guarded" /\ \E c \in ToSet(Reach) : InsertAfter(c)

\* The entry before gets its next: entry->prev->next, iterator->current->next.
Link ==
    /\ addPc = "link"
    /\ LET p == IF at = NULL THEN prev[entry] ELSE at IN
       next' = IF p = NULL THEN next ELSE [next EXCEPT ![p] = entry]
    /\ addPc' = "head"
    /\ UNCHANGED <<kind, head, tail, count, data, prev, allocated, at, entry, walk,
                   added>>

\* Faulty: every entry becomes the head.
SetHeadAlways ==
    /\ addPc = "head"
    /\ head' = entry
    /\ addPc' = "tail"
    /\ UNCHANGED <<kind, tail, count, data, next, prev, allocated, at, entry, walk,
                   added>>

\* if (list->head == NULL)
SetHead ==
    /\ addPc = "head"
    /\ head' = IF head = NULL THEN entry ELSE head
    /\ addPc' = "tail"
    /\ UNCHANGED <<kind, tail, count, data, next, prev, allocated, at, entry, walk,
                   added>>

\* Faulty: an entry put in the middle becomes the tail.
SetTailAlways ==
    /\ addPc = "tail"
    /\ prev' = IF next[entry] = NULL THEN prev
               ELSE [prev EXCEPT ![next[entry]] = entry]
    /\ tail' = entry
    /\ count' = count + 1
    /\ addPc' = "idle" /\ at' = NULL /\ entry' = NULL
    /\ UNCHANGED <<kind, head, data, next, allocated, walk, added>>

\* What no walk reads: the next entry's prev, the tail and the count.
SetTail ==
    /\ addPc = "tail"
    /\ prev' = IF next[entry] = NULL THEN prev
               ELSE [prev EXCEPT ![next[entry]] = entry]
    /\ tail' = IF next[entry] = NULL THEN entry ELSE tail
    /\ count' = count + 1
    /\ addPc' = "idle" /\ at' = NULL /\ entry' = NULL
    /\ UNCHANGED <<kind, head, data, next, allocated, walk, added>>

\* No walk meets the steps of this one: it needs a guarded list.
ListInsertBeforeCurrent ==
    /\ kind = "guarded" /\ Free /\ added < MaxItems
    /\ \E e \in Entries \ allocated, c \in ToSet(Reach) \cup {NULL} :
          LET p == IF c = NULL THEN tail ELSE prev[c] IN
          /\ allocated' = allocated \cup {e}
          /\ data' = [data EXCEPT ![e] = added + 1]
          /\ next' = [x \in Entries |-> IF x = e THEN c ELSE IF x = p THEN e ELSE next[x]]
          /\ prev' = [x \in Entries |-> IF x = e THEN p ELSE IF x = c THEN e ELSE prev[x]]
          /\ tail' = IF c = NULL THEN e ELSE tail
          /\ head' = IF c = head THEN e ELSE head
    /\ count' = count + 1 /\ added' = added + 1
    /\ UNCHANGED <<kind, add, walk>>

----------------------------------------------------------------------------
(* Removing, which needs a guarded list.                                   *)

\* Faulty: count is decremented only when the head is removed.
UnlinkCountsHead(e) ==
    /\ head' = IF e = head THEN next[e] ELSE head
    /\ tail' = IF e = tail THEN prev[e] ELSE tail
    /\ next' = [x \in Entries |-> IF x = prev[e] THEN next[e] ELSE next[x]]
    /\ prev' = [x \in Entries |-> IF x = next[e] THEN prev[e] ELSE prev[x]]
    /\ allocated' = allocated \ {e}
    /\ count' = IF e = head THEN count - 1 ELSE count
    /\ UNCHANGED data

\* Faulty: the entry before the removed one keeps pointing to it.
UnlinkBackwards(e) ==
    /\ head' = IF e = head THEN next[e] ELSE head
    /\ tail' = IF e = tail THEN prev[e] ELSE tail
    /\ prev' = [x \in Entries |-> IF x = next[e] THEN prev[e] ELSE prev[x]]
    /\ allocated' = allocated \ {e}
    /\ count' = count - 1
    /\ UNCHANGED <<data, next>>

\* ListRemoveCurrent for the entry e, but for the iterator.
Unlink(e) ==
    /\ head' = IF e = head THEN next[e] ELSE head
    /\ tail' = IF e = tail THEN prev[e] ELSE tail
    /\ next' = [x \in Entries |-> IF x = prev[e] THEN next[e] ELSE next[x]]
    /\ prev' = [x \in Entries |-> IF x = next[e] THEN prev[e] ELSE prev[x]]
    /\ allocated' = allocated \ {e}
    /\ count' = count - 1
    /\ UNCHANGED data

ListRemove ==
    /\ kind = "guarded" /\ Free
    /\ \E e \in ToSet(Reach) : Unlink(e)
    /\ UNCHANGED <<kind, add, walk, added>>

ListFree ==
    /\ kind = "guarded" /\ Free /\ head # NULL
    /\ head' = NULL /\ tail' = NULL /\ count' = 0
    /\ allocated' = allocated \ ToSet(Reach)
    /\ UNCHANGED <<kind, data, next, prev, add, walk, added>>

----------------------------------------------------------------------------
(* A walk: for (Init; MoreEntries; Next), with ListRemoveCurrent in its    *)
(* body when the list is guarded, as in the streamer of http.c.            *)

WalkInit ==
    /\ walkPc = "idle" /\ (kind = "guarded" => Free)
    /\ current' = head
    /\ walkPc' = "more"
    /\ start' = Contents /\ seen' = <<>> /\ removed' = {}
    /\ UNCHANGED <<kind, list, add, added>>

WalkEnd ==
    /\ walkPc = "more" /\ current = NULL
    /\ walkPc' = "idle"
    /\ UNCHANGED <<kind, list, add, current, start, seen, removed, added>>

WalkVisit ==
    /\ walkPc = "more" /\ current # NULL
    /\ seen' = Append(seen, data[current])
    /\ walkPc' = "body"
    /\ UNCHANGED <<kind, list, add, current, start, removed, added>>

\* Faulty: the iterator stays where it was.
WalkRemoveStays ==
    /\ walkPc = "body" /\ kind = "guarded"
    /\ Unlink(current)
    /\ removed' = removed \cup {data[current]}
    /\ UNCHANGED current
    /\ walkPc' = "next"
    /\ UNCHANGED <<kind, add, start, seen, added>>

\* ListRemoveCurrent moves the iterator on ...
WalkRemove ==
    /\ walkPc = "body" /\ kind = "guarded"
    /\ Unlink(current)
    /\ removed' = removed \cup {data[current]}
    /\ current' = next[current]
    /\ walkPc' = "next"
    /\ UNCHANGED <<kind, add, start, seen, added>>

WalkKeep ==
    /\ walkPc = "body" /\ walkPc' = "next"
    /\ UNCHANGED <<kind, list, add, current, start, seen, removed, added>>

\* ... and ListIterator_Next of the loop moves it on again.
WalkNext ==
    /\ walkPc = "next"
    /\ current' = IF current = NULL THEN NULL ELSE next[current]
    /\ walkPc' = "more"
    /\ UNCHANGED <<kind, list, add, start, seen, removed, added>>

----------------------------------------------------------------------------
Walker == WalkInit \/ WalkEnd \/ WalkVisit \/ WalkRemove \/ WalkKeep \/ WalkNext

Next ==
    \/ ListAdd \/ ListInsertAfterCurrent \/ Link \/ SetHead \/ SetTail
    \/ ListInsertBeforeCurrent \/ ListRemove \/ ListFree
    \/ Walker

Spec == Init /\ [][Next]_vars

----------------------------------------------------------------------------
(* Properties.                                                             *)

\* The variables keep their types.
TypeOK ==
    /\ {head, tail, at, entry, current} \subseteq Pointers
    /\ count \in 0..Cardinality(Entries)
    /\ data \in [Entries -> 0..MaxItems]
    /\ next \in [Entries -> Pointers] /\ prev \in [Entries -> Pointers]
    /\ allocated \subseteq Entries
    /\ addPc \in {"idle", "link", "head", "tail"}
    /\ walkPc \in {"idle", "more", "body", "next"}
    /\ added \in 0..MaxItems

\* The list is a sequence of items for whoever reads next at any moment; in
\* particular each call that adds takes effect at one store.
Items == INSTANCE ItemList WITH Items <- 1..MaxItems, items <- Contents
ImplementsItemList == Items!Spec

\* Between the calls prev, tail and count tell the same as head and next.
BothWays ==
    addPc = "idle" =>
        /\ count = Len(Reach)
        /\ tail = IF Reach = <<>> THEN NULL ELSE Last(Reach)
        /\ \A i \in DOMAIN Reach : prev[Reach[i]] = IF i = 1 THEN NULL ELSE Reach[i-1]

\* No pointer that is followed leads to a freed entry.
NothingFreed ==
    /\ ToSet(Reach) \subseteq allocated
    /\ walkPc # "idle" => current \in allocated \cup {NULL}
    /\ addPc # "idle" => {entry, at} \subseteq allocated \cup {NULL}

\* A walk without a lock comes to every item that was there when it began,
\* to the ones added meanwhile or not, each once and in order. A walk that
\* removes misses nothing but the item behind one that it removed.
WalkComplete ==
    /\ kind = "growing" => IsPrefix(seen, Contents)
    /\ walkPc = "more" /\ current = NULL =>
          IF kind = "growing" THEN IsPrefix(start, seen)
          ELSE \A i \in DOMAIN start :
                  start[i] \in ToSet(seen) \/ (i > 1 /\ start[i-1] \in removed)
=============================================================================
