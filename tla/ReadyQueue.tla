------------------------------ MODULE ReadyQueue ------------------------------
(***************************************************************************)
(* What the scheduler expects of its ready queue: the entry with the least *)
(* key goes first, and of two with the same key the one that came first.   *)
(***************************************************************************)
EXTENDS Integers, Sequences

CONSTANTS Items, NoItem,
          Keys   \* what the scheduler may compute when it inserts

VARIABLES queue,   \* in the order in which the entries will leave
          chosen   \* the item taken last, until it leaves or is put back

vars == <<queue, chosen>>

(* Behind the entries whose key is not greater.                            *)
Inserted(item, key) ==
    LET i == CHOOSE i \in 0..Len(queue) :
                \A j \in 1..Len(queue) : j > i <=> queue[j].key > key
    IN  SubSeq(queue, 1, i) \o <<[item |-> item, key |-> key]>>
            \o SubSeq(queue, i + 1, Len(queue))

Init == queue = <<>> /\ chosen = NoItem

Add(item, key) ==
    /\ UNCHANGED chosen
    /\ queue' = Inserted(item, key)

TakeFrom(q) ==
    /\ q # <<>>
    /\ chosen' = Head(q).item
    /\ queue' = Tail(q)

Take == chosen = NoItem /\ TakeFrom(queue)

(* The chosen item may go back before the next is taken, or at once.       *)
PutBack(key) ==
    /\ chosen # NoItem
    /\ chosen' = NoItem
    /\ queue' = Inserted(chosen, key)

PutBackAndTake(key) == chosen # NoItem /\ TakeFrom(Inserted(chosen, key))

Leave == chosen' = NoItem /\ UNCHANGED queue

Clear == chosen' = NoItem /\ queue' = <<>>

Next ==
    \/ \E item \in Items, key \in Keys : Add(item, key)
    \/ \E key \in Keys : PutBack(key) \/ PutBackAndTake(key)
    \/ Take
    \/ Leave
    \/ Clear

Spec == Init /\ [][Next]_vars
=============================================================================
