------------------------------- MODULE MinHeap -------------------------------
(* The binary heap of the ready queue and the vector it is kept in.  The   *)
(* domain of slots is 0 to the size of the vector less one.                *)
EXTENDS Loops, FiniteSets

CONSTANT InitialCapacity   \* 10 in the code

ASSUME CapacityAssumption == InitialCapacity \in Nat \ {0}

heap_create == [slots |-> <<>>, capacity |-> InitialCapacity, size |-> 0]

vectorSize(h) == Cardinality(DOMAIN h.slots)

vector_push(h, node) ==
    [h EXCEPT !.capacity = IF vectorSize(h) = @ THEN 2 * @ ELSE @,
              !.slots    = Put(@, vectorSize(h), node)]

Swap(slots, i, j) == [slots EXCEPT ![i] = slots[j], ![j] = slots[i]]

(* One call of insertHelper, on the node at h.at: what it changes, and     *)
(* where it calls itself.                                                  *)
Rise(h) ==
    LET parent == (h.at - 1) \div 2 IN
    IF h.at > 0 /\ h.slots[h.at].priority < h.slots[parent].priority
    THEN [slots |-> Swap(h.slots, parent, h.at), at |-> parent]
    ELSE h

(* Bubble up from index, which gets smaller with every call.               *)
insertHelper(slots, index) == Iterate(Rise, [slots |-> slots, at |-> index], index).slots

heap_insert(h, d, priority) ==
    LET pushed == vector_push(h, [data |-> d, priority |-> priority])
        n == vectorSize(pushed)
    IN  [pushed EXCEPT !.size = n, !.slots = insertHelper(@, n - 1)]

(* Mutant: the right child is not looked at.                               *)
LeftOrSelf(slots, size, index) ==
    LET Lesser(i, j) == IF j < size /\ slots[j].priority < slots[i].priority THEN j ELSE i
    IN  Lesser(index, 2 * index + 1)

(* The least of a node and its children; the node, then the left child, on *)
(* a tie.                                                                  *)
Smallest(slots, size, index) ==
    LET Lesser(i, j) == IF j < size /\ slots[j].priority < slots[i].priority THEN j ELSE i
    IN  Lesser(Lesser(index, 2 * index + 1), 2 * index + 2)

(* One call of heapify.                                                    *)
Sink(h, size) ==
    LET smallest == Smallest(h.slots, size, h.at) IN
    IF smallest = h.at THEN h
    ELSE [slots |-> Swap(h.slots, h.at, smallest), at |-> smallest]

(* Bubble down from index, which gets larger with every call.              *)
heapify(slots, size, index) ==
    LET sink(h) == Sink(h, size)
    IN  Iterate(sink, [slots |-> slots, at |-> index], size).slots

heapMin(h) == h.slots[0].data

(* What is left after heap_extract_min of a heap that is not empty: the    *)
(* last node replaces the root and sinks.                                  *)
heap_extract_min(h) ==
    LET last == h.size - 1
        moved == [h.slots EXCEPT ![0] = h.slots[last]]
    IN  [h EXCEPT !.size  = last,
                  !.slots = heapify([i \in 0..(last - 1) |-> moved[i]], last, 0)]
=============================================================================
