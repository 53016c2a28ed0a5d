------------------------------- MODULE PcbList -------------------------------
(* The linked list of the PCB table.                                       *)
EXTENDS Nodes

createList == [head |-> NULL, nodes |-> <<>>, size |-> 0]

ListNodes(l) == Chain(l.nodes, l.head)

insertAtFront(l, d) ==
    LET n == Fresh(l.nodes) IN
    [head  |-> n,
     nodes |-> [createNode(l.nodes, d) EXCEPT ![n].next = l.head],
     size  |-> l.size + 1]

Unlink(l, before, n) ==
    IF before = NULL THEN [l EXCEPT !.head = l.nodes[n].next]
    ELSE [l EXCEPT !.nodes[before].next = l.nodes[n].next]

(* Mutant: the head is taken for the node that is looked for.              *)
removeHead(l, d) ==
    [head |-> l.nodes[l.head].next, nodes |-> Free(l.nodes, {l.head}), size |-> l.size - 1]

(* The first node with these data is unlinked and freed; none: no change.  *)
removeFromList(l, d) ==
    LET chain == ListNodes(l)
        hits == {i \in DOMAIN chain : l.nodes[chain[i]].data = d}
        first == CHOOSE i \in hits : \A j \in hits : i <= j
        before == IF first = 1 THEN NULL ELSE chain[first - 1]
        unlinked == Unlink(l, before, chain[first])
    IN  IF hits = {} THEN l
        ELSE [unlinked EXCEPT !.nodes = Free(@, {chain[first]}), !.size = @ - 1]

(* What freeList leaves allocated.                                         *)
freeList(l) == Free(l.nodes, ChainSet(l.nodes, l.head))
=============================================================================
