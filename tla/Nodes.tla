-------------------------------- MODULE Nodes --------------------------------
(* Linked nodes in memory: a function from the addresses in use to nodes.  *)
EXTENDS Defs, Loops, Sequences, FiniteSets

(* No structure ever holds more entries than there are processes.          *)
Addresses == Procs

Fresh(nodes) == CHOOSE a \in Addresses : a \notin DOMAIN nodes

createNode(nodes, d) == Put(nodes, Fresh(nodes), [data |-> d, next |-> NULL])

Free(nodes, addresses) == [a \in DOMAIN nodes \ addresses |-> nodes[a]]

(* One hop of a walk along next pointers, which ends at NULL.              *)
Hop(nodes, w) ==
    IF w.at = NULL THEN w
    ELSE [path |-> Append(w.path, w.at), at |-> nodes[w.at].next]

(* The addresses from a on.                                                *)
Chain(nodes, a) ==
    LET hop(w) == Hop(nodes, w)
    IN  Iterate(hop, [path |-> <<>>, at |-> a], Cardinality(DOMAIN nodes)).path

ChainSet(nodes, a) == {Chain(nodes, a)[i] : i \in DOMAIN Chain(nodes, a)}
=============================================================================
