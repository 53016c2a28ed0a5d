---------------------------- MODULE CircularQueue ----------------------------
(* The circular queue: a ring of nodes, known by its rear.                 *)
EXTENDS Nodes

createQueue == [rear |-> NULL, nodes |-> <<>>, size |-> 0]

FrontNode(q) == q.nodes[q.rear].next

frontData(q) == q.nodes[FrontNode(q)].data

(* Mutant: the new node becomes the front.                                 *)
enqueueFront(q, d) ==
    LET n == Fresh(q.nodes)
        front == IF q.rear = NULL THEN n ELSE FrontNode(q)
        linked == [createNode(q.nodes, d) EXCEPT ![n].next = front]
    IN  [rear  |-> IF q.rear = NULL THEN n ELSE q.rear,
         nodes |-> IF q.rear = NULL THEN linked ELSE [linked EXCEPT ![q.rear].next = n],
         size  |-> q.size + 1]

enqueue(q, d) ==
    LET n == Fresh(q.nodes)
        front == IF q.rear = NULL THEN n ELSE FrontNode(q)
        linked == [createNode(q.nodes, d) EXCEPT ![n].next = front]
    IN  [rear  |-> n,
         nodes |-> IF q.rear = NULL THEN linked ELSE [linked EXCEPT ![q.rear].next = n],
         size  |-> q.size + 1]

(* What is left after dequeue of a queue that is not empty.                *)
dequeue(q) ==
    LET front == FrontNode(q)
        unlinked == [q.nodes EXCEPT ![q.rear].next = q.nodes[front].next]
    IN  [rear  |-> IF front = q.rear \/ q.size = 1 THEN NULL ELSE q.rear,
         nodes |-> Free(IF front = q.rear THEN q.nodes ELSE unlinked, {front}),
         size  |-> q.size - 1]

(* The nodes from the front to the rear, the ring cut open at the rear.    *)
Opened(q) == [q.nodes EXCEPT ![q.rear].next = NULL]

RingNodes(q) == IF q.rear = NULL THEN <<>> ELSE Chain(Opened(q), FrontNode(q))

(* What destroyQueue leaves allocated.                                     *)
destroyQueue(q) ==
    IF q.rear = NULL THEN q.nodes
    ELSE Free(q.nodes, ChainSet(Opened(q), FrontNode(q)))
=============================================================================
