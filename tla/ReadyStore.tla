------------------------------ MODULE ReadyStore ------------------------------
(***************************************************************************)
(* The data the scheduler keeps of its processes, as the program lays it   *)
(* out: PCBs from malloc, the list that is the PCB table, and the ready    *)
(* queue, a ring of nodes for RR and a heap in a vector otherwise.  The    *)
(* actions are the functions of scheduler.c that change them, called as    *)
(* runScheduler may, without clock and messages.  Scheduler keeps the same *)
(* queue as a sequence; this module is checked to implement ReadyQueue,    *)
(* which says why that is enough.                                          *)
(***************************************************************************)
EXTENDS CircularQueue, MinHeap, PcbList

CONSTANTS
    MaxWork,       \* no running time is longer
    MaxPriority    \* no priority is larger

ASSUME StoreAssumption == MaxProcs \in Nat /\ MaxWork \in Nat /\ MaxPriority \in Nat

VARIABLES
    schedulerType,
    pcb,              \* the allocated PCBs; a pointer to one is its process
    segments,         \* the remaining-time segments that exist
    currentProcess,
    readyQueue,
    pcbTable,
    fetched,          \* the processes that have been received
    exited

vars == <<schedulerType, pcb, segments, currentProcess, readyQueue, pcbTable,
          fetched, exited>>

Ring == schedulerType = RR

-----------------------------------------------------------------------------
(* initScheduler.                                                          *)
Init ==
    /\ schedulerType \in {RR, SRTN, HPF}
    /\ pcb = <<>>
    /\ segments = {}
    /\ currentProcess = NULL
    /\ readyQueue = IF Ring THEN createQueue ELSE heap_create
    /\ pcbTable = createList
    /\ fetched = {}
    /\ exited = FALSE

isEmpty(q) == q.size = 0

(* The ids are the processes.                                              *)
HeapKey(p, block) ==
    IF schedulerType = SRTN THEN block.remaining * 10000 + p ELSE block.priority * 10000 + p

pushToReadyQueue(p, block) ==
    IF Ring THEN enqueue(readyQueue, p)
    ELSE heap_insert(readyQueue, p, HeapKey(p, block))

(* One round of schedule: the first entry is taken out, and chosen if it   *)
(* is READY.                                                               *)
TakeOut(t, state) ==
    LET p == IF Ring THEN frontData(t.queue) ELSE heapMin(t.queue)
        left == IF Ring THEN dequeue(t.queue) ELSE heap_extract_min(t.queue)
    IN  IF t.next # NULL \/ isEmpty(t.queue) THEN t
        ELSE [queue |-> left, next |-> IF state[p] = "READY" THEN p ELSE NULL]

(* What is left of the queue, and the entry or NULL.                       *)
schedule(q, state) ==
    LET takeOut(t) == TakeOut(t, state)
    IN  Iterate(takeOut, [queue |-> q, next |-> NULL], q.size)

States(blocks) == [p \in DOMAIN blocks |-> blocks[p].state]

-----------------------------------------------------------------------------
(* One process received by fetchProcessFromQueue.                          *)
Fetch(p, work, priority) ==
    LET block == [state |-> "READY", remaining |-> work, priority |-> priority] IN
    /\ p \notin fetched
    /\ fetched' = fetched \cup {p}
    /\ pcb' = Put(pcb, p, block)
    /\ segments' = segments \cup {p}
    /\ pcbTable' = insertAtFront(pcbTable, p)
    /\ readyQueue' = pushToReadyQueue(p, block)
    /\ UNCHANGED <<schedulerType, currentProcess, exited>>

(* A tick for the current process.                                         *)
Serve ==
    /\ currentProcess # NULL
    /\ pcb[currentProcess].remaining > 0
    /\ pcb' = [pcb EXCEPT ![currentProcess].remaining = @ - 1]
    /\ UNCHANGED <<schedulerType, segments, currentProcess, readyQueue, pcbTable,
                   fetched, exited>>

(* Its quantum is over: it is put back and the next one taken, by a call   *)
(* of schedule that may give the same one again.                           *)
ExpireQuantum ==
    /\ currentProcess # NULL
    /\ schedulerType # HPF
    /\ pcb[currentProcess].remaining > 0
    /\ LET ready == [pcb EXCEPT ![currentProcess].state = "READY"]
           taken == schedule(pushToReadyQueue(currentProcess, pcb[currentProcess]),
                             States(ready))
       IN  /\ readyQueue' = taken.queue
           /\ currentProcess' = taken.next
           /\ pcb' = [ready EXCEPT ![taken.next].state = "RUNNING"]
    /\ UNCHANGED <<schedulerType, segments, pcbTable, fetched, exited>>

Dispatch ==
    /\ currentProcess = NULL
    /\ ~isEmpty(readyQueue)
    /\ LET taken == schedule(readyQueue, States(pcb)) IN
         /\ readyQueue' = taken.queue
         /\ currentProcess' = taken.next
         /\ pcb' = IF taken.next = NULL THEN pcb
                   ELSE [pcb EXCEPT ![taken.next].state = "RUNNING"]
    /\ UNCHANGED <<schedulerType, segments, pcbTable, fetched, exited>>

(* The PCB is freed when it is found in the list.                          *)
handleProcessExit ==
    /\ currentProcess # NULL
    /\ pcb[currentProcess].remaining <= 0
    /\ segments' = segments \ {currentProcess}
    /\ pcbTable' = removeFromList(pcbTable, currentProcess)
    /\ pcb' = [p \in DOMAIN pcb \ {currentProcess} |-> pcb[p]]
    /\ currentProcess' = NULL
    /\ UNCHANGED <<schedulerType, readyQueue, fetched, exited>>

Listed(l) == {l.nodes[a].data : a \in ChainSet(l.nodes, l.head)}

(* Mutant: only what still waits is cleaned up.                            *)
ClearQueued(l) == Listed(l) \ {currentProcess}

(* The PCBs schedulerClearResources finds, each with its segment.          *)
Found(l) == Listed(l)

schedulerClearResources ==
    /\ segments' = segments \ Found(pcbTable)
    /\ pcb' = [p \in DOMAIN pcb \ Found(pcbTable) |-> pcb[p]]
    /\ pcbTable' = [createList EXCEPT !.nodes = freeList(pcbTable)]
    /\ readyQueue' = IF Ring THEN [createQueue EXCEPT !.nodes = destroyQueue(readyQueue)]
                     ELSE heap_create
    /\ currentProcess' = NULL
    /\ exited' = TRUE
    /\ UNCHANGED <<schedulerType, fetched>>

(* What the policy looks at varies.                                        *)
Works == IF schedulerType = SRTN THEN 0..MaxWork ELSE {1}
Priorities == IF schedulerType = HPF THEN 1..MaxPriority ELSE {1}

Next ==
    /\ ~exited
    /\ \/ \E p \in Procs, work \in Works, priority \in Priorities : Fetch(p, work, priority)
       \/ Serve
       \/ ExpireQuantum
       \/ Dispatch
       \/ handleProcessExit
       \/ schedulerClearResources

Spec == Init /\ [][Next]_vars

-----------------------------------------------------------------------------
(* Properties.                                                             *)

(* The items of the ring from front to rear, or of the heap slot by slot.  *)
Queued ==
    IF Ring THEN [i \in DOMAIN RingNodes(readyQueue) |->
                     readyQueue.nodes[RingNodes(readyQueue)[i]].data]
    ELSE [i \in 1..readyQueue.size |-> readyQueue.slots[i - 1].data]

(* The queue as the scheduler sees it: the ring in order, the heap by key. *)
RingEntries == [i \in DOMAIN Queued |-> [item |-> Queued[i], key |-> 0]]

HeapEntries ==
    LET held == {[item |-> readyQueue.slots[i].data, key |-> readyQueue.slots[i].priority] :
                     i \in 0..(readyQueue.size - 1)}
    IN  [n \in 1..readyQueue.size |->
            CHOOSE e \in held : Cardinality({f \in held : f.key < e.key}) = n - 1]

Entries == IF Ring THEN RingEntries ELSE HeapEntries

(* The keys of pushToReadyQueue.                                           *)
EntryKeys ==
    {0} \cup {first * 10000 + p : first \in (0..MaxWork) \cup (1..MaxPriority), p \in Procs}

Abstract == INSTANCE ReadyQueue WITH
    Items <- Procs, NoItem <- NULL, Keys <- EntryKeys, queue <- Entries, chosen <- currentProcess

(* Whatever order the pushes, the pops and the requeues come in, ring and  *)
(* heap hand out what an ordered queue would: first in, first out for RR,  *)
(* least key first for the others.  No node is lost, and no entry that     *)
(* schedule throws away because it is not READY is one that should run.    *)
ImplementsReadyQueue == Abstract!Spec

(* The links hold together: following the ring from the front visits every *)
(* node and ends at the rear; the heap is in order at every node, the size *)
(* of the heap is that of its vector and fits into the capacity.  A size   *)
(* that disagrees would make isEmpty end the simulation early or never.    *)
QueueWhole ==
    IF Ring
    THEN /\ Len(RingNodes(readyQueue)) = readyQueue.size
         /\ Cardinality(DOMAIN readyQueue.nodes) = readyQueue.size
         /\ readyQueue.size > 0 => RingNodes(readyQueue)[readyQueue.size] = readyQueue.rear
    ELSE /\ DOMAIN readyQueue.slots = 0..(readyQueue.size - 1)
         /\ readyQueue.size <= readyQueue.capacity
         /\ \A i \in 1..(readyQueue.size - 1) :
               readyQueue.slots[(i - 1) \div 2].priority <= readyQueue.slots[i].priority

(* The table, the queue and currentProcess point at PCBs that are still    *)
(* allocated; the table has each of those exactly once, and each of them   *)
(* is either current or queued, so that none is freed while in use and     *)
(* none is forgotten.                                                      *)
PcbsTracked ==
    LET ready == {Queued[i] : i \in DOMAIN Queued} IN
        /\ Listed(pcbTable) = DOMAIN pcb
        /\ Len(ListNodes(pcbTable)) = pcbTable.size
        /\ pcbTable.size = Cardinality(DOMAIN pcb)
        /\ Cardinality(ready) = Len(Queued)
        /\ DOMAIN pcb = ready \cup ({currentProcess} \ {NULL})
        /\ currentProcess \notin ready

(* A remaining-time segment exists as long as its PCB, and none outlives   *)
(* the scheduler when it is told to stop between any two of these calls:   *)
(* the list it walks then leads to all of them, running and queued ones.   *)
SegmentsRemoved ==
    /\ segments = DOMAIN pcb
    /\ exited => segments = {}
=============================================================================
