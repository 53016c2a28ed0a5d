------------------------------ MODULE BuddyTree ------------------------------
(***************************************************************************)
(* The buddy allocator as it is: a binary tree of MemoryBlocks that is     *)
(* split on the way down and merged on the way up.  A pointer to a block   *)
(* is the range of memory it stands for, and a tree is a function from     *)
(* the pointers in use to the blocks.  It is shown to implement Memory,    *)
(* the allocator that the simulation is composed with.                     *)
(***************************************************************************)
EXTENDS Defs, Loops, Sequences, FiniteSets

CONSTANTS
    WordBits,   \* the width of an int (32 in the code)
    MaxSize     \* no request is larger

(* The powers of two that are positive as an int.                          *)
Powers == {Two[e] : e \in 0..(WordBits - 2)}

(* The sizes of the requests are positive, and rounding them up does not   *)
(* overflow.  The memory is a power of two (1024 in the code).             *)
ASSUME SizesAssumption ==
    /\ WordBits \in Nat /\ WordBits > 1
    /\ MaxSize \in 1..Two[WordBits - 2] /\ MaxProcs \in Nat
    /\ TotalMemory \in Powers

VARIABLES
    mainMemory,   \* the tree, no block after destroyMemory
    answer        \* the question and the answer of canAllocate, if it was the last call

treeVars == <<mainMemory, answer>>

NoPid == -1
Prober == -10   \* the pid canAllocate probes with

-----------------------------------------------------------------------------
(* Pointers and blocks.                                                    *)

Root == [start |-> 0, end |-> TotalMemory - 1]
Nowhere == [start |-> 0, end |-> -1]   \* the NULL pointer

allocationSize(b) == b.end - b.start + 1

Mid(b) == b.start + (b.end - b.start) \div 2
LowerHalf(b) == [start |-> b.start, end |-> Mid(b)]
UpperHalf(b) == [start |-> Mid(b) + 1, end |-> b.end]

createEmptyBlock(parent) ==
    [pid |-> NoPid, isFree |-> TRUE, left |-> Nowhere, right |-> Nowhere, parent |-> parent]

IsLeaf(block) == block.left = Nowhere /\ block.right = Nowhere

FreeLeaf(block) == block.isFree /\ IsLeaf(block)

Halved(t, b, low, high) ==
    Put(Put([t EXCEPT ![b].isFree = FALSE, ![b].left = low, ![b].right = high],
            low, createEmptyBlock(b)),
        high, createEmptyBlock(b))

(* Mutant: the right half is one too long.                                 *)
SplitLong(t, b) == Halved(t, b, LowerHalf(b), [start |-> Mid(b), end |-> b.end])

Split(t, b) == Halved(t, b, LowerHalf(b), UpperHalf(b))

Marked(t, b, pid) == [t EXCEPT ![b].pid = pid, ![b].isFree = FALSE]
Unmarked(t, b) == [t EXCEPT ![b].isFree = TRUE, ![b].pid = NoPid]

(* __builtin_clz of a positive number.                                     *)
clz(n) == CHOOSE z \in 0..(WordBits - 1) : Two[WordBits - 1 - z] <= n /\ n < Two[WordBits - z]

Half(n) == n \div 2   \* n >> 1

(* Of the positive n, n & (n - 1) is zero for the powers of two; else the  *)
(* highest bit of the word is shifted to one above the highest of n.       *)
nextPowerOfTwo(n) ==
    IF n \in Powers THEN n ELSE Iterate(Half, Two[WordBits - 1], clz(n) - 1)

-----------------------------------------------------------------------------
(* The recursive functions.                                                *)

(* allocateHelper from a free leaf on: one that is larger is split, and    *)
(* the call for its left half is the last.                                 *)
SplitDown(w, size) ==
    IF allocationSize(w.at) > size
    THEN [tree |-> Split(w.tree, w.at), at |-> LowerHalf(w.at)] ELSE w

Descend(t, b, size) ==
    LET split(w) == SplitDown(w, size)
    IN  Iterate(split, [tree |-> t, at |-> b], allocationSize(b))

(* The call of allocateHelper for the first block of todo, those that are  *)
(* called in turn until one returns 0.                                     *)
Visit(w, pid, size) ==
    LET b == Head(w.todo)
        rest == Tail(w.todo)
        block == w.tree[b]
        down == Descend(w.tree, b, size)
    IN  IF w.status = 0 \/ w.todo = <<>> THEN w
        ELSE IF ~IsLeaf(block) THEN [w EXCEPT !.todo = <<block.left, block.right>> \o rest]
        ELSE IF ~block.isFree \/ allocationSize(b) < size THEN [w EXCEPT !.todo = rest]
        ELSE IF allocationSize(down.at) # size THEN [w EXCEPT !.tree = down.tree, !.todo = rest]
        ELSE [tree |-> Marked(down.tree, down.at, pid), todo |-> rest, status |-> 0]

(* Depth first, left to right.                                             *)
allocateHelper(t, pid, size) ==
    LET visit(w) == Visit(w, pid, size)
    IN  Iterate(visit, [tree |-> t, todo |-> <<Root>>, status |-> -1], Cardinality(DOMAIN t))

Holders(t, pid) == {b \in DOMAIN t : t[b].pid = pid /\ ~t[b].isFree}

(* The first in the order of the tree, a block before its halves.          *)
findBlockByPid(t, pid) ==
    CHOOSE b \in Holders(t, pid) : \A c \in Holders(t, pid) :
        b.start < c.start \/ (b.start = c.start /\ b.end >= c.end)

(* Two free halves become the free block they are halves of.               *)
Merge(t, p) ==
    [b \in DOMAIN t \ {t[p].left, t[p].right} |->
        IF b = p THEN createEmptyBlock(t[p].parent) ELSE t[b]]

(* Mutant: buddies are merged at the lowest level only.                    *)
ClimbOnce(w) ==
    LET p == w.tree[w.at].parent
        sibling == IF w.tree[p].left = w.at THEN w.tree[p].right ELSE w.tree[p].left
    IN  IF p = Nowhere \/ ~FreeLeaf(w.tree[sibling]) \/ p.end - p.start > 1 THEN w
        ELSE [tree |-> Merge(w.tree, p), at |-> p]

(* One call of freeMemoryHelper, for a block that is a free leaf.          *)
Climb(w) ==
    LET p == w.tree[w.at].parent
        sibling == IF w.tree[p].left = w.at THEN w.tree[p].right ELSE w.tree[p].left
    IN  IF p = Nowhere \/ ~FreeLeaf(w.tree[sibling]) THEN w
        ELSE [tree |-> Merge(w.tree, p), at |-> p]

(* The blocks get larger with every call.                                  *)
freeMemoryHelper(t, b) == Iterate(Climb, [tree |-> t, at |-> b], TotalMemory).tree

(* freeMemory for a pid that is found.                                     *)
Freed(t, pid) ==
    LET b == findBlockByPid(t, pid)
    IN  freeMemoryHelper(Unmarked(t, b), b)

-----------------------------------------------------------------------------
(* The calls of the process generator.                                     *)

Found(pid) == Holders(mainMemory, pid) # {}

NotAsked == [size |-> 0, status |-> 0]

initMemory ==
    /\ mainMemory = [b \in {Root} |-> createEmptyBlock(Nowhere)]
    /\ answer = NotAsked

(* Each child is a new process: its pid is not in the tree.                *)
allocateMemory(p, size) ==
    /\ mainMemory # <<>>
    /\ ~Found(p)
    /\ mainMemory' = allocateHelper(mainMemory, p, nextPowerOfTwo(size)).tree
    /\ answer' = NotAsked

(* Also for a pid that holds nothing, and after destroyMemory.             *)
freeMemory(p) ==
    /\ \/ Found(p) /\ mainMemory' = Freed(mainMemory, p)
       \/ ~Found(p) /\ mainMemory' = mainMemory
    /\ answer' = NotAsked

(* Mutant: a probe that succeeds is not undone.                            *)
ProbeKept(call) == call.tree

ProbeUndone(call) == IF call.status = 0 THEN Freed(call.tree, Prober) ELSE call.tree

canAllocate(size) ==
    /\ mainMemory # <<>>
    /\ LET call == allocateHelper(mainMemory, Prober, nextPowerOfTwo(size)) IN
         /\ mainMemory' = ProbeUndone(call)
         /\ answer' = [size |-> size, status |-> call.status]

destroyMemory ==
    /\ mainMemory' = <<>>
    /\ answer' = NotAsked

Next ==
    \/ \E p \in Procs, size \in 1..MaxSize : allocateMemory(p, size)
    \/ \E p \in Procs : freeMemory(p)
    \/ \E size \in 1..MaxSize : canAllocate(size)
    \/ destroyMemory

Spec == initMemory /\ [][Next]_treeVars

-----------------------------------------------------------------------------
(* Properties.                                                             *)

(* What Memory sees: the block that carries the pid of a process.          *)
Held ==
    [p \in Procs |->
        IF Found(p)
        THEN LET b == findBlockByPid(mainMemory, p)
             IN  [start |-> b.start, size |-> allocationSize(b)]
        ELSE [start |-> 0, size |-> 0]]

Abstract == INSTANCE Memory WITH held <- Held

(* The tree implements the allocator of the composition: each call takes   *)
(* the lowest free aligned block of the rounded size whenever there is     *)
(* one, frees exactly the caller's, and never moves anybody else's.        *)
ImplementsMemory == Abstract!MemorySpec

(* canAllocate is a question: it leaves the tree as it was, splits and     *)
(* merges undone, and says 0 exactly when an aligned block of that size    *)
(* overlaps nobody's, so free memory is never refused for being in pieces  *)
(* that could have been merged.                                            *)
ProbeTruthful ==
    [][ answer' # NotAsked =>
          /\ mainMemory' = mainMemory
          /\ answer'.status = 0 <=> Abstract!canAllocate(answer'.size) ]_treeVars

Leaves == {b \in DOMAIN mainMemory : IsLeaf(mainMemory[b])}

Within(a, b) == b.start <= a /\ a <= b.end

(* The tree is whole: each byte of the memory is in one leaf; a block that *)
(* is split is not free, belongs to nobody (so that findBlockByPid cannot  *)
(* stop at it), has two halves that know it, and never two free leaves,    *)
(* which would stay apart for ever; no probe is left in the tree and no    *)
(* process holds two leaves.                                               *)
TreeWhole ==
    mainMemory # <<>> =>
        /\ \A a \in 0..(TotalMemory - 1) :
              \E b \in Leaves : Within(a, b) /\ \A c \in Leaves : Within(a, c) => c = b
        /\ \A p \in DOMAIN mainMemory \ Leaves :
              LET low == mainMemory[p].left
                  high == mainMemory[p].right
              IN  /\ ~mainMemory[p].isFree /\ mainMemory[p].pid = NoPid
                  /\ {low, high} \subseteq DOMAIN mainMemory
                  /\ low.start = p.start /\ high.start = low.end + 1 /\ high.end = p.end
                  /\ allocationSize(low) = allocationSize(high)
                  /\ mainMemory[low].parent = p /\ mainMemory[high].parent = p
                  /\ ~(FreeLeaf(mainMemory[low]) /\ FreeLeaf(mainMemory[high]))
        /\ \A b \in Leaves :
              /\ mainMemory[b].pid \in Procs \cup {NoPid}
              /\ mainMemory[b].isFree <=> mainMemory[b].pid = NoPid
              /\ \A c \in Leaves : mainMemory[b].pid = mainMemory[c].pid
                                      => b = c \/ mainMemory[b].pid = NoPid
=============================================================================
