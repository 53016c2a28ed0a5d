------------------------------- MODULE Memory -------------------------------
(***************************************************************************)
(* The buddy allocator of the process generator, as its callers see it.    *)
(*                                                                         *)
(* The tree of MemoryBlocks is abstracted to the block each process holds. *)
(* That is enough because a free merges a block with its free buddy as far *)
(* up as it goes: a region of the size asked for that no block overlaps    *)
(* always lies in one free leaf, and the left-first descent of             *)
(* allocateHelper reaches the lowest such region first.  BuddyTree models  *)
(* the tree and is checked to implement this module.                       *)
(***************************************************************************)
EXTENDS Defs

VARIABLE held   \* the block of each process, NoBlock if it has none

NoBlock == [start |-> 0, size |-> 0]

(* What repeated halving of the whole memory can give: the blocks of a     *)
(* size start at its multiples.                                            *)
Blocks ==
    {b \in [start : 0..(TotalMemory - 1), size : 1..TotalMemory] :
        /\ b.start + b.size <= TotalMemory
        /\ b.start % b.size = 0
        /\ b.size \in {Two[e] : e \in 0..b.size}}

Overlap(b, c) == b.start < c.start + c.size /\ c.start < b.start + b.size

(* Mutant: the size is rounded down to a power of two.                     *)
RoundedDown(b, n) == b.size <= n /\ n < 2 * b.size

(* The size is rounded up to a power of two.                               *)
RoundedUp(b, n) == n <= b.size /\ b.size < 2 * n

FreeBlocks(n) ==
    {b \in Blocks : RoundedUp(b, n) /\ \A q \in Procs : ~Overlap(b, held[q])}

(* canAllocate probes by allocating for pid -10 and freeing again, which   *)
(* leaves the allocator as it was.                                         *)
canAllocate(n) == FreeBlocks(n) # {}

MemoryInit == held = [p \in Procs |-> NoBlock]

(* Mutant: the block is cut to the size asked for.                         *)
AllocateExactSize(p, n) ==
    \/ /\ ~canAllocate(n)
       /\ held' = held
    \/ \E b \in FreeBlocks(n) :
          /\ \A c \in FreeBlocks(n) : b.start <= c.start
          /\ held' = [held EXCEPT ![p] = [b EXCEPT !.size = n]]

(* allocateMemory: its callers ignore its result.                          *)
allocateMemory(p, n) ==
    \/ /\ ~canAllocate(n)
       /\ held' = held
    \/ \E b \in FreeBlocks(n) :
          /\ held' = [held EXCEPT ![p] = b]
          /\ \A c \in FreeBlocks(n) : b.start <= c.start

(* Mutant: the block is never given back.                                  *)
FreeNothing(p) == UNCHANGED held

freeMemory(p) == held' = [held EXCEPT ![p] = NoBlock]

destroyMemory == held' = [p \in Procs |-> NoBlock]

MemoryTypeOK == held \in [Procs -> Blocks \cup {NoBlock}]

(* The allocator on its own, whoever calls it: what BuddyTree implements.  *)
MemoryNext ==
    \/ \E p \in Procs : freeMemory(p)
    \/ \E p \in Procs, n \in 1..(TotalMemory + 1) : allocateMemory(p, n)
    \/ destroyMemory

MemorySpec == MemoryInit /\ [][MemoryNext]_held
=============================================================================
