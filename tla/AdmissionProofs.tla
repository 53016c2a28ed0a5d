--------------------------- MODULE AdmissionProofs ---------------------------
(***************************************************************************)
(* Proofs about the way of an entry, for every file and every              *)
(* interleaving: the memory it gets and what it waits for, its place       *)
(* between file and PCB, where it is never lost and never doubled, and     *)
(* the end of the simulation, which comes only when all entries are done.  *)
(* They rest on the rendezvous and on who may exit (KernalyzeProofs).      *)
(***************************************************************************)
EXTENDS KernalyzeProofs, FiniteSetTheorems


-----------------------------------------------------------------------------
(* The memory, for every size of it: whose the blocks are, and that what   *)
(* waits does not fit.                                                     *)

(* There is room for n beside the blocks of h.                             *)
Room(n, h) == \E b \in Blocks : RoundedUp(b, n) /\ \A q \in Procs : ~Overlap(b, h[q])

LEMMA RoomIsAnswer ==
    ASSUME NEW n
    PROVE  canAllocate(n) <=> Room(n, held)
  BY DEF canAllocate, FreeBlocks, Room

(* A block has a place; the missing block is in nobody's way.              *)
LEMMA BlockFacts ==
    ASSUME NEW b \in Blocks \cup {NoBlock}
    PROVE  /\ b.start \in Int /\ b.size \in Int
           /\ b.start >= 0 /\ b.size >= 0
           /\ ~Overlap(b, NoBlock) /\ ~Overlap(NoBlock, b)
  <1>1. b.start \in Int /\ b.size \in Int /\ b.start >= 0 /\ b.size >= 0
    BY ConstantsAssumption DEF Blocks, NoBlock
  <1> QED
    BY <1>1 DEF Overlap, NoBlock

LEMMA OverlapSymmetric ==
    ASSUME NEW b, NEW c, ~Overlap(b, c)
    PROVE  ~Overlap(c, b)
  BY DEF Overlap

(* Freeing makes room, allocating for one who has nothing takes it.        *)
LEMMA RoomGrows ==
    ASSUME NEW n, NEW h \in [Procs -> Blocks \cup {NoBlock}], NEW p \in Procs, Room(n, h)
    PROVE  Room(n, [h EXCEPT ![p] = NoBlock])
  <1>1. PICK b \in Blocks : RoundedUp(b, n) /\ \A q \in Procs : ~Overlap(b, h[q])
    BY DEF Room
  <1>2. ~Overlap(b, NoBlock)
    BY BlockFacts
  <1>3. \A q \in Procs : ~Overlap(b, [h EXCEPT ![p] = NoBlock][q])
    BY <1>1, <1>2
  <1> QED
    BY <1>1, <1>3 DEF Room

LEMMA RoomShrinks ==
    ASSUME NEW n, NEW h \in [Procs -> Blocks \cup {NoBlock}], NEW p \in Procs, NEW c,
           h[p] = NoBlock, Room(n, [h EXCEPT ![p] = c])
    PROVE  Room(n, h)
  <1>1. PICK b \in Blocks :
          RoundedUp(b, n) /\ \A q \in Procs : ~Overlap(b, [h EXCEPT ![p] = c][q])
    BY DEF Room
  <1>2. ~Overlap(b, NoBlock)
    BY BlockFacts
  <1>3. \A q \in Procs : ~Overlap(b, h[q])
    BY <1>1, <1>2
  <1> QED
    BY <1>1, <1>3 DEF Room

-----------------------------------------------------------------------------
(* The inductive invariant of the memory.                                  *)

Size(p) == processesArray[p].memsize

(* A child between its fork and the allocation for it has no block yet.    *)
Holds(p) == stage[p] \in Live /\ ~(pgc = "allocate" /\ pdata = p)

Apart == \A p, q \in Procs : p # q => ~Overlap(held[p], held[q])

OnlyHolders == \A p \in Procs : ~Holds(p) => held[p] = NoBlock

LargeEnough == \A p \in Entries : Holds(p) => Size(p) <= held[p].size

(* The answer of canAllocate stays true until it is used.                  *)
Promised ==
    /\ pgc \in {"fork", "allocate"} => Room(Size(pdata), held)
    /\ pgc = "allocate" => stage[pdata] \in Live

(* What the scan has put back on the list did not fit and still does not.  *)
Scanned ==
    /\ pgc \in {"scan", "fork", "allocate", "send", "end"} =>
         \A i \in DOMAIN waitList : i > waitLeft => ~Room(Size(waitList[i]), held)
    /\ pgc = "end" => waitLeft <= 0

MemoryInv == Apart /\ (pgc # "exited" => OnlyHolders /\ LargeEnough /\ Promised /\ Scanned)

LEMMA MemoryInvInit == Init => MemoryInv
  <1> SUFFICES ASSUME Init PROVE MemoryInv
    OBVIOUS
  <1>1. held = [p \in Procs |-> NoBlock] /\ pgc = "down" /\ \A p \in Procs : stage[p] = "none"
    BY DEF Init, GeneratorInit, MemoryInit, KernelInit
  <1>2. ~Overlap(NoBlock, NoBlock)
    BY BlockFacts
  <1>3. Entries \subseteq Procs
    BY WorkloadFacts DEF Init, KernelInit, ReadProcessesFile
  <1> QED
    BY <1>1, <1>2, <1>3
       DEF MemoryInv, Apart, OnlyHolders, LargeEnough, Holds, Live, Promised, Scanned

(* What the steps below have in common.                                    *)
LEMMA MemoryContext ==
    ASSUME TypeInv, [Next]_vars
    PROVE  /\ held \in [Procs -> Blocks \cup {NoBlock}]
           /\ stage \in [Procs -> Stages]
           /\ processesArray' = processesArray
           /\ Entries' = Entries
           /\ Entries \subseteq Procs
           /\ waitList \in Seq(Entries)
           /\ waitLeft \in Int
           /\ \A p \in Entries : Size(p) \in Nat \ {0}
           /\ pgc \in {"fork", "allocate", "send"} => pdata \in Entries
  <1>1. processesArray' = processesArray /\ Entries' = Entries
    BY ArgumentsFixed DEF argVars
  <1>2. processesArray \in Workloads
    BY DEF TypeInv, TypeOK, KernelTypeOK
  <1>3. Entries \subseteq Procs /\ \A p \in Entries : Size(p) \in Nat \ {0}
    BY <1>2, WorkloadFacts DEF ProcessData, Size
  <1>4. pgc \in {"fork", "allocate", "send"} => pdata \in Entries
    BY DEF TypeInv, TypeOK, GeneratorTypeOK, LoopsWellPlaced
  <1> QED
    BY <1>1, <1>3, <1>4
       DEF TypeInv, TypeOK, KernelTypeOK, GeneratorTypeOK, MemoryTypeOK

(* Nothing in the allocator changes and nobody is born or reaped.          *)
LEMMA MemoryFrame ==
    ASSUME TypeInv, MemoryInv, [Next]_vars,
           UNCHANGED <<held, waitList, waitLeft, pdata>>,
           pgc' = pgc \/ pgc' \in {"down", "downscheduler", "arrive", "wait", "exited"},
           pgc' # "exited" => pgc # "exited" /\ (pgc' = "allocate" <=> pgc = "allocate"),
           \A p \in Procs : stage'[p] \in Live <=> stage[p] \in Live
    PROVE  MemoryInv'
  <1>1. Apart'
    BY DEF MemoryInv, Apart
  <1>2. ASSUME pgc' # "exited"
        PROVE  OnlyHolders' /\ LargeEnough' /\ Promised' /\ Scanned'
    <2>1. OnlyHolders /\ LargeEnough /\ Promised /\ Scanned
      BY <1>2 DEF MemoryInv
    <2>2. \A p \in Procs : Holds(p)' <=> Holds(p)
      BY <1>2 DEF Holds
    <2>3. \A p : Size(p)' = Size(p)
      BY MemoryContext DEF Size
    <2>4. OnlyHolders'
      BY <2>1, <2>2 DEF OnlyHolders
    <2>5. LargeEnough'
      BY <2>1, <2>2, MemoryContext DEF LargeEnough, Size
    <2>6. Promised'
      BY <2>1, MemoryContext DEF Promised, Size
    <2>7. Scanned'
      BY <2>1, MemoryContext DEF Scanned, Size
    <2> QED
      BY <2>4, <2>5, <2>6, <2>7
  <1> QED
    BY <1>1, <1>2 DEF MemoryInv

(* Everybody but the generator leaves it alone; a child lives until it is  *)
(* reaped.                                                                 *)
LEMMA MemoryOthers ==
    ASSUME TypeInv, MemoryInv, [Next]_vars, ~GeneratorSignal, ~GeneratorRun
    PROVE  MemoryInv'
  <1>1. CASE Tick \/ Signal \/ SchedulerSignal \/ SchedulerRun \/ UNCHANGED vars
    <2>1. UNCHANGED <<held, waitList, waitLeft, pdata, pgc, stage>>
      BY <1>1
         DEF Tick, IncrementClk, Signal, SignalGroup, outsideClk, SchedulerSignal,
             schedulerClkHandler, EnterClkHandler, ReinstallClkHandler, KilledByTick, vars,
             procVars, generatorVars, loopVars, SchedulerRun, runScheduler,
             outsideScheduler, BeginTick, handleProcessExit, fetchProcessFromQueue,
             ReceiveProcess, ReceiveMark, ExpireQuantum, SwitchProcess, KeepProcess, Dispatch,
             EndBusyTick, EndIdleTick
    <2>2. CASE pgc = "exited"
      BY <2>1, <2>2 DEF MemoryInv, Apart
    <2> QED
      BY <2>1, <2>2, MemoryFrame
  <1>2. ASSUME NEW p \in Procs, ProcessRun(p) PROVE MemoryInv'
    <2>1. UNCHANGED <<held, waitList, waitLeft, pdata, pgc>>
      BY <1>2 DEF ProcessRun, generatorVars, loopVars
    <2>2. \/ stage' = stage
          \/ \E x \in Live : stage[p] \in Live /\ stage' = [stage EXCEPT ![p] = x]
      BY <1>2
         DEF ProcessRun, ProcessStep, InheritedClkHandler, IgnoreClk, Park, Exec, Terminate,
             Goes, Live, procVars
    <2>3. \A q \in Procs : stage'[q] \in Live <=> stage[q] \in Live
      BY <2>2, MemoryContext
    <2>4. CASE pgc = "exited"
      BY <2>1, <2>4 DEF MemoryInv, Apart
    <2> QED
      BY <2>1, <2>3, <2>4, MemoryFrame
  <1> QED
    BY <1>1, <1>2 DEF Next

(* A child exits only while the scheduler waits for that: then no request  *)
(* is open, and a round has nothing to admit and nothing waiting.          *)
LEMMA NobodyExitsInRound ==
    ASSUME Inv, NEW p \in Procs, stage[p] = "zombie", pgc # "exited"
    PROVE  /\ pgc \notin {"fork", "allocate", "send"}
           /\ pgc \in {"scan", "end"} => waitList = <<>>
  <1>1. Finishing
    BY DEF Inv, OnTheProcessor
  <1>2. Idle
    BY <1>1 DEF Inv, RendezvousInv, Rendezvous, Finishing
  <1>3. InRound => pgNoMore
    BY <1>2 DEF Idle
  <1> QED
    BY <1>3 DEF Inv, RendezvousInv, LastRound, InRound

LEMMA MemoryGeneratorSignal ==
    ASSUME Inv, MemoryInv, [Next]_vars, GeneratorSignal
    PROVE  MemoryInv'
  <1>0. TypeInv
    BY DEF Inv
  <1>1. CASE pgClkHandler \/ EnterCheckChild \/ LeaveCheckChild
    <2>1. /\ UNCHANGED <<held, waitList, waitLeft, pdata, stage>>
          /\ pgc # "exited"
          /\ pgc' = pgc \/ (pgc = "wait" /\ pgc' = "down")
      BY <1>1 DEF pgClkHandler, EnterCheckChild, LeaveCheckChild, loopVars
    <2> QED
      BY <1>0, <2>1, MemoryFrame
  <1>4. CASE ReapScheduler
    <2>1. /\ held' = [p \in Procs |-> NoBlock]
          /\ pgc' = "exited"
      BY <1>4 DEF ReapScheduler, pgClearResources, destroyMemory
    <2>2. ~Overlap(NoBlock, NoBlock)
      BY BlockFacts
    <2> QED
      BY <2>1, <2>2 DEF MemoryInv, Apart
  <1>2. ASSUME NEW p \in Procs, ReapProcess(p) PROVE MemoryInv'
    <2>1. /\ UNCHANGED <<waitList, waitLeft, pdata, pgc>>
          /\ pgc # "exited" /\ stage[p] = "zombie"
          /\ stage' = [stage EXCEPT ![p] = "reaped"]
          /\ held' = [held EXCEPT ![p] = NoBlock]
      BY <1>2 DEF ReapProcess, freeMemory, loopVars
    <2>2. /\ pgc \notin {"fork", "allocate", "send"}
          /\ pgc \in {"scan", "end"} => waitList = <<>>
      BY <2>1, NobodyExitsInRound
    <2>3. OnlyHolders /\ LargeEnough /\ Apart
      BY <2>1 DEF MemoryInv
    <2>4. /\ held'[p] = NoBlock /\ stage'[p] = "reaped"
          /\ \A q \in Procs : q # p => held'[q] = held[q] /\ stage'[q] = stage[q]
      BY <1>0, <2>1, MemoryContext
    <2>5. Apart'
      <3>1. \A q \in Procs : held[q] \in Blocks \cup {NoBlock}
        BY <1>0, MemoryContext
      <3>2. \A q \in Procs : ~Overlap(held[q], NoBlock) /\ ~Overlap(NoBlock, held[q])
        BY <3>1, BlockFacts
      <3> QED
        BY <2>3, <2>4, <3>2 DEF Apart
    <2>6. \A q \in Procs : Holds(q)' <=> Holds(q) /\ q # p
      BY <2>1, <2>2, <2>4 DEF Holds, Live
    <2>7. OnlyHolders'
      BY <2>3, <2>4, <2>6 DEF OnlyHolders
    <2>8. LargeEnough'
      BY <1>0, <2>3, <2>4, <2>6, MemoryContext DEF LargeEnough, Size
    <2>9. Promised'
      BY <2>1, <2>2 DEF Promised
    <2>10. Scanned'
      BY <2>1, <2>2 DEF MemoryInv, Scanned
    <2> QED
      BY <2>5, <2>7, <2>8, <2>9, <2>10 DEF MemoryInv
  <1> QED
    BY <1>1, <1>2, <1>4 DEF GeneratorSignal, checkChildProcess

(* Steps of the loop outside fork and allocate.                            *)
LEMMA MemoryLoopFrame ==
    ASSUME TypeInv, MemoryInv, [Next]_vars, UNCHANGED <<held, stage>>,
           pgc # "exited", pgc # "allocate", pgc' # "allocate"
    PROVE  Apart' /\ OnlyHolders' /\ LargeEnough'
  <1>1. Apart /\ OnlyHolders /\ LargeEnough
    BY DEF MemoryInv
  <1>2. \A p \in Procs : Holds(p)' <=> Holds(p)
    BY DEF Holds
  <1> QED
    BY <1>1, <1>2, MemoryContext DEF Apart, OnlyHolders, LargeEnough, Size

LEMMA MemoryScan ==
    ASSUME TypeInv, MemoryInv, [Next]_vars, Scan
    PROVE  MemoryInv'
  <1> DEFINE p == Head(waitList)
  <1>1. /\ UNCHANGED <<held, stage>>
        /\ pgc = "scan" /\ pgc' \in {"scan", "fork"}
        /\ waitLeft > 0 /\ waitLeft' = waitLeft - 1
        /\ waitLeft <= Len(waitList)
    BY DEF Scan, AtLoop, TypeInv, LoopsWellPlaced
  <1>2. Apart' /\ OnlyHolders' /\ LargeEnough'
    BY <1>1, MemoryLoopFrame
  <1>3. waitList \in Seq(Entries) /\ waitLeft \in Int /\ processesArray' = processesArray
    BY MemoryContext
  <1>4. waitList # <<>>
    BY <1>1, <1>3
  <1>5. \A i \in DOMAIN waitList : i > waitLeft => ~Room(Size(waitList[i]), held)
    BY <1>1 DEF MemoryInv, Scanned
  <1>6. /\ p = waitList[1]
        /\ \A i \in DOMAIN Tail(waitList) :
             Tail(waitList)[i] = waitList[i + 1] /\ i + 1 \in DOMAIN waitList /\ i \in Int
    BY <1>3, <1>4, TailFacts
  <1>7. \A i \in DOMAIN Tail(waitList) :
          i > waitLeft - 1 => ~Room(Size(Tail(waitList)[i]), held)
    BY <1>3, <1>5, <1>6
  <1>8. CASE canAllocate(processesArray[p].memsize) /\ pdata' = p
               /\ waitList' = Tail(waitList) /\ pgc' = "fork"
    <2>1. Room(Size(p), held)
      BY <1>8, RoomIsAnswer DEF Size
    <2>2. Promised'
      BY <1>1, <1>3, <1>8, <2>1 DEF Promised, Size
    <2>3. Scanned'
      BY <1>1, <1>3, <1>7, <1>8 DEF Scanned, Size
    <2> QED
      BY <1>2, <2>2, <2>3 DEF MemoryInv
  <1>9. CASE ~canAllocate(processesArray[p].memsize)
               /\ waitList' = Requeue /\ UNCHANGED <<pdata, pgc>>
    <2>1. ~Room(Size(p), held)
      BY <1>9, RoomIsAnswer DEF Size
    <2>2. waitList' = Append(Tail(waitList), p)
      BY <1>9 DEF Requeue
    <2>3. Tail(waitList) \in Seq(Entries) /\ p \in Entries
      BY <1>3, <1>4, TailFacts
    <2>4. /\ DOMAIN waitList' = DOMAIN Tail(waitList) \cup {Len(Tail(waitList)) + 1}
          /\ waitList'[Len(Tail(waitList)) + 1] = p
          /\ \A i \in DOMAIN Tail(waitList) : waitList'[i] = Tail(waitList)[i]
      BY <2>2, <2>3, AppendFacts
    <2>5. \A i \in DOMAIN waitList' : i > waitLeft' => ~Room(Size(waitList'[i]), held)
      BY <1>1, <1>7, <2>1, <2>4
    <2>6. Scanned'
      BY <1>1, <1>3, <2>5 DEF Scanned, Size
    <2>7. Promised'
      BY <1>1, <1>9 DEF Promised
    <2> QED
      BY <1>2, <2>6, <2>7 DEF MemoryInv
  <1> QED
    BY <1>8, <1>9 DEF Scan

(* The entry being admitted gets its child, which holds nothing yet.       *)
LEMMA MemoryFork ==
    ASSUME Inv, MemoryInv, [Next]_vars, forkProcess
    PROVE  MemoryInv'
  <1>1. /\ UNCHANGED <<held, waitList, waitLeft, pdata>>
        /\ pgc = "fork" /\ pgc' = "allocate"
        /\ stage' = [stage EXCEPT ![pdata] = "forked"]
    BY DEF forkProcess, AtLoop, loopVars
  <1>2. TypeInv
    BY DEF Inv
  <1>3. pdata \in Procs
    BY <1>1, <1>2, MemoryContext
  <1>4. stage[pdata] = "none"
    BY <1>1 DEF Inv, OnTheWay, AdmittedFresh, Admitting
  <1>5. /\ stage'[pdata] = "forked"
        /\ \A q \in Procs : q # pdata => stage'[q] = stage[q]
    BY <1>1, <1>2, <1>3, MemoryContext
  <1>6. \A q \in Procs : Holds(q)' <=> Holds(q)
    BY <1>1, <1>4, <1>5 DEF Holds, Live
  <1>7. Apart /\ OnlyHolders /\ LargeEnough /\ Promised /\ Scanned
    BY <1>1 DEF MemoryInv
  <1>8. Apart' /\ OnlyHolders' /\ LargeEnough'
    BY <1>1, <1>2, <1>6, <1>7, MemoryContext DEF Apart, OnlyHolders, LargeEnough, Size
  <1>9. Promised' /\ Scanned'
    BY <1>1, <1>2, <1>5, <1>7, MemoryContext DEF Promised, Scanned, Size, Live
  <1> QED
    BY <1>8, <1>9 DEF MemoryInv

(* The promise of canAllocate holds, so that allocateMemory cannot fail.   *)
LEMMA MemoryAllocate ==
    ASSUME TypeInv, MemoryInv, [Next]_vars, Allocate
    PROVE  MemoryInv'
  <1>1. /\ UNCHANGED <<stage, waitList, waitLeft, pdata>>
        /\ pgc = "allocate" /\ pgc' = "send"
        /\ allocateMemory(pdata, Size(pdata))
    BY DEF Allocate, AtLoop, loopVars, Size
  <1>2. Apart /\ OnlyHolders /\ LargeEnough /\ Promised /\ Scanned
    BY <1>1 DEF MemoryInv
  <1>3. canAllocate(Size(pdata)) /\ stage[pdata] \in Live
    BY <1>1, <1>2, RoomIsAnswer DEF Promised
  <1>4. PICK b \in FreeBlocks(Size(pdata)) : held' = [held EXCEPT ![pdata] = b]
    BY <1>1, <1>3 DEF allocateMemory
  <1>5. /\ b \in Blocks /\ Size(pdata) <= b.size
        /\ \A q \in Procs : ~Overlap(b, held[q])
    BY <1>4 DEF FreeBlocks, RoundedUp
  <1>6. pdata \in Entries /\ pdata \in Procs
    BY <1>1, MemoryContext
  <1>7. /\ held'[pdata] = b
        /\ \A q \in Procs : q # pdata => held'[q] = held[q]
    BY <1>4, <1>6, MemoryContext
  <1>8. \A q \in Procs : Holds(q)' <=> Holds(q) \/ q = pdata
    BY <1>1, <1>3 DEF Holds
  <1>9. held[pdata] = NoBlock
    BY <1>1, <1>2, <1>6 DEF OnlyHolders, Holds
  <1>10. Apart'
    <2>1. \A q \in Procs : ~Overlap(held[q], b)
      BY <1>5, OverlapSymmetric
    <2> QED
      BY <1>2, <1>5, <1>7, <2>1 DEF Apart
  <1>11. OnlyHolders'
    BY <1>2, <1>7, <1>8 DEF OnlyHolders
  <1>12. LargeEnough'
    BY <1>2, <1>5, <1>7, <1>8, MemoryContext DEF LargeEnough, Size
  <1>13. Promised'
    BY <1>1 DEF Promised
  <1>14. \A n : Room(n, held') => Room(n, held)
    BY <1>4, <1>6, <1>9, RoomShrinks, MemoryContext
  <1>15. Scanned'
    BY <1>1, <1>2, <1>14, MemoryContext DEF Scanned, Size
  <1> QED
    BY <1>10, <1>11, <1>12, <1>13, <1>15 DEF MemoryInv

LEMMA MemoryGeneratorRun ==
    ASSUME Inv, MemoryInv, [Next]_vars, GeneratorRun
    PROVE  MemoryInv'
  <1>0. TypeInv
    BY DEF Inv
  <1>1. CASE \/ DownTick \/ DownScheduler \/ Arrive \/ NoArrival \/ SendProcess \/ EndScan
             \/ EndRound \/ WaitScheduler
    <2>1. /\ UNCHANGED <<held, stage>>
          /\ pgc \notin {"exited", "fork", "allocate"}
          /\ pgc' \notin {"fork", "allocate"}
      BY <1>1
         DEF DownTick, AfterTick, DownScheduler, Arrive, NoArrival, SendProcess, EndScan,
             EndRound, WaitScheduler, AtLoop, loopVars
    <2>2. Apart' /\ OnlyHolders' /\ LargeEnough'
      BY <1>0, <2>1, MemoryLoopFrame
    <2>3. Promised'
      BY <2>1 DEF Promised
    <2>4. Scanned'
      <3>1. CASE NoArrival
        <4>1. waitLeft' = Len(waitList) /\ waitList' = waitList
          BY <3>1 DEF NoArrival, waitCount
        <4>2. \A i \in DOMAIN waitList' : ~(i > waitLeft')
          BY <1>0, <4>1, MemoryContext
        <4> QED
          BY <3>1, <4>2 DEF Scanned, NoArrival
      <3>2. CASE SendProcess \/ EndScan
        <4>1. /\ UNCHANGED <<held, waitList, waitLeft>>
              /\ pgc \in {"scan", "send"}
              /\ pgc' = "end" => waitLeft <= 0
          BY <3>2 DEF SendProcess, EndScan, AtLoop, loopVars
        <4>2. Scanned
          BY <4>1 DEF MemoryInv
        <4> QED
          BY <1>0, <4>1, <4>2, MemoryContext DEF Scanned, Size
      <3>3. CASE DownTick \/ DownScheduler \/ Arrive \/ EndRound \/ WaitScheduler
        <4>1. pgc' \in {"arrive", "downscheduler", "down", "wait", "exited"}
          BY <3>3
             DEF DownTick, AfterTick, DownScheduler, Arrive, EndRound, WaitScheduler, AtLoop
        <4> QED
          BY <4>1 DEF Scanned
      <3> QED
        BY <1>1, <3>1, <3>2, <3>3
    <2> QED
      BY <2>2, <2>3, <2>4 DEF MemoryInv
  <1> QED
    BY <1>0, <1>1, MemoryScan, MemoryFork, MemoryAllocate DEF GeneratorRun, runProcessGenerator

-----------------------------------------------------------------------------
(* What follows about the memory.                                          *)

(* Together with Inv the ownership of the blocks is inductive.             *)
THEOREM MemoryInvHolds == Spec => []MemoryInv
  <1>1. Init => MemoryInv
    BY MemoryInvInit
  <1>2. Inv /\ MemoryInv /\ [Next]_vars => MemoryInv'
    BY MemoryOthers, MemoryGeneratorSignal, MemoryGeneratorRun DEF Inv
  <1> QED
    BY <1>1, <1>2, InvInductive, PTL DEF Spec

(* Blocks never overlap, and a child has one that is large enough from the *)
(* allocation after its fork until it is reaped: allocateMemory, whose     *)
(* result forkProcess ignores, never fails.                                *)
THEOREM MemoryOwnershipHolds == Spec => []MemoryOwnership
  <1>1. ASSUME TypeInv, MemoryInv PROVE MemoryOwnership
    <2>1. ASSUME pgc # "exited", NEW p \in Entries
          PROVE  held[p].size >= processesArray[p].memsize <=> Holds(p)
      <3>1. p \in Procs /\ Size(p) \in Nat \ {0}
        BY <1>1, WorkloadFacts DEF TypeInv, TypeOK, KernelTypeOK, ProcessData, Size
      <3>2. held[p].size \in Int
        BY <1>1, <3>1, BlockFacts
           DEF TypeInv, TypeOK, GeneratorTypeOK, MemoryTypeOK
      <3>3. CASE Holds(p)
        BY <1>1, <2>1, <3>1, <3>2, <3>3 DEF MemoryInv, LargeEnough, Size
      <3>4. CASE ~Holds(p)
        <4>1. held[p] = NoBlock
          BY <1>1, <2>1, <3>1, <3>4 DEF MemoryInv, OnlyHolders
        <4> QED
          BY <3>1, <3>4, <4>1 DEF NoBlock, Size
      <3> QED
        BY <3>3, <3>4
    <2> QED
      BY <1>1, <2>1 DEF MemoryInv, Apart, MemoryOwnership, Holds
  <1>2. Inv => TypeInv
    BY DEF Inv
  <1> QED
    BY <1>1, <1>2, InvInductive, MemoryInvHolds, PTL

(* What a round leaves on the waiting list really does not fit: nothing is *)
(* freed behind the scan, nor does it skip anybody.                        *)
THEOREM NoneFitsHolds == Spec => []NoneFits
  <1>1. ASSUME TypeInv, MemoryInv PROVE NoneFits
    <2> SUFFICES ASSUME pgc = "end", NEW i \in DOMAIN waitList
                 PROVE  ~canAllocate(Size(waitList[i]))
      BY DEF NoneFits, Size
    <2>1. Scanned
      BY <1>1 DEF MemoryInv
    <2>2. i > waitLeft
      <3>1. waitList \in Seq(Entries) /\ waitLeft \in Int
        BY <1>1 DEF TypeInv, TypeOK, GeneratorTypeOK
      <3>2. i \in Int /\ i > 0
        BY <3>1
      <3> QED
        BY <2>1, <3>1, <3>2 DEF Scanned
    <2> QED
      BY <2>1, <2>2, RoomIsAnswer DEF Scanned
  <1>2. Inv => TypeInv
    BY DEF Inv
  <1> QED
    BY <1>1, <1>2, InvInductive, MemoryInvHolds, PTL

-----------------------------------------------------------------------------
(* The way of an entry: waiting list, fork, message queue, PCB.            *)

In(s, p) == \E i \in DOMAIN s : s[i] = p

LEMMA InAppend ==
    ASSUME NEW S, NEW s \in Seq(S), NEW m \in S
    PROVE  /\ In(Append(s, m), m)
           /\ \A p : In(s, p) => In(Append(s, m), p)
  BY AppendFacts DEF In

LEMMA InTail ==
    ASSUME NEW S, NEW s \in Seq(S), s # <<>>, NEW p, In(s, p)
    PROVE  p = Head(s) \/ In(Tail(s), p)
  <1>1. PICK i \in DOMAIN s : s[i] = p
    BY DEF In
  <1>2. CASE i = 1
    BY <1>1, <1>2
  <1>3. CASE i # 1
    <2>1. i - 1 \in DOMAIN Tail(s) /\ Tail(s)[i - 1] = p
      BY <1>1, <1>3
    <2> QED
      BY <2>1 DEF In
  <1> QED
    BY <1>2, <1>3

(* In a sequence without repetitions something occurs once or not at all.  *)
LEMMA OccursOnce ==
    ASSUME NEW s, NEW p, \A i, j \in DOMAIN s : s[i] = p /\ s[j] = p => i = j
    PROVE  Occurrences(s, p) = IF In(s, p) THEN 1 ELSE 0
  <1>1. CASE In(s, p)
    <2>1. PICK i \in DOMAIN s : s[i] = p
      BY <1>1 DEF In
    <2>2. {j \in DOMAIN s : s[j] = p} = {i}
      BY <2>1
    <2> QED
      BY <1>1, <2>2, FS_Singleton DEF Occurrences
  <1>2. CASE ~In(s, p)
    <2>1. {j \in DOMAIN s : s[j] = p} = {}
      BY <1>2 DEF In
    <2> QED
      BY <1>2, <2>1, FS_EmptySet DEF Occurrences
  <1> QED
    BY <1>1, <1>2

-----------------------------------------------------------------------------
(* The generator exits after the scheduler.                                *)

ExitsLast == pgc = "exited" => schedulerStage = "reaped"

LEMMA ExitsLastStep ==
    ASSUME ExitsLast, [Next]_vars
    PROVE  ExitsLast'
  <1> USE DEF ExitsLast
  <1>1. CASE Tick \/ Signal \/ UNCHANGED vars
    BY <1>1 DEF Tick, IncrementClk, Signal, SignalGroup, outsideClk, vars, generatorVars
  <1>2. ASSUME NEW p \in Procs, ProcessRun(p) PROVE ExitsLast'
    BY <1>2 DEF ProcessRun, ProcessStep, InheritedClkHandler, IgnoreClk, Park, Exec,
                Terminate, generatorVars
  <1>3. CASE SchedulerSignal
    BY <1>3 DEF SchedulerSignal, schedulerClkHandler, EnterClkHandler, ReinstallClkHandler,
                KilledByTick, generatorVars
  <1>4. CASE SchedulerRun
    BY <1>4 DEF SchedulerRun, runScheduler, At, BeginTick, handleProcessExit,
                fetchProcessFromQueue, ReceiveProcess, ReceiveMark, ExpireQuantum,
                SwitchProcess, KeepProcess, Dispatch, EndBusyTick, EndIdleTick, generatorVars
  <1>5. CASE GeneratorSignal
    BY <1>5 DEF GeneratorSignal, pgClkHandler, checkChildProcess, EnterCheckChild,
                ReapProcess, ReapScheduler, pgClearResources, LeaveCheckChild
  <1>6. CASE GeneratorRun
    BY <1>6 DEF GeneratorRun, runProcessGenerator, AtLoop, DownTick, AfterTick, DownScheduler,
                Arrive, NoArrival, Scan, forkProcess, Allocate, SendProcess, EndScan,
                EndRound, WaitScheduler
  <1> QED
    BY <1>1, <1>2, <1>3, <1>4, <1>5, <1>6 DEF Next

(* The generator ends only when the scheduler has ended and been waited    *)
(* for, so nobody is left to send a request or to wait for a message.      *)
THEOREM ExitsLastHolds == Spec => []ExitsLast
  <1>1. Init => ExitsLast
    BY DEF Init, GeneratorInit, ExitsLast
  <1> QED
    BY <1>1, ExitsLastStep, PTL DEF Spec

-----------------------------------------------------------------------------
(* The process being admitted.                                             *)

admissionVars == <<processIndex, waitList, pdata, pcbQueue, pcbState>>

AdmittedOnce ==
    pdata # NULL =>
        /\ Admitting \/ pgc = "exited"
        /\ pdata < processIndex
        /\ pcbState[pdata] = "none"
        /\ ~In(waitList, pdata)
        /\ ~In(pcbQueue, pdata)

(* The clock, the children and the handlers admit nobody.                  *)
LEMMA AdmissionFrame ==
    ASSUME [Next]_vars, ~SchedulerRun, ~GeneratorRun
    PROVE  UNCHANGED admissionVars
  <1> USE DEF admissionVars, generatorVars, loopVars, schedulerVars, pcbVars, msgVars
  <1>1. CASE Tick \/ Signal \/ UNCHANGED vars
    BY <1>1 DEF Tick, IncrementClk, Signal, SignalGroup, outsideClk, vars
  <1>2. ASSUME NEW p \in Procs, ProcessRun(p) PROVE UNCHANGED admissionVars
    BY <1>2 DEF ProcessRun, ProcessStep, InheritedClkHandler, IgnoreClk, Park, Exec, Terminate
  <1>3. CASE SchedulerSignal
    BY <1>3 DEF SchedulerSignal, schedulerClkHandler, EnterClkHandler, ReinstallClkHandler,
                KilledByTick
  <1>4. CASE GeneratorSignal
    BY <1>4 DEF GeneratorSignal, pgClkHandler, checkChildProcess, EnterCheckChild,
                ReapProcess, ReapScheduler, LeaveCheckChild
  <1> QED
    BY <1>1, <1>2, <1>3, <1>4 DEF Next

(* pdata is in use from the fork to the sending only.                      *)
LEMMA PdataInUse ==
    ASSUME AdmittedOnce, [Next]_vars, pgc # "exited", pdata' # NULL
    PROVE  Admitting' \/ (pgc' = "exited" /\ UNCHANGED admissionVars)
  <1>1. CASE GeneratorRun
    BY <1>1
       DEF AdmittedOnce, Admitting, GeneratorRun, runProcessGenerator, AtLoop, DownTick,
           AfterTick, DownScheduler, Arrive, NoArrival, Scan, forkProcess, Allocate,
           SendProcess, EndScan, EndRound, WaitScheduler, loopVars
  <1>2. CASE SchedulerRun
    BY <1>2 DEF AdmittedOnce, Admitting, SchedulerRun, generatorVars, loopVars
  <1>3. CASE ~SchedulerRun /\ ~GeneratorRun
    <2>1. UNCHANGED admissionVars
      BY <1>3, AdmissionFrame
    <2>2. pgc' = pgc \/ pgc' = "exited" \/ pgc = "wait"
      BY <1>3
         DEF Next, vars, Tick, IncrementClk, Signal, SignalGroup, outsideClk, ProcessRun,
             SchedulerSignal, GeneratorSignal, pgClkHandler, checkChildProcess,
             EnterCheckChild, ReapProcess, ReapScheduler, pgClearResources, LeaveCheckChild,
             generatorVars
    <2> QED
      BY <2>1, <2>2 DEF AdmittedOnce, Admitting, admissionVars
  <1> QED
    BY <1>1, <1>2, <1>3

LEMMA AdmittedOnceStep ==
    ASSUME TypeInv, TypeInv', OnTheWay', ExitsLast, AdmittedOnce, [Next]_vars
    PROVE  AdmittedOnce'
  <1> SUFFICES ASSUME pdata' # NULL
               PROVE  (/\ Admitting \/ pgc = "exited"
                       /\ pdata < processIndex
                       /\ pcbState[pdata] = "none"
                       /\ ~In(waitList, pdata)
                       /\ ~In(pcbQueue, pdata))'
    BY DEF AdmittedOnce
  <1>1. CASE pgc = "exited"
    <2>1. ~SchedulerRun /\ ~GeneratorRun
      BY <1>1
         DEF ExitsLast, SchedulerRun, runScheduler, At, BeginTick, handleProcessExit,
             fetchProcessFromQueue, ReceiveProcess, ReceiveMark, ExpireQuantum, SwitchProcess,
             KeepProcess, Dispatch, EndBusyTick, EndIdleTick, GeneratorRun,
             runProcessGenerator, AtLoop, DownTick, DownScheduler, Arrive, NoArrival, Scan,
             forkProcess, Allocate, SendProcess, EndScan, EndRound, WaitScheduler
    <2>2. UNCHANGED admissionVars
      BY <2>1, AdmissionFrame
    <2>3. pgc' = "exited"
      BY <1>1, <2>1
         DEF Next, vars, Tick, IncrementClk, Signal, SignalGroup, outsideClk, ProcessRun,
             SchedulerSignal, GeneratorSignal, pgClkHandler, checkChildProcess,
             EnterCheckChild, ReapProcess, ReapScheduler, LeaveCheckChild, generatorVars
    <2> QED
      BY <2>2, <2>3 DEF AdmittedOnce, admissionVars, In
  <1>2. CASE pgc # "exited" /\ Admitting'
    <2>1. pdata' \in Entries /\ pdata' \notin Marks
      <3>1. pdata' \in Entries' \cup {NULL}
        BY DEF TypeInv, TypeOK, GeneratorTypeOK
      <3>2. processesArray \in Workloads
        BY DEF TypeInv, TypeOK, KernelTypeOK
      <3> QED
        BY <3>1, <3>2, ArgumentsFixed, WorkloadFacts
    <2>2. pdata' < processIndex' /\ pcbState'[pdata'] = "none"
      BY <1>2 DEF OnTheWay, AdmittedFresh
    <2>3. ~In(waitList, pdata)'
      BY <1>2 DEF OnTheWay, WaitListFresh, In
    <2>4. ~In(pcbQueue, pdata)'
      BY <1>2, <2>1 DEF OnTheWay, MessagesFresh, In
    <2> QED
      BY <1>2, <2>2, <2>3, <2>4
  <1>3. CASE pgc # "exited" /\ pgc' = "exited" /\ UNCHANGED admissionVars
    BY <1>3 DEF AdmittedOnce, admissionVars, In
  <1> QED
    BY <1>1, <1>2, <1>3, PdataInUse

-----------------------------------------------------------------------------
(* No entry is lost.                                                       *)

Place(p) ==
    \/ p >= processIndex
    \/ In(waitList, p)
    \/ pdata = p
    \/ In(pcbQueue, p)
    \/ pcbState[p] # "none"

Somewhere == \A p \in Entries : Place(p)

(* A PCB is never unmade, and a message is taken out to become one.        *)
LEMMA SomewhereScheduler ==
    ASSUME TypeInv, Somewhere, SchedulerRun
    PROVE  Somewhere'
  <1>0. /\ UNCHANGED <<processIndex, waitList, pdata>>
        /\ Entries' = Entries
        /\ Entries \subseteq Procs /\ Entries \cap Marks = {}
        /\ pcbQueue \in Seq(Entries \cup Marks)
        /\ \E S : pcbState \in [Procs -> S]
    <2>1. UNCHANGED <<processIndex, waitList, pdata>> /\ Entries' = Entries
      BY DEF SchedulerRun, argVars, generatorVars, loopVars, Entries, processCount
    <2>2. processesArray \in Workloads
      BY DEF TypeInv, TypeOK, KernelTypeOK
    <2> QED
      BY <2>1, <2>2, WorkloadFacts DEF TypeInv, TypeOK, KernelTypeOK, SchedulerTypeOK
  <1> SUFFICES ASSUME NEW p \in Entries PROVE Place(p)'
    BY <1>0 DEF Somewhere
  <1>1. Place(p)
    BY DEF Somewhere
  <1>2. pcbState[p] # "none" => pcbState'[p] # "none"
    BY <1>0
       DEF SchedulerRun, runScheduler, BeginTick, handleProcessExit, fetchProcessFromQueue,
           ReceiveProcess, ReceiveMark, pushToReadyQueue, ExpireQuantum, SwitchProcess,
           KeepProcess, Dispatch, EndBusyTick, EndIdleTick, pcbVars
  <1>3. CASE ReceiveProcess \/ ReceiveMark
    <2>1. pcbQueue # <<>> /\ pcbQueue' = Tail(pcbQueue)
      BY <1>3 DEF ReceiveProcess, ReceiveMark
    <2>2. CASE In(pcbQueue, p)
      <3>1. p = Head(pcbQueue) \/ In(Tail(pcbQueue), p)
        BY <1>0, <2>1, <2>2, InTail
      <3>2. CASE p = Head(pcbQueue)
        <4>1. ReceiveProcess
          BY <1>0, <1>3, <3>2 DEF ReceiveMark
        <4>2. pcbState'[p] = "READY"
          BY <1>0, <3>2, <4>1 DEF ReceiveProcess, pushToReadyQueue
        <4> QED
          BY <4>2 DEF Place
      <3> QED
        BY <2>1, <3>1, <3>2 DEF Place, In
    <2> QED
      BY <1>0, <1>1, <1>2, <2>2 DEF Place, In
  <1>4. CASE ~ReceiveProcess /\ ~ReceiveMark
    <2>1. pcbQueue' = pcbQueue
      BY <1>4
         DEF SchedulerRun, runScheduler, BeginTick, handleProcessExit, fetchProcessFromQueue,
             ExpireQuantum, SwitchProcess, KeepProcess, Dispatch, EndBusyTick, EndIdleTick,
             msgVars
    <2> QED
      BY <1>0, <1>1, <1>2, <2>1 DEF Place, In
  <1> QED
    BY <1>3, <1>4

(* The generator hands an entry on from place to place.                    *)
LEMMA SomewhereGenerator ==
    ASSUME TypeInv, AdmittedOnce, Somewhere, GeneratorRun
    PROVE  Somewhere'
  <1>0. /\ pcbState' = pcbState
        /\ Entries' = Entries
        /\ Entries \subseteq Int
        /\ waitList \in Seq(Entries)
        /\ pcbQueue \in Seq(Entries \cup Marks)
        /\ processIndex \in Int
    <2>1. pcbState' = pcbState /\ Entries' = Entries
      BY DEF GeneratorRun, argVars, schedulerVars, pcbVars, Entries, processCount
    <2>2. processesArray \in Workloads
      BY DEF TypeInv, TypeOK, KernelTypeOK
    <2> QED
      BY <2>1, <2>2, WorkloadFacts DEF TypeInv, TypeOK, KernelTypeOK, GeneratorTypeOK
  <1> SUFFICES ASSUME NEW p \in Entries PROVE Place(p)'
    BY <1>0 DEF Somewhere
  <1>1. Place(p)
    BY DEF Somewhere
  <1>2. CASE UNCHANGED <<processIndex, waitList, pdata, pcbQueue>>
    BY <1>0, <1>1, <1>2 DEF Place, In
  <1>3. CASE Arrive
    <2>1. /\ UNCHANGED <<pdata, pcbQueue>>
          /\ processIndex \in Entries
          /\ processIndex' = processIndex + 1
          /\ waitList' = Append(waitList, processIndex)
      BY <1>3, WorkloadFacts
         DEF Arrive, ArrivesNow, msgVars, TypeInv, TypeOK, KernelTypeOK, GeneratorTypeOK,
             Entries
    <2>2. CASE p >= processIndex
      <3>1. CASE p = processIndex
        BY <1>0, <2>1, <3>1, InAppend DEF Place
      <3>2. CASE p # processIndex
        BY <1>0, <2>1, <2>2, <3>2 DEF Place
      <3> QED
        BY <3>1, <3>2
    <2>3. CASE In(waitList, p)
      BY <1>0, <2>1, <2>3, InAppend DEF Place
    <2> QED
      BY <1>0, <1>1, <2>1, <2>2, <2>3 DEF Place, In
  <1>4. CASE Scan
    <2>1. /\ UNCHANGED <<processIndex, pcbQueue>>
          /\ pgc = "scan"
          /\ waitLeft > 0 /\ waitLeft <= Len(waitList) /\ waitLeft \in Int
          /\ \/ pdata' = Head(waitList) /\ waitList' = Tail(waitList)
             \/ pdata' = pdata /\ waitList' = Append(Tail(waitList), Head(waitList))
      BY <1>4
         DEF Scan, Requeue, AtLoop, msgVars, TypeInv, TypeOK, GeneratorTypeOK, LoopsWellPlaced
    <2>2. waitList # <<>>
      BY <1>0, <2>1
    <2>3. pdata = NULL
      BY <2>1 DEF AdmittedOnce, Admitting
    <2>4. pdata # p
      <3>1. processesArray \in Workloads
        BY DEF TypeInv, TypeOK, KernelTypeOK
      <3> QED
        BY <2>3, <3>1, WorkloadFacts
    <2>5. CASE In(waitList, p)
      <3>1. p = Head(waitList) \/ In(Tail(waitList), p)
        BY <1>0, <2>2, <2>5, InTail
      <3>2. Tail(waitList) \in Seq(Entries) /\ Head(waitList) \in Entries
        BY <1>0, <2>2, TailFacts
      <3>3. In(Tail(waitList), p) \/ p = Head(waitList)
              => In(Append(Tail(waitList), Head(waitList)), p)
        BY <3>2, InAppend
      <3>4. In(waitList', p) \/ pdata' = p
        BY <2>1, <3>1, <3>3
      <3> QED
        BY <3>4 DEF Place, In
    <2> QED
      BY <1>0, <1>1, <2>1, <2>4, <2>5 DEF Place, In
  <1>5. CASE SendProcess
    <2>1. /\ UNCHANGED <<processIndex, waitList>>
          /\ pcbQueue' = Append(pcbQueue, pdata)
          /\ pdata \in Entries \cup Marks
      BY <1>5
         DEF SendProcess, sendProcesstoScheduler, AtLoop, TypeInv, TypeOK, GeneratorTypeOK,
             LoopsWellPlaced
    <2>2. In(pcbQueue, p) \/ pdata = p => In(pcbQueue', p)
      BY <1>0, <2>1, InAppend
    <2> QED
      BY <1>0, <1>1, <2>1, <2>2 DEF Place, In
  <1>6. CASE EndRound
    <2>1. /\ UNCHANGED <<processIndex, waitList, pdata>>
          /\ pcbQueue' = pcbQueue \/ \E m \in Marks : pcbQueue' = Append(pcbQueue, m)
      BY <1>6 DEF EndRound, sendProcesstoScheduler, Marks
    <2>2. \A m \in Marks : In(pcbQueue, p) => In(Append(pcbQueue, m), p)
      BY <1>0, InAppend
    <2>3. In(pcbQueue, p) => In(pcbQueue', p)
      BY <2>1, <2>2
    <2> QED
      BY <1>0, <1>1, <2>1, <2>3 DEF Place, In
  <1>7. CASE \/ DownTick \/ DownScheduler \/ NoArrival \/ forkProcess \/ Allocate \/ EndScan
             \/ WaitScheduler
    BY <1>2, <1>7
       DEF DownTick, DownScheduler, NoArrival, forkProcess, Allocate, EndScan, WaitScheduler,
           loopVars, msgVars
  <1> QED
    BY <1>3, <1>4, <1>5, <1>6, <1>7 DEF GeneratorRun, runProcessGenerator

LEMMA SomewhereStep ==
    ASSUME TypeInv, AdmittedOnce, Somewhere, [Next]_vars
    PROVE  Somewhere'
  <1>1. CASE ~SchedulerRun /\ ~GeneratorRun
    BY <1>1, AdmissionFrame, ArgumentsFixed DEF admissionVars, Somewhere, Place, In
  <1> QED
    BY <1>1, SomewhereScheduler, SomewhereGenerator

-----------------------------------------------------------------------------
(* Together: exactly one place.                                            *)

AdmissionInv == AdmittedOnce /\ Somewhere

LEMMA AdmissionInvInit == Init => AdmissionInv
  <1> SUFFICES ASSUME Init PROVE AdmissionInv
    OBVIOUS
  <1>1. pdata = NULL /\ processIndex = 1
    BY DEF Init, GeneratorInit
  <1> QED
    BY <1>1 DEF AdmissionInv, AdmittedOnce, Somewhere, Place, Entries

LEMMA OnePlace ==
    ASSUME Inv, AdmissionInv, NEW p \in Entries
    PROVE  Places(p) = 1
  <1>1. /\ p \in Procs /\ p \in Int /\ p # NULL /\ p \notin Marks
        /\ processIndex \in Int
    BY WorkloadFacts DEF Inv, TypeInv, TypeOK, KernelTypeOK, GeneratorTypeOK
  <1>2. Occurrences(waitList, p) = IF In(waitList, p) THEN 1 ELSE 0
    <2>1. \A i, j \in DOMAIN waitList : waitList[i] = p /\ waitList[j] = p => i = j
      BY DEF Inv, OnTheWay, WaitListFresh
    <2> QED
      BY <2>1, OccursOnce
  <1>3. Occurrences(pcbQueue, p) = IF In(pcbQueue, p) THEN 1 ELSE 0
    <2>1. \A i, j \in DOMAIN pcbQueue : pcbQueue[i] = p /\ pcbQueue[j] = p => i = j
      BY <1>1 DEF Inv, OnTheWay, MessagesFresh
    <2> QED
      BY <2>1, OccursOnce
  <1>4. Place(p)
    BY DEF AdmissionInv, Somewhere
  <1>5. p >= processIndex => stage[p] = "none"
    BY <1>1 DEF Inv, OnTheWay, Unborn
  <1>6. stage[p] = "none" => pcbState[p] = "none"
    BY <1>1 DEF Inv, OnTheWay, Unborn
  <1>7. In(waitList, p) => p < processIndex /\ stage[p] = "none"
    BY DEF Inv, OnTheWay, WaitListFresh, In
  <1>8. In(pcbQueue, p) => pcbState[p] = "none" /\ stage[p] # "none"
    BY <1>1 DEF Inv, OnTheWay, MessagesFresh, In
  <1>9. pdata = p => /\ p < processIndex /\ pcbState[p] = "none"
                     /\ ~In(waitList, p) /\ ~In(pcbQueue, p)
    BY <1>1 DEF AdmissionInv, AdmittedOnce
  <1> QED
    BY <1>1, <1>2, <1>3, <1>4, <1>5, <1>6, <1>7, <1>8, <1>9 DEF Places, Place

LEMMA AdmissionInvHolds == Spec => []AdmissionInv
  <1>1. Init => AdmissionInv
    BY AdmissionInvInit
  <1>2. Inv /\ Inv' /\ ExitsLast /\ AdmissionInv /\ [Next]_vars => AdmissionInv'
    BY AdmittedOnceStep, SomewhereStep DEF Inv, AdmissionInv
  <1> QED
    BY <1>1, <1>2, InvInductive, ExitsLastHolds, PTL DEF Spec

(* Every entry of the file is in exactly one place at any time: not yet    *)
(* arrived, waiting for memory, being forked, in one message, or in a PCB. *)
(* None is lost in the rotation of waitList or admitted twice.             *)
THEOREM NothingLostOrDuplicatedHolds == Spec => []NothingLostOrDuplicated
  <1>1. Inv /\ AdmissionInv => NothingLostOrDuplicated
    BY OnePlace DEF NothingLostOrDuplicated
  <1> QED
    BY <1>1, InvInductive, AdmissionInvHolds, PTL

-----------------------------------------------------------------------------
(* The end: the scheduler ends only when all is done, whatever the policy. *)

LEMMA ServiceInvHolds == Spec => []ServiceInv
  <1>1. Init => ServiceInv
    BY ServiceInit
  <1>2. Inv /\ ServiceInv /\ [Next]_vars => ServiceInv'
    BY ServiceStep
  <1> QED
    BY <1>1, <1>2, InvInductive, PTL DEF Spec

(* A finished process was waited for and is owed nothing.                  *)
Finished ==
    \A p \in Procs :
        pcbState[p] = "FINISHED" => stage[p] = "reaped" /\ remainingTime[p] = 0

(* No process that is READY drops out of the queue.                        *)
ReadyKept == \A p \in Procs : pcbState[p] = "READY" => In(readyQueue, p)

(* What is left when the scheduler has ended: nothing.                     *)
DoneInv ==
    spc = "done" =>
        /\ pgNoMore
        /\ termQueue = <<>>
        /\ \A p \in Entries : pcbState[p] = "FINISHED"
        /\ \A p \in Procs : held[p] = NoBlock

LEMMA EndInvInit == Init => Finished /\ ReadyKept /\ DoneInv
  BY DEF Init, KernelInit, SchedulerInit, Finished, ReadyKept, DoneInv

LEMMA EndContext ==
    ASSUME Inv
    PROVE  /\ readyQueue \in Seq(Entries)
           /\ Entries \subseteq Procs /\ NULL \notin Procs
           /\ currentProcess \in Entries \cup {NULL}
           /\ pcbState \in [Procs -> {"none", "READY", "RUNNING", "FINISHED"}]
           /\ remainingTime \in [Procs -> Int]
           /\ stage \in [Procs -> Stages]
           /\ pcbQueue \in Seq(Entries \cup Marks)
  BY WorkloadFacts DEF Inv, TypeInv, TypeOK, KernelTypeOK, SchedulerTypeOK

-----------------------------------------------------------------------------
(* The ready queue.                                                        *)

(* What pushToReadyQueue makes has the process and all that was there.     *)
LEMMA PushKeeps ==
    ASSUME readyQueue \in Seq(Entries), NEW p \in Entries, NEW r, pushToReadyQueue(p, r)
    PROVE  In(readyQueue', p) /\ \A q : In(readyQueue, q) => In(readyQueue', q)
  <1>1. PICK i \in 0..Len(readyQueue) :
          readyQueue' = SubSeq(readyQueue, 1, i) \o <<p>>
                          \o SubSeq(readyQueue, i + 1, Len(readyQueue))
    BY DEF pushToReadyQueue
  <1> DEFINE A == SubSeq(readyQueue, 1, i)
             B == SubSeq(readyQueue, i + 1, Len(readyQueue))
  <1>2. /\ A \in Seq(Entries) /\ B \in Seq(Entries)
        /\ Len(A) = i /\ Len(B) = Len(readyQueue) - i
        /\ \A k \in 1..i : A[k] = readyQueue[k]
        /\ \A k \in 1..Len(B) : B[k] = readyQueue[i + k]
    OBVIOUS
  <1>3. readyQueue' = (A \o <<p>>) \o B
    BY <1>1
  <1> HIDE DEF A, B
  <1>4. /\ A \o <<p>> \in Seq(Entries)
        /\ Len(A \o <<p>>) = i + 1
        /\ (A \o <<p>>)[i + 1] = p
        /\ \A k \in 1..i : (A \o <<p>>)[k] = A[k]
    BY <1>2
  <1>5. /\ DOMAIN readyQueue' = 1..(Len(readyQueue) + 1)
        /\ \A k \in 1..(i + 1) : readyQueue'[k] = (A \o <<p>>)[k]
        /\ \A k \in 1..Len(B) : readyQueue'[i + 1 + k] = B[k]
    BY <1>2, <1>3, <1>4
  <1>6. In(readyQueue', p)
    BY <1>4, <1>5 DEF In
  <1>7. ASSUME NEW j \in DOMAIN readyQueue PROVE In(readyQueue', readyQueue[j])
    <2>1. CASE j <= i
      <3>1. j \in 1..i /\ j \in DOMAIN readyQueue'
        BY <1>5, <1>7, <2>1
      <3>2. readyQueue'[j] = readyQueue[j]
        BY <1>2, <1>4, <1>5, <3>1
      <3> QED
        BY <3>1, <3>2 DEF In
    <2>2. CASE j > i
      <3>1. j - i \in 1..Len(B) /\ j + 1 \in DOMAIN readyQueue' /\ i + 1 + (j - i) = j + 1
            /\ i + (j - i) = j
        BY <1>2, <1>5, <1>7, <2>2
      <3>2. readyQueue'[j + 1] = readyQueue[j]
        BY <1>2, <1>5, <3>1
      <3> QED
        BY <3>1, <3>2 DEF In
    <2> QED
      BY <2>1, <2>2
  <1> QED
    BY <1>6, <1>7 DEF In

(* schedule() throws away only what is not READY, and takes out the first  *)
(* that is.                                                                *)
LEMMA AfterKeeps ==
    ASSUME readyQueue \in Seq(Entries), NEW i \in DOMAIN readyQueue, FirstReady(i),
           NEW p, In(readyQueue, p), pcbState[p] = "READY"
    PROVE  p = readyQueue[i] \/ In(AfterEntry(i), p)
  <1>1. PICK k \in DOMAIN readyQueue : readyQueue[k] = p
    BY DEF In
  <1>2. k >= i
    BY <1>1 DEF FirstReady
  <1>3. CASE k > i
    <2>1. k - i \in DOMAIN AfterEntry(i) /\ AfterEntry(i)[k - i] = p
      BY <1>1, <1>3 DEF AfterEntry
    <2> QED
      BY <2>1 DEF In
  <1> QED
    BY <1>1, <1>2, <1>3

(* A preempted process is put back before another one is chosen.           *)
LEMMA ReadyKeptScheduler ==
    ASSUME Inv, ServiceInv, ReadyKept, SchedulerRun
    PROVE  ReadyKept'
  <1> USE DEF SchedulerRun
  <1> SUFFICES ASSUME NEW p \in Procs, pcbState'[p] = "READY"
               PROVE  In(readyQueue', p)
    BY DEF ReadyKept
  <1>1. CASE UNCHANGED <<readyQueue, pcbState>>
    BY <1>1 DEF ReadyKept, In
  (* Steps that push a process.                                            *)
  <1>2. ASSUME NEW q \in Entries, NEW r, pushToReadyQueue(q, r) PROVE In(readyQueue', p)
    <2>1. In(readyQueue', q) /\ (In(readyQueue, p) => In(readyQueue', p))
      BY <1>2, EndContext, PushKeeps
    <2>2. p # q => pcbState[p] = "READY"
      BY <1>2, EndContext DEF pushToReadyQueue
    <2> QED
      BY <2>1, <2>2 DEF ReadyKept
  <1>3. CASE ReceiveProcess
    <2>1. PICK q : q = Head(pcbQueue) /\ q \notin Marks /\ pcbQueue # <<>>
                     /\ pushToReadyQueue(q, Work(q))
      BY <1>3 DEF ReceiveProcess
    <2>2. q \in Entries
      BY <2>1, EndContext, TailFacts
    <2> QED
      BY <1>2, <2>1, <2>2
  <1>4. CASE ExpireQuantum
    BY <1>1, <1>2, <1>4, EndContext DEF ExpireQuantum
  (* Steps that take one out.                                              *)
  <1>5. ASSUME NEW i \in DOMAIN readyQueue, FirstReady(i), readyQueue' = AfterEntry(i),
               pcbState'[readyQueue[i]] = "RUNNING",
               pcbState[p] = "READY"
        PROVE  In(readyQueue', p)
    <2>1. In(readyQueue, p)
      BY <1>5 DEF ReadyKept
    <2>2. p # readyQueue[i]
      BY <1>5
    <2> QED
      BY <1>5, <2>1, <2>2, EndContext, AfterKeeps
  <1>6. CASE SwitchProcess
    <2>1. PICK i \in DOMAIN readyQueue :
            /\ FirstReady(i) /\ readyQueue' = AfterEntry(i)
            /\ pcbState' = [pcbState EXCEPT ![currentProcess] = "READY",
                                            ![readyQueue[i]] = "RUNNING"]
      BY <1>6 DEF SwitchProcess
    <2>2. readyQueue[i] \in Procs /\ pcbState'[readyQueue[i]] = "RUNNING"
      BY <2>1, EndContext
    <2>3. spc = "switch" /\ currentProcess # NULL
      BY <1>6 DEF SwitchProcess, At, Inv, TypeInv, LoopsWellPlaced
    <2>4. pcbState[currentProcess] = "READY"
      BY <2>3 DEF ServiceInv
    <2>5. pcbState[p] = "READY"
      BY <2>1, <2>2, <2>4, EndContext
    <2> QED
      BY <1>5, <2>1, <2>2, <2>5
  <1>7. CASE KeepProcess
    <2>1. /\ pcbState' = [pcbState EXCEPT ![currentProcess] = "RUNNING"]
          /\ \/ \E i \in DOMAIN readyQueue :
                  FirstReady(i) /\ readyQueue[i] = currentProcess /\ readyQueue' = AfterEntry(i)
             \/ NoneReady
      BY <1>7 DEF KeepProcess
    <2>2. pcbState[p] = "READY" /\ p # currentProcess
      BY <2>1, EndContext
    <2>3. In(readyQueue, p)
      BY <2>2 DEF ReadyKept
    <2>4. ~NoneReady
      BY <2>2, <2>3 DEF NoneReady, In
    <2>5. PICK i \in DOMAIN readyQueue :
            FirstReady(i) /\ readyQueue[i] = currentProcess /\ readyQueue' = AfterEntry(i)
      BY <2>1, <2>4
    <2> QED
      BY <2>2, <2>3, <2>5, EndContext, AfterKeeps
  <1>8. CASE Dispatch
    <2>1. PICK i \in DOMAIN readyQueue :
            /\ FirstReady(i) /\ readyQueue' = AfterEntry(i)
            /\ pcbState' = [pcbState EXCEPT ![readyQueue[i]] = "RUNNING"]
      BY <1>8 DEF Dispatch
    <2>2. readyQueue[i] \in Procs /\ pcbState'[readyQueue[i]] = "RUNNING"
      BY <2>1, EndContext
    <2>3. pcbState[p] = "READY"
      BY <2>1, <2>2, EndContext
    <2> QED
      BY <1>5, <2>1, <2>2, <2>3
  <1>9. CASE EndIdleTick
    <2>1. NoneReady /\ pcbState' = pcbState
      BY <1>9 DEF EndIdleTick, pcbVars
    <2>2. In(readyQueue, p)
      BY <2>1 DEF ReadyKept
    <2> QED
      BY <2>1, <2>2 DEF NoneReady, In
  <1>10. CASE handleProcessExit
    <2>1. /\ pcbState' = [pcbState EXCEPT ![currentProcess] = "FINISHED"]
          /\ readyQueue' = readyQueue
      BY <1>10 DEF handleProcessExit
    <2>2. pcbState[p] = "READY"
      BY <2>1, EndContext
    <2> QED
      BY <2>1, <2>2 DEF ReadyKept
  <1>11. CASE BeginTick \/ fetchProcessFromQueue \/ ReceiveMark \/ EndBusyTick
    BY <1>1, <1>11 DEF BeginTick, fetchProcessFromQueue, ReceiveMark, EndBusyTick, pcbVars
  <1> QED
    BY <1>3, <1>4, <1>6, <1>7, <1>8, <1>9, <1>10, <1>11 DEF runScheduler

-----------------------------------------------------------------------------
(* Finished processes.                                                     *)

LEMMA FinishedScheduler ==
    ASSUME Inv, ServiceInv, Finished, SchedulerRun
    PROVE  Finished'
  <1> USE DEF SchedulerRun
  <1>0. stage' = stage
    BY DEF runScheduler, outsideScheduler, BeginTick, handleProcessExit,
           fetchProcessFromQueue, ReceiveProcess, ReceiveMark, ExpireQuantum, SwitchProcess,
           KeepProcess, Dispatch, EndBusyTick, EndIdleTick
  <1> SUFFICES ASSUME NEW p \in Procs, pcbState'[p] = "FINISHED"
               PROVE  stage[p] = "reaped" /\ remainingTime'[p] = 0
    BY <1>0 DEF Finished
  <1>1. CASE handleProcessExit
    <2>1. /\ Finishing /\ termQueue # <<>> /\ remainingTime' = remainingTime
          /\ pcbState' = [pcbState EXCEPT ![currentProcess] = "FINISHED"]
      BY <1>1 DEF handleProcessExit, Finishing, At
    <2>2. stage[currentProcess] = "reaped" /\ remainingTime[currentProcess] = 0
      BY <2>1 DEF Inv, OnTheProcessor, TerminationIsExpected, ServiceInv
    <2>3. p # currentProcess => pcbState[p] = "FINISHED"
      BY <2>1, EndContext
    <2> QED
      BY <2>1, <2>2, <2>3 DEF Finished
  <1>2. CASE BeginTick
    <2>1. pcbState[p] = "FINISHED" /\ spc = "top"
      BY <1>2 DEF BeginTick, pcbVars, At
    <2>2. p # currentProcess
      BY <2>1, EndContext DEF ServiceInv
    <2>3. remainingTime'[p] = remainingTime[p]
      BY <1>2, <2>2, EndContext DEF BeginTick
    <2> QED
      BY <2>1, <2>3 DEF Finished
  <1>3. CASE ReceiveProcess
    <2>1. PICK q : /\ q = Head(pcbQueue) /\ q \notin Marks /\ pcbQueue # <<>>
                   /\ pcbState' = [pcbState EXCEPT ![q] = "READY"]
                   /\ remainingTime' = [remainingTime EXCEPT ![q] = Work(q)]
      BY <1>3 DEF ReceiveProcess, pushToReadyQueue
    <2>2. p # q /\ pcbState[p] = "FINISHED"
      BY <2>1, EndContext
    <2> QED
      BY <2>1, <2>2, EndContext DEF Finished
  <1>4. CASE \/ fetchProcessFromQueue \/ ReceiveMark \/ ExpireQuantum \/ SwitchProcess
             \/ KeepProcess \/ Dispatch \/ EndBusyTick \/ EndIdleTick
    <2>1. remainingTime' = remainingTime /\ pcbState[p] = "FINISHED"
      BY <1>4, EndContext
         DEF fetchProcessFromQueue, ReceiveMark, ExpireQuantum, pushToReadyQueue,
             SwitchProcess, KeepProcess, Dispatch, EndBusyTick, EndIdleTick, pcbVars
    <2> QED
      BY <2>1 DEF Finished
  <1> QED
    BY <1>1, <1>2, <1>3, <1>4 DEF runScheduler

LEMMA FinishedStep ==
    ASSUME Inv, ServiceInv, Finished, [Next]_vars
    PROVE  Finished'
  <1>1. CASE ~SchedulerRun
    <2>1. UNCHANGED <<pcbState, remainingTime>>
      BY <1>1
         DEF Next, vars, Tick, IncrementClk, Signal, SignalGroup, outsideClk, ProcessRun,
             ProcessStep, InheritedClkHandler, IgnoreClk, Park, Exec, Terminate,
             SchedulerSignal, schedulerClkHandler, EnterClkHandler, ReinstallClkHandler,
             KilledByTick, GeneratorSignal, pgClkHandler, checkChildProcess, EnterCheckChild,
             ReapProcess, ReapScheduler, LeaveCheckChild, GeneratorRun, runProcessGenerator,
             DownTick, DownScheduler, Arrive, NoArrival, Scan, forkProcess, Allocate,
             SendProcess, EndScan, EndRound, WaitScheduler, outsideGenerator, procVars,
             schedulerVars, pcbVars
    <2>2. ASSUME NEW p \in Procs, stage[p] = "reaped" PROVE stage'[p] = "reaped"
      <3>1. CASE forkProcess
        <4>1. stage[pdata] = "none" /\ stage' = [stage EXCEPT ![pdata] = "forked"]
          BY <3>1 DEF forkProcess, AtLoop, Inv, OnTheWay, AdmittedFresh, Admitting
        <4> QED
          BY <2>2, <4>1, EndContext
      <3>2. ASSUME NEW q \in Procs, ProcessRun(q) PROVE stage'[p] = "reaped"
        BY <2>2, <3>2, EndContext
           DEF ProcessRun, ProcessStep, Goes, InheritedClkHandler, IgnoreClk, Park, Exec,
               Terminate, procVars
      <3>3. ASSUME NEW q \in Procs, ReapProcess(q) PROVE stage'[p] = "reaped"
        BY <2>2, <3>3, EndContext DEF ReapProcess
      <3>4. CASE stage' = stage
        BY <2>2, <3>4
      <3>5. \/ forkProcess \/ stage' = stage
            \/ \E q \in Procs : ProcessRun(q) \/ ReapProcess(q)
        BY <1>1
           DEF Next, vars, Tick, IncrementClk, Signal, SignalGroup, outsideClk,
               SchedulerSignal, schedulerClkHandler, EnterClkHandler, ReinstallClkHandler,
               KilledByTick, GeneratorSignal, pgClkHandler, checkChildProcess,
               EnterCheckChild, ReapScheduler, LeaveCheckChild, GeneratorRun,
               runProcessGenerator, DownTick, DownScheduler, Arrive, NoArrival, Scan,
               Allocate, SendProcess, EndScan, EndRound, WaitScheduler, procVars
      <3> QED
        BY <3>1, <3>2, <3>3, <3>4, <3>5
    <2> QED
      BY <2>1, <2>2 DEF Finished
  <1> QED
    BY <1>1, FinishedScheduler

LEMMA ReadyKeptStep ==
    ASSUME Inv, ServiceInv, ReadyKept, [Next]_vars
    PROVE  ReadyKept'
  <1>1. CASE ~SchedulerRun
    <2>1. UNCHANGED <<pcbState, readyQueue>>
      BY <1>1
         DEF Next, vars, Tick, IncrementClk, Signal, SignalGroup, outsideClk, ProcessRun,
             SchedulerSignal, schedulerClkHandler, EnterClkHandler, ReinstallClkHandler,
             KilledByTick, GeneratorSignal, GeneratorRun, schedulerVars, pcbVars
    <2> QED
      BY <2>1 DEF ReadyKept, In
  <1> QED
    BY <1>1, ReadyKeptScheduler

-----------------------------------------------------------------------------
(* All done when the scheduler ends.                                       *)

(* The scheduler leaves its loop: with the last mark received, nothing     *)
(* queued and nothing current, every entry has been through it.            *)
LEMMA DoneReached ==
    ASSUME Inv, ServiceInv, ExitsLast, AdmissionInv, MemoryInv, Finished, ReadyKept,
           [Next]_vars, EndIdleTick, UNCHANGED <<generatorVars, argVars>>
    PROVE  DoneInv'
  <1> SUFFICES ASSUME spc' = "done" PROVE DoneInv'
    BY DEF DoneInv
  <1>1. /\ spc = "dispatch" /\ schedulerStage = "alive"
        /\ currentProcess = NULL /\ NoneReady /\ noMoreProcesses
        /\ UNCHANGED <<termQueue, pcbState>>
    BY DEF EndIdleTick, At, msgVars, pcbVars
  <1>2. pgc # "exited"
    BY <1>1 DEF ExitsLast
  <1>3. pgNoMore /\ pcbQueue = <<>>
    BY <1>1, <1>2 DEF Inv, RendezvousInv, Rendezvous, Idle
  <1>4. /\ processIndex > processCount /\ waitList = <<>>
        /\ ~Admitting
    BY <1>3 DEF Inv, RendezvousInv, LastRound, Admitting, InRound, Rendezvous
  <1>5. termQueue = <<>>
    BY <1>1 DEF Inv, OnTheProcessor, TerminationIsExpected, Finishing
  <1>6. processIndex \in Int /\ processCount \in Int
    BY WorkloadFacts DEF Inv, TypeInv, TypeOK, KernelTypeOK, GeneratorTypeOK
  <1>7. ASSUME NEW p \in Entries PROVE pcbState[p] = "FINISHED"
    <2>1. p \in Procs /\ p # NULL /\ p \in Int
      BY EndContext DEF Entries
    <2>2. ~(p >= processIndex)
      BY <1>4, <1>6 DEF Entries
    <2>3. ~In(waitList, p) /\ ~In(pcbQueue, p)
      BY <1>3, <1>4 DEF In
    <2>4. pdata # p
      BY <1>2, <1>4, <2>1 DEF AdmissionInv, AdmittedOnce
    <2>5. pcbState[p] # "none"
      BY <2>2, <2>3, <2>4 DEF AdmissionInv, Somewhere, Place
    <2>6. pcbState[p] # "READY"
      BY <1>1, <2>1 DEF ReadyKept, NoneReady, In
    <2>7. pcbState[p] # "RUNNING"
      BY <1>1, <2>1 DEF ServiceInv
    <2> QED
      BY <2>1, <2>5, <2>6, <2>7, EndContext
  <1>8. ASSUME NEW p \in Procs PROVE held[p] = NoBlock
    <2>1. stage[p] \in {"none", "reaped"}
      <3>1. CASE p \in Entries
        BY <1>7, <3>1 DEF Finished
      <3>2. CASE p \notin Entries
        <4>1. p > processCount /\ processIndex <= processCount + 1 /\ p \in Int
          BY <1>6, <3>2, ConstantsAssumption
             DEF Entries, Procs, Inv, TypeInv, TypeOK, GeneratorTypeOK
        <4>2. p >= processIndex
          BY <1>6, <4>1
        <4> QED
          BY <4>2 DEF Inv, OnTheWay, Unborn
      <3> QED
        BY <3>1, <3>2
    <2>2. ~Holds(p)
      BY <2>1 DEF Holds, Live
    <2> QED
      BY <1>2, <2>2 DEF MemoryInv, OnlyHolders
  <1>9. Entries' = Entries /\ pgNoMore' = pgNoMore /\ held' = held
    BY DEF Entries, processCount, argVars, generatorVars, loopVars
  <1> QED
    BY <1>1, <1>3, <1>5, <1>7, <1>8, <1>9 DEF DoneInv

(* The generator's last rounds and the ticks change nothing of it.         *)
LEMMA DoneKept ==
    ASSUME Inv, DoneInv, spc = "done", [Next]_vars
    PROVE  DoneInv'
  <1>1. ~SchedulerRun
    BY DEF SchedulerRun, runScheduler, At, BeginTick, handleProcessExit,
           fetchProcessFromQueue, ReceiveProcess, ReceiveMark, ExpireQuantum, SwitchProcess,
           KeepProcess, Dispatch, EndBusyTick, EndIdleTick
  <1>2. \A p \in Procs : stage[p] # "zombie"
    BY DEF Inv, OnTheProcessor, Finishing
  <1>3. pgNoMore /\ pgc # "allocate"
    BY DEF DoneInv, Inv, RendezvousInv, LastRound
  <1>4. \A p \in Procs : ~ReapProcess(p)
    BY <1>2 DEF ReapProcess
  <1>5. ~Allocate
    BY <1>3 DEF Allocate, AtLoop
  <1>6. /\ UNCHANGED <<termQueue, pcbState>> /\ pgNoMore'
        /\ held' = held \/ destroyMemory
    BY <1>1, <1>3, <1>4, <1>5
       DEF Next, vars, Tick, IncrementClk, Signal, SignalGroup, outsideClk, ProcessRun,
           ProcessStep, InheritedClkHandler, IgnoreClk, Park, Exec, Terminate,
           SchedulerSignal, schedulerClkHandler, EnterClkHandler, ReinstallClkHandler,
           KilledByTick, GeneratorSignal, pgClkHandler, checkChildProcess, EnterCheckChild,
           ReapScheduler, pgClearResources, LeaveCheckChild, GeneratorRun,
           runProcessGenerator, DownTick, DownScheduler, Arrive, NoArrival, Scan,
           forkProcess, SendProcess, EndScan, EndRound, WaitScheduler, msgVars,
           schedulerVars, pcbVars, generatorVars, loopVars
  <1> QED
    BY <1>6, ArgumentsFixed DEF DoneInv, destroyMemory

LEMMA DoneStep ==
    ASSUME Inv, ServiceInv, ExitsLast, AdmissionInv, MemoryInv, Finished, ReadyKept,
           DoneInv, [Next]_vars
    PROVE  DoneInv'
  <1>1. CASE spc = "done"
    BY <1>1, DoneKept
  <1>2. CASE spc # "done" /\ ~SchedulerRun
    <2>1. spc' = spc
      BY <1>2
         DEF Next, vars, Tick, IncrementClk, Signal, SignalGroup, outsideClk, ProcessRun,
             SchedulerSignal, schedulerClkHandler, EnterClkHandler, ReinstallClkHandler,
             KilledByTick, GeneratorSignal, GeneratorRun, schedulerVars
    <2> QED
      BY <1>2, <2>1 DEF DoneInv
  <1>3. CASE SchedulerRun /\ ~EndIdleTick
    <2>1. spc' # "done" \/ spc' = spc
      BY <1>3
         DEF SchedulerRun, runScheduler, BeginTick, handleProcessExit, fetchProcessFromQueue,
             ReceiveProcess, ReceiveMark, ExpireQuantum, SwitchProcess, KeepProcess, Dispatch,
             EndBusyTick
    <2> QED
      BY <1>1, <2>1 DEF DoneInv
  <1>4. CASE SchedulerRun /\ EndIdleTick
    BY <1>4, DoneReached DEF SchedulerRun
  <1> QED
    BY <1>1, <1>2, <1>3, <1>4

(* The scheduler ends only when every entry of the file has been admitted, *)
(* served for all of its running time, waited for and freed: it mistakes   *)
(* neither a queue that is empty for the moment nor an idle tick for the   *)
(* end, and leaves no message and no memory behind.                        *)
THEOREM EndsWhenAllDoneHolds == Spec => []EndsWhenAllDone
  <1>1. Init => Finished /\ ReadyKept /\ DoneInv
    BY EndInvInit
  <1>2. Inv /\ ServiceInv /\ ExitsLast /\ AdmissionInv /\ MemoryInv
          /\ Finished /\ ReadyKept /\ DoneInv /\ [Next]_vars
          => Finished' /\ ReadyKept' /\ DoneInv'
    BY FinishedStep, ReadyKeptStep, DoneStep
  <1>3. ASSUME Inv, Finished, DoneInv PROVE EndsWhenAllDone
    <2> SUFFICES ASSUME spc = "done" PROVE EndsWhenAllDone
      BY DEF EndsWhenAllDone
    <2>1. /\ pgNoMore /\ termQueue = <<>>
          /\ \A p \in Entries : pcbState[p] = "FINISHED"
          /\ \A p \in Procs : held[p] = NoBlock
      BY <1>3 DEF DoneInv
    <2>2. processIndex = processCount + 1
      <3>1. processIndex > processCount
        BY <1>3, <2>1 DEF Inv, RendezvousInv, LastRound
      <3>2. processIndex \in 1..(processCount + 1) /\ processCount \in Int
        BY <1>3, WorkloadFacts DEF Inv, TypeInv, TypeOK, KernelTypeOK, GeneratorTypeOK
      <3> QED
        BY <3>1, <3>2
    <2>3. \A p \in Entries : stage[p] = "reaped" /\ remainingTime[p] = 0
      BY <1>3, <2>1, EndContext DEF Finished
    <2> QED
      BY <2>1, <2>2, <2>3 DEF EndsWhenAllDone
  <1> QED
    BY <1>1, <1>2, <1>3, InvInductive, ServiceInvHolds, ExitsLastHolds, AdmissionInvHolds,
       MemoryInvHolds, PTL DEF Spec
=============================================================================
