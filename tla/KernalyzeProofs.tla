--------------------------- MODULE KernalyzeProofs ---------------------------
(***************************************************************************)
(* Proofs about Kernalyze for every input file, policy, quantum, memory    *)
(* size and clock bound, with and without overrun.                         *)
(***************************************************************************)
EXTENDS Kernalyze, TLAPS

(* The names a proof needs for the entries of an input file.               *)
LEMMA WorkloadFacts ==
    ASSUME processesArray \in Workloads
    PROVE  /\ processCount \in Nat
           /\ processCount > 0
           /\ Entries \subseteq Procs
           /\ Entries \subseteq Int
           /\ \A p \in Entries : processesArray[p] \in ProcessData
           /\ NULL \notin Procs
           /\ Marks \cap Procs = {}
           /\ Marks \subseteq Int
  BY ConstantsAssumption, WorkloadsAssumption
     DEF processCount, Entries, Procs, NULL, Marks, EndOfTick, EndOfInput

(* Where the loops are decides which process variables are in use.         *)
LoopsWellPlaced ==
    /\ pgc \in {"fork", "allocate", "send"} => pdata # NULL
    /\ pgc \in {"scan", "fork", "allocate", "send"} => waitLeft <= Len(waitList)
    /\ spc \in {"finish", "finishresumed", "switch"} => currentProcess # NULL

TypeInv == TypeOK /\ LoopsWellPlaced

LEMMA TypeInvInit == Init => TypeInv
  <1> SUFFICES ASSUME Init PROVE TypeInv
    OBVIOUS
  <1>1. processesArray \in Workloads
    BY DEF Init, KernelInit, ReadProcessesFile
  <1>2. KernelTypeOK
    BY <1>1, ConstantsAssumption
       DEF Init, KernelInit, ParseCommandLineArgs, KernelTypeOK, Stages
  <1>3. ClkTypeOK
    BY DEF Init, ClkInit, ClkTypeOK
  <1>4. SchedulerTypeOK
    BY DEF Init, SchedulerInit, SchedulerTypeOK
  <1>5. GeneratorTypeOK
    <2>1. processIndex \in 1..(processCount + 1)
      BY <1>1, WorkloadFacts DEF Init, GeneratorInit
    <2>2. held \in [Procs -> Blocks \cup {NoBlock}]
      BY DEF Init, GeneratorInit, MemoryInit
    <2> QED
      BY <2>1, <2>2 DEF Init, GeneratorInit, GeneratorTypeOK, MemoryTypeOK
  <1>7. FlagsTypeOK
    BY DEF Init, KernelInit, SchedulerInit, GeneratorInit, FlagsTypeOK
  <1>6. LoopsWellPlaced
    BY DEF Init, SchedulerInit, GeneratorInit, LoopsWellPlaced
  <1> QED
    BY <1>2, <1>3, <1>4, <1>5, <1>6, <1>7 DEF TypeInv, TypeOK

-----------------------------------------------------------------------------
(* Every step leaves the arguments of the run alone.                       *)
LEMMA ArgumentsFixed ==
    ASSUME [Next]_vars
    PROVE  /\ UNCHANGED argVars
           /\ processCount' = processCount
           /\ Entries' = Entries
  <1>1. UNCHANGED argVars
    BY DEF Next, vars, Tick, Signal, ProcessRun, SchedulerSignal, SchedulerRun,
           GeneratorSignal, GeneratorRun, outsideClk
  <1> QED
    BY <1>1 DEF argVars, processCount, Entries

(* The flags stay Boolean.                                                 *)
LEMMA FlagsStep ==
    ASSUME FlagsTypeOK, [Next]_vars
    PROVE  FlagsTypeOK'
  <1> USE DEF FlagsTypeOK, clkWord, sigVars, argVars, schedulerVars, generatorVars,
          handlerVars, counterVars, pcbVars, loopVars
  <1>1. CASE Tick
    BY <1>1 DEF Tick, IncrementClk, outsideClk
  <1>2. CASE Signal
    BY <1>2 DEF Signal, SignalGroup, outsideClk
  <1>3. ASSUME NEW p \in Procs, ProcessRun(p) PROVE FlagsTypeOK'
    BY <1>3 DEF ProcessRun, ProcessStep, InheritedClkHandler, IgnoreClk, Park, Exec, Terminate
  <1>4. CASE SchedulerSignal
    BY <1>4 DEF SchedulerSignal, schedulerClkHandler, EnterClkHandler, ReinstallClkHandler,
                KilledByTick
  <1>5. CASE SchedulerRun
    BY <1>5 DEF SchedulerRun, runScheduler, outsideScheduler, BeginTick, handleProcessExit,
                fetchProcessFromQueue, ReceiveProcess, ReceiveMark, ExpireQuantum,
                SwitchProcess, KeepProcess, Dispatch, EndBusyTick, EndIdleTick
  <1>6. CASE GeneratorSignal
    BY <1>6 DEF GeneratorSignal, outsideGenerator, pgClkHandler, checkChildProcess,
                EnterCheckChild, ReapProcess, WaitsAgain, ReapScheduler, pgClearResources,
                LeaveCheckChild
  <1>7. CASE GeneratorRun
    BY <1>7 DEF GeneratorRun, outsideGenerator, runProcessGenerator, DownTick, DownScheduler,
                Arrive, NoArrival, Scan, forkProcess, Allocate, SendProcess, EndScan,
                EndRound, WaitScheduler
  <1>8. CASE UNCHANGED vars
    BY <1>8 DEF vars
  <1> QED
    BY <1>1, <1>2, <1>3, <1>4, <1>5, <1>6, <1>7, <1>8 DEF Next

(* The type invariant without the flags, which FlagsStep looks after.      *)
UnflaggedTypes ==
    KernelTypeOK /\ ClkTypeOK /\ SchedulerTypeOK /\ GeneratorTypeOK /\ LoopsWellPlaced

LEMMA ClkTypes ==
    ASSUME TypeInv, Tick \/ Signal, UNCHANGED argVars, Entries' = Entries
    PROVE  UnflaggedTypes'
  <1> USE DEF TypeInv, TypeOK, UnflaggedTypes, KernelTypeOK, ClkTypeOK, SchedulerTypeOK,
          GeneratorTypeOK, MemoryTypeOK, LoopsWellPlaced, argVars, clkWord, semVars, msgVars,
          procVars, sigVars, outsideClk, schedulerVars, handlerVars, counterVars, pcbVars,
          generatorVars, loopVars
  <1>1. CASE Tick
    BY <1>1 DEF Tick, IncrementClk, processCount
  <1>2. CASE Signal
    BY <1>2 DEF Signal, SignalGroup, SignalTargets, processCount
  <1> QED
    BY <1>1, <1>2

LEMMA ProcessTypes ==
    ASSUME TypeInv, NEW p \in Procs, ProcessRun(p), UNCHANGED argVars, Entries' = Entries
    PROVE  UnflaggedTypes'
  <1> USE DEF TypeInv, TypeOK, UnflaggedTypes, KernelTypeOK, ClkTypeOK, SchedulerTypeOK,
          GeneratorTypeOK, MemoryTypeOK, LoopsWellPlaced, argVars, clkWord, semVars, msgVars,
          procVars, sigVars, ProcessRun, schedulerVars, handlerVars, counterVars, pcbVars,
          generatorVars, loopVars, processCount, Stages
  <1>1. CASE InheritedClkHandler(p)
    BY <1>1 DEF InheritedClkHandler
  <1>2. CASE IgnoreClk(p)
    BY <1>2 DEF IgnoreClk
  <1>3. CASE Park(p)
    BY <1>3 DEF Park
  <1>4. CASE Exec(p)
    BY <1>4 DEF Exec
  <1>5. CASE Terminate(p)
    BY <1>5 DEF Terminate
  <1> QED
    BY <1>1, <1>2, <1>3, <1>4, <1>5 DEF ProcessStep

LEMMA SchedulerSignalTypes ==
    ASSUME TypeInv, SchedulerSignal, UNCHANGED argVars, Entries' = Entries
    PROVE  UnflaggedTypes'
  <1> USE DEF TypeInv, TypeOK, UnflaggedTypes, KernelTypeOK, ClkTypeOK, SchedulerTypeOK,
          GeneratorTypeOK, MemoryTypeOK, LoopsWellPlaced, argVars, clkWord, semVars, msgVars,
          procVars, sigVars, SchedulerSignal, schedulerVars, handlerVars, counterVars, pcbVars,
          generatorVars, loopVars, processCount
  <1>1. CASE EnterClkHandler
    BY <1>1 DEF EnterClkHandler
  <1>2. CASE ReinstallClkHandler
    BY <1>2 DEF ReinstallClkHandler
  <1>3. CASE KilledByTick
    BY <1>3 DEF KilledByTick
  <1> QED
    BY <1>1, <1>2, <1>3 DEF schedulerClkHandler

(* What schedule() leaves and hands out, and what pushToReadyQueue makes.  *)
LEMMA QueueRest ==
    ASSUME readyQueue \in Seq(Entries), NEW i \in DOMAIN readyQueue
    PROVE  readyQueue[i] \in Entries /\ AfterEntry(i) \in Seq(Entries)
  BY DEF AfterEntry

LEMMA QueuePush ==
    ASSUME readyQueue \in Seq(Entries), NEW p \in Entries, NEW r \in Int,
           pushToReadyQueue(p, r)
    PROVE  readyQueue' \in Seq(Entries)
  <1>1. PICK i \in 0..Len(readyQueue) :
          readyQueue' = SubSeq(readyQueue, 1, i) \o <<p>>
                          \o SubSeq(readyQueue, i + 1, Len(readyQueue))
    BY DEF pushToReadyQueue
  <1>2. /\ SubSeq(readyQueue, 1, i) \in Seq(Entries)
        /\ SubSeq(readyQueue, i + 1, Len(readyQueue)) \in Seq(Entries)
        /\ <<p>> \in Seq(Entries)
    OBVIOUS
  <1> QED
    BY <1>1, <1>2

LEMMA WaitIsInt ==
    ASSUME processesArray \in Workloads, schedulerCurrentClk \in Int,
           remainingTime \in [Procs -> Int], NEW p \in Entries
    PROVE  WaitAtResume(p) \in Int
  <1>1. /\ processesArray[p].arriveTime \in Int
        /\ processesArray[p].runningTime \in Int
    BY WorkloadFacts DEF ProcessData
  <1>2. remainingTime[p] \in Int
    BY WorkloadFacts
  <1> QED
    BY <1>1, <1>2 DEF WaitAtResume

LEMMA SchedulerRunTypes ==
    ASSUME TypeInv, SchedulerRun, UNCHANGED argVars, Entries' = Entries
    PROVE  UnflaggedTypes'
  <1> USE DEF TypeInv, TypeOK, UnflaggedTypes, KernelTypeOK, ClkTypeOK, SchedulerTypeOK,
          GeneratorTypeOK, MemoryTypeOK, LoopsWellPlaced, argVars, clkWord, semVars, msgVars,
          procVars, sigVars, SchedulerRun, outsideScheduler, handlerVars, counterVars, pcbVars,
          generatorVars, loopVars, processCount, At
  <1>0. /\ Entries \subseteq Procs
        /\ NULL \notin Entries
        /\ Marks \cap Entries = {}
        /\ \A p \in Entries : processesArray[p] \in ProcessData
    BY WorkloadFacts
  <1>1. CASE BeginTick
    <2>1. CASE currentProcess = NULL
      BY <1>1, <2>1 DEF BeginTick
    <2>2. CASE currentProcess # NULL
      <3>1. currentProcess \in Procs
        BY <1>0, <2>2
      <3>2. remainingTime' \in [Procs -> Int]
        BY <1>1, <2>2, <3>1 DEF BeginTick
      <3> QED
        BY <1>1, <2>2, <3>2 DEF BeginTick
    <2> QED
      BY <2>1, <2>2
  <1>2. CASE handleProcessExit
    <2>1. currentProcess \in Procs
      BY <1>0, <1>2 DEF handleProcessExit
    <2>2. termQueue' \in Seq(Procs)
      BY <1>2 DEF handleProcessExit
    <2>3. sumWait' \in Int
      BY <1>2, <2>1 DEF handleProcessExit
    <2> QED
      BY <1>2, <2>1, <2>2, <2>3 DEF handleProcessExit
  <1>3. CASE fetchProcessFromQueue
    BY <1>3 DEF fetchProcessFromQueue
  <1>4. CASE ReceiveProcess
    <2>1. Head(pcbQueue) \in Entries /\ Tail(pcbQueue) \in Seq(Entries \cup Marks)
      BY <1>4 DEF ReceiveProcess
    <2>2. Work(Head(pcbQueue)) \in Int
      BY <1>0, <2>1 DEF Work, ProcessData
    <2>3. readyQueue' \in Seq(Entries)
      BY <1>4, <2>1, <2>2, QueuePush DEF ReceiveProcess
    <2> QED
      BY <1>0, <1>4, <2>1, <2>2, <2>3 DEF ReceiveProcess, pushToReadyQueue
  <1>5. CASE ReceiveMark
    BY <1>5 DEF ReceiveMark
  <1>6. CASE ExpireQuantum
    <2>1. readyQueue' \in Seq(Entries)
      BY <1>0, <1>6, QueuePush DEF ExpireQuantum
    <2> QED
      BY <1>6, <2>1 DEF ExpireQuantum, pushToReadyQueue
  <1>7. CASE SwitchProcess
    <2>1. PICK i \in DOMAIN readyQueue :
            /\ pcbState' = [pcbState EXCEPT ![currentProcess] = "READY",
                                            ![readyQueue[i]] = "RUNNING"]
            /\ stopped' = Exchange(currentProcess, readyQueue[i])
            /\ currentProcess' = readyQueue[i]
            /\ Resumed(readyQueue[i])
            /\ readyQueue' = AfterEntry(i)
            /\ spc' \in {"finishresumed", "dispatch"}
      BY <1>7 DEF SwitchProcess
    <2>2. readyQueue[i] \in Entries /\ readyQueue' \in Seq(Entries)
      BY <2>1, QueueRest
    <2>3. currentProcess \in Procs
      BY <1>0, <1>7 DEF SwitchProcess
    <2>4. WaitAtResume(readyQueue[i]) \in Int
      BY <2>2, WaitIsInt
    <2> QED
      BY <1>0, <1>7, <2>1, <2>2, <2>3, <2>4 DEF SwitchProcess, Exchange, Resumed
  <1>8. CASE KeepProcess
    <2>1. ASSUME readyQueue' = <<>> PROVE readyQueue' \in Seq(Entries)
      BY <2>1
    <2>2. ASSUME NEW i \in DOMAIN readyQueue, readyQueue' = AfterEntry(i)
          PROVE  readyQueue' \in Seq(Entries)
      BY <2>2, QueueRest
    <2>3. \/ NoneReady /\ readyQueue' = <<>>
          \/ \E i \in DOMAIN readyQueue : readyQueue' = AfterEntry(i)
      BY <1>8 DEF KeepProcess
    <2>4. readyQueue' \in Seq(Entries)
      BY <2>1, <2>2, <2>3
    <2> QED
      BY <1>8, <2>4 DEF KeepProcess
  <1>9. CASE Dispatch
    <2>1. PICK i \in DOMAIN readyQueue :
            /\ pcbState' = [pcbState EXCEPT ![readyQueue[i]] = "RUNNING"]
            /\ stopped' = stopped \ {readyQueue[i]}
            /\ currentProcess' = readyQueue[i]
            /\ Resumed(readyQueue[i])
            /\ readyQueue' = AfterEntry(i)
            /\ spc' \in {"finishresumed", "dispatch"}
      BY <1>9 DEF Dispatch
    <2>2. readyQueue[i] \in Entries /\ readyQueue' \in Seq(Entries)
      BY <2>1, QueueRest
    <2>3. WaitAtResume(readyQueue[i]) \in Int
      BY <2>2, WaitIsInt
    <2> QED
      BY <1>0, <1>9, <2>1, <2>2, <2>3 DEF Dispatch, Resumed
  <1>10. CASE EndBusyTick
    BY <1>10 DEF EndBusyTick
  <1>11. CASE EndIdleTick
    BY <1>11 DEF EndIdleTick
  <1> QED
    BY <1>1, <1>2, <1>3, <1>4, <1>5, <1>6, <1>7, <1>8, <1>9, <1>10, <1>11 DEF runScheduler

LEMMA AllocatorTypes ==
    ASSUME MemoryTypeOK, NEW p \in Procs, NEW n,
           allocateMemory(p, n) \/ freeMemory(p)
    PROVE  MemoryTypeOK'
  <1>1. FreeBlocks(n) \subseteq Blocks
    BY DEF FreeBlocks
  <1> QED
    BY <1>1 DEF MemoryTypeOK, allocateMemory, freeMemory

LEMMA MemoryDestroyed ==
    ASSUME destroyMemory
    PROVE  MemoryTypeOK'
  BY DEF MemoryTypeOK, destroyMemory

LEMMA GeneratorSignalTypes ==
    ASSUME TypeInv, GeneratorSignal, UNCHANGED argVars, Entries' = Entries
    PROVE  UnflaggedTypes'
  <1> USE DEF TypeInv, TypeOK, UnflaggedTypes, KernelTypeOK, ClkTypeOK, SchedulerTypeOK,
          GeneratorTypeOK, LoopsWellPlaced, argVars, clkWord, semVars, msgVars,
          procVars, sigVars, GeneratorSignal, outsideGenerator, schedulerVars, handlerVars,
          counterVars, pcbVars, loopVars, processCount
  <1>1. ASSUME UNCHANGED held PROVE MemoryTypeOK'
    BY <1>1 DEF MemoryTypeOK
  <1>2. CASE pgClkHandler
    BY <1>1, <1>2 DEF pgClkHandler
  <1>3. CASE EnterCheckChild
    BY <1>1, <1>3 DEF EnterCheckChild
  <1>4. ASSUME NEW p \in Procs, ReapProcess(p) PROVE UnflaggedTypes'
    <2>1. MemoryTypeOK'
      BY <1>4, AllocatorTypes DEF ReapProcess
    <2> QED
      BY <1>4, <2>1 DEF ReapProcess, Stages
  <1>5. CASE ReapScheduler
    <2>1. MemoryTypeOK'
      BY <1>5, MemoryDestroyed DEF ReapScheduler, pgClearResources
    <2> QED
      BY <1>5, <2>1 DEF ReapScheduler, pgClearResources
  <1>6. CASE LeaveCheckChild
    BY <1>1, <1>6 DEF LeaveCheckChild
  <1> QED
    BY <1>2, <1>3, <1>4, <1>5, <1>6 DEF checkChildProcess

LEMMA GeneratorRunTypes ==
    ASSUME TypeInv, GeneratorRun, UNCHANGED argVars, Entries' = Entries
    PROVE  UnflaggedTypes'
  <1> USE DEF TypeInv, TypeOK, UnflaggedTypes, KernelTypeOK, ClkTypeOK, SchedulerTypeOK,
          GeneratorTypeOK, LoopsWellPlaced, argVars, clkWord, semVars, msgVars,
          procVars, sigVars, GeneratorRun, outsideGenerator, schedulerVars, handlerVars,
          counterVars, pcbVars, loopVars, AtLoop
  <1>0. /\ Entries \subseteq Procs
        /\ NULL \notin Entries
        /\ processCount' = processCount
        /\ processCount \in Nat
    BY WorkloadFacts DEF processCount
  <1>1. ASSUME UNCHANGED held PROVE MemoryTypeOK'
    BY <1>1 DEF MemoryTypeOK
  <1>2. CASE DownTick
    BY <1>0, <1>1, <1>2 DEF DownTick, AfterTick
  <1>3. CASE DownScheduler
    BY <1>0, <1>1, <1>3 DEF DownScheduler
  <1>4. CASE Arrive
    <2>1. processIndex \in Entries /\ processIndex' \in 1..(processCount + 1)
      BY <1>0, <1>4 DEF Arrive, ArrivesNow, Entries
    <2>2. waitList' \in Seq(Entries)
      BY <1>4, <2>1 DEF Arrive
    <2>3. /\ UNCHANGED <<outsideGenerator, clkAlive, pgSem, pgSchedulerSem, msgVars, stage,
                          sigVars, schedulerStage, pgc, pgCurrentClk, waitLeft, pdata, held>>
          /\ pgc = "arrive"
      BY <1>4 DEF Arrive
    <2> QED
      <3>1. GeneratorTypeOK'
        BY <1>0, <1>1, <2>1, <2>2, <2>3
      <3>2. KernelTypeOK' /\ ClkTypeOK' /\ SchedulerTypeOK'
        BY <2>3
      <3>3. LoopsWellPlaced'
        BY <2>3
      <3> QED
        BY <3>1, <3>2, <3>3
  <1>5. CASE NoArrival
    BY <1>0, <1>1, <1>5 DEF NoArrival, waitCount
  <1>6. CASE Scan
    <2>1. /\ Head(waitList) \in Entries
          /\ Tail(waitList) \in Seq(Entries)
          /\ Len(Tail(waitList)) = Len(waitList) - 1
          /\ Requeue \in Seq(Entries)
          /\ Len(Requeue) = Len(waitList)
      BY <1>6 DEF Scan, Requeue
    <2>2. /\ waitList' \in Seq(Entries)
          /\ pdata' \in Entries \cup {NULL}
          /\ pgc' \in {"scan", "fork"}
          /\ pgc' = "fork" => pdata' # NULL
      BY <1>0, <1>6, <2>1 DEF Scan
    <2>3. waitLeft' \in Int /\ waitLeft' <= Len(waitList')
      BY <1>6, <2>1 DEF Scan
    <2>4. UNCHANGED <<outsideGenerator, clkAlive, pgSem, pgSchedulerSem, msgVars, stage,
                      sigVars, schedulerStage, pgCurrentClk, processIndex, held>>
      BY <1>6 DEF Scan
    <2> QED
      BY <1>0, <1>1, <1>6, <2>2, <2>3, <2>4
  <1>7. CASE forkProcess
    BY <1>0, <1>1, <1>7 DEF forkProcess, Stages
  <1>8. CASE Allocate
    <2>1. MemoryTypeOK'
      BY <1>0, <1>8, AllocatorTypes DEF Allocate
    <2> QED
      BY <1>0, <1>8, <2>1 DEF Allocate
  <1>9. CASE SendProcess
    <2>1. pcbQueue' \in Seq(Entries \cup Marks)
      BY <1>9 DEF SendProcess, sendProcesstoScheduler
    <2> QED
      BY <1>0, <1>1, <1>9, <2>1 DEF SendProcess
  <1>10. CASE EndScan
    BY <1>0, <1>1, <1>10 DEF EndScan
  <1>11. CASE EndRound
    <2>1. pcbQueue' \in Seq(Entries \cup Marks)
      <3>1. /\ Append(pcbQueue, EndOfTick) \in Seq(Entries \cup Marks)
            /\ Append(pcbQueue, EndOfInput) \in Seq(Entries \cup Marks)
        BY DEF Marks
      <3> QED
        BY <1>11, <3>1 DEF EndRound, sendProcesstoScheduler
    <2> QED
      BY <1>0, <1>1, <1>11, <2>1 DEF EndRound
  <1>12. CASE WaitScheduler
    BY <1>0, <1>1, <1>12 DEF WaitScheduler
  <1> QED
    BY <1>2, <1>3, <1>4, <1>5, <1>6, <1>7, <1>8, <1>9, <1>10, <1>11, <1>12
       DEF runProcessGenerator

LEMMA TypeInvStep ==
    ASSUME TypeInv, [Next]_vars
    PROVE  TypeInv'
  <1>1. FlagsTypeOK'
    BY FlagsStep DEF TypeInv, TypeOK
  <1>2. UNCHANGED argVars /\ Entries' = Entries
    BY ArgumentsFixed
  <1>3. ASSUME UNCHANGED vars PROVE UnflaggedTypes'
    BY <1>2, <1>3
       DEF TypeInv, TypeOK, UnflaggedTypes, KernelTypeOK, ClkTypeOK, SchedulerTypeOK,
           GeneratorTypeOK, MemoryTypeOK, LoopsWellPlaced, processCount, vars, argVars,
           clkWord, semVars, msgVars, procVars, sigVars, schedulerVars, handlerVars,
           counterVars, pcbVars, generatorVars, loopVars
  <1>4. UnflaggedTypes'
    BY <1>2, <1>3, ClkTypes, ProcessTypes, SchedulerSignalTypes, SchedulerRunTypes,
       GeneratorSignalTypes, GeneratorRunTypes DEF Next
  <1> QED
    BY <1>1, <1>4 DEF TypeInv, TypeOK, UnflaggedTypes

(* Every variable keeps its type, and the entries in it are entries of the *)
(* input file, in every behaviour of every instance.                       *)
THEOREM TypeCorrect == Spec => []TypeOK
  <1>1. Spec => []TypeInv
    BY TypeInvInit, TypeInvStep, PTL DEF Spec
  <1>2. TypeInv => TypeOK
    BY DEF TypeInv
  <1> QED
    BY <1>1, <1>2, PTL

-----------------------------------------------------------------------------
(* The rendezvous.  All that can disturb it is a step of the generator's   *)
(* loop, or one of the scheduler's three steps at the queue of messages.   *)

RendezvousVars ==
    <<processesArray, spc, noMoreProcesses, pgSchedulerSem, pcbQueue, pgc, pgNoMore,
      processIndex, waitList>>

RendezvousInv == Rendezvous /\ LastRound

LEMMA RendezvousInit == Init => RendezvousInv
  BY DEF Init, KernelInit, SchedulerInit, GeneratorInit, RendezvousInv, Rendezvous, Idle,
         InRound, LastRound

LEMMA RendezvousFrame ==
    ASSUME RendezvousInv, UNCHANGED RendezvousVars
    PROVE  RendezvousInv'
  BY DEF RendezvousInv, RendezvousVars, Rendezvous, Requested, Serving, Answered, Idle,
         InRound, LastRound, processCount

LEMMA RendezvousScheduler ==
    ASSUME TypeInv, RendezvousInv, SchedulerRun
    PROVE  RendezvousInv'
  <1> USE DEF RendezvousInv, InRound
  <1>0. /\ pcbQueue \in Seq(Entries \cup Marks)
        /\ pgSchedulerSem \in Nat
        /\ UNCHANGED <<processesArray, pgc, pgNoMore, processIndex, waitList>>
    BY DEF TypeInv, TypeOK, KernelTypeOK, SchedulerRun, argVars, generatorVars, loopVars
  <1>1. LastRound'
    BY <1>0 DEF LastRound, processCount
  <1>2. CASE fetchProcessFromQueue
    BY <1>0, <1>1, <1>2
       DEF fetchProcessFromQueue, At, Rendezvous, Idle, Requested, LastRound, msgVars
  <1>3. CASE ReceiveProcess
    <2>1. /\ pcbQueue # <<>>
          /\ Head(pcbQueue) \notin Marks
          /\ pcbQueue' = Tail(pcbQueue)
          /\ spc = "receive"
          /\ UNCHANGED <<pgSchedulerSem, spc, noMoreProcesses>>
      BY <1>3 DEF ReceiveProcess, At
    <2>2. /\ Len(pcbQueue') = Len(pcbQueue) - 1
          /\ \A i \in DOMAIN pcbQueue' : pcbQueue'[i] = pcbQueue[i + 1]
          /\ \A i \in DOMAIN pcbQueue' : i + 1 \in DOMAIN pcbQueue
          /\ Head(pcbQueue) = pcbQueue[1]
          /\ pcbQueue' \in Seq(Entries \cup Marks)
      BY <1>0, <2>1
    <2>3. CASE Serving
      BY <1>0, <1>1, <2>1, <2>2, <2>3 DEF Rendezvous, Serving
    <2>4. CASE Answered
      <3>1. Len(pcbQueue) > 1
        BY <1>0, <2>1, <2>2, <2>4 DEF Answered
      <3>2. pcbQueue' # <<>> /\ pcbQueue'[Len(pcbQueue')] = pcbQueue[Len(pcbQueue)]
        BY <1>0, <2>1, <2>2, <3>1
      <3>3. \A i \in DOMAIN pcbQueue' : pcbQueue'[i] \in Marks <=> i = Len(pcbQueue')
        BY <1>0, <2>1, <2>2, <2>4, <3>1 DEF Answered
      <3> QED
        BY <1>0, <1>1, <2>1, <2>4, <3>2, <3>3 DEF Rendezvous, Answered
    <2> QED
      BY <1>0, <1>1, <2>1, <2>3, <2>4 DEF Rendezvous, Requested
  <1>4. CASE ReceiveMark
    <2>1. /\ pcbQueue # <<>>
          /\ Head(pcbQueue) \in Marks
          /\ pcbQueue' = Tail(pcbQueue)
          /\ spc = "receive"
          /\ spc' = "quantum"
          /\ noMoreProcesses' <=> Head(pcbQueue) = EndOfInput
          /\ pgSchedulerSem' = pgSchedulerSem
      BY <1>4 DEF ReceiveMark, At
    <2>2. 1 \in DOMAIN pcbQueue /\ pcbQueue[1] \in Marks /\ Head(pcbQueue) = pcbQueue[1]
      BY <1>0, <2>1
    <2>3. pgc = "exited" \/ Answered
      BY <2>1, <2>2 DEF Rendezvous, Serving, Requested
    <2>4. CASE Answered
      <3>1. Len(pcbQueue) = 1
        BY <2>2, <2>4 DEF Answered
      <3>2. pcbQueue' = <<>>
        BY <1>0, <2>1, <3>1
      <3> QED
        BY <1>0, <1>1, <2>1, <2>2, <2>4, <3>1, <3>2 DEF Answered, Rendezvous, Idle
    <2> QED
      BY <1>0, <1>1, <2>3, <2>4 DEF Rendezvous
  <1>5. ASSUME UNCHANGED <<noMoreProcesses, pgSchedulerSem, pcbQueue>>,
               spc # "receive", spc' # "receive"
        PROVE  RendezvousInv'
    BY <1>0, <1>1, <1>5 DEF Rendezvous, Idle
  <1> QED
    BY <1>2, <1>3, <1>4, <1>5
       DEF SchedulerRun, runScheduler, At, msgVars, BeginTick, handleProcessExit,
           ExpireQuantum, SwitchProcess, KeepProcess, Dispatch, EndBusyTick, EndIdleTick

LEMMA RendezvousGenerator ==
    ASSUME TypeInv, RendezvousInv, GeneratorRun
    PROVE  RendezvousInv'
  <1> USE DEF RendezvousInv, InRound, AtLoop
  <1>0. /\ pcbQueue \in Seq(Entries \cup Marks)
        /\ pgSchedulerSem \in Nat
        /\ UNCHANGED <<processesArray, spc, noMoreProcesses>>
        /\ processCount' = processCount
    BY DEF TypeInv, TypeOK, KernelTypeOK, GeneratorRun, argVars, schedulerVars, processCount
  <1>1. CASE DownTick
    BY <1>0, <1>1
       DEF DownTick, AfterTick, LastRound, Rendezvous, Requested, Serving, Answered, Idle,
           msgVars, loopVars
  <1>2. CASE DownScheduler
    <2>1. /\ ~pgNoMore /\ ~pgNoMore'
          /\ pgc = "downscheduler" /\ pgc' = "arrive"
          /\ pgSchedulerSem > 0 /\ pgSchedulerSem' = pgSchedulerSem - 1
          /\ pcbQueue' = pcbQueue
      BY <1>2 DEF DownScheduler, LastRound, loopVars, msgVars
    <2>2. LastRound'
      BY <2>1 DEF LastRound
    <2>3. spc = "receive" /\ ~noMoreProcesses /\ Requested
      BY <1>0, <2>1 DEF Rendezvous, Serving, Answered, Idle
    <2> QED
      BY <1>0, <2>1, <2>2, <2>3 DEF Rendezvous, Requested, Serving
  <1>3. ASSUME InRound, InRound', UNCHANGED <<pgSchedulerSem, pcbQueue, pgNoMore>>
        PROVE  Rendezvous'
    BY <1>0, <1>3 DEF Rendezvous, Requested, Serving, Answered, Idle
  <1>4. CASE Arrive
    <2>1. LastRound'
      <3>1. processIndex <= processCount /\ pgNoMore' = pgNoMore /\ pgc' = "arrive"
        BY <1>4 DEF Arrive, ArrivesNow
      <3>2. processIndex \in Int /\ processCount \in Int
        BY WorkloadFacts DEF TypeInv, TypeOK, KernelTypeOK, GeneratorTypeOK
      <3> QED
        BY <3>1, <3>2 DEF LastRound
    <2> QED
      BY <1>3, <1>4, <2>1 DEF Arrive, msgVars
  <1>5. CASE NoArrival
    BY <1>0, <1>3, <1>5 DEF NoArrival, LastRound, msgVars
  <1>6. CASE Scan
    <2>1. waitLeft > 0 /\ waitLeft <= Len(waitList) /\ waitLeft \in Int
      BY <1>6 DEF Scan, TypeInv, TypeOK, GeneratorTypeOK, LoopsWellPlaced
    <2>2. waitList # <<>>
      BY <2>1 DEF TypeInv, TypeOK, GeneratorTypeOK
    <2>3. /\ UNCHANGED <<pgSchedulerSem, pcbQueue, pgNoMore>>
          /\ pgc' \in {"scan", "fork"} /\ pgc = "scan"
      BY <1>6 DEF Scan, msgVars
    <2> QED
      BY <1>3, <2>2, <2>3 DEF LastRound
  <1>7. CASE forkProcess
    BY <1>0, <1>3, <1>7 DEF forkProcess, LastRound, msgVars, loopVars
  <1>8. CASE Allocate
    BY <1>0, <1>3, <1>8 DEF Allocate, LastRound, msgVars, loopVars
  <1>9. ASSUME InRound, ~pgNoMore PROVE spc = "receive" /\ ~noMoreProcesses /\ Serving
    BY <1>0, <1>9 DEF Rendezvous, Requested, Answered, Idle
  <1>10. ASSUME NEW m \in Entries \cup Marks, pcbQueue' = Append(pcbQueue, m)
         PROVE  /\ Len(pcbQueue') = Len(pcbQueue) + 1
                /\ DOMAIN pcbQueue' = DOMAIN pcbQueue \cup {Len(pcbQueue')}
                /\ pcbQueue'[Len(pcbQueue')] = m
                /\ \A i \in DOMAIN pcbQueue :
                      pcbQueue'[i] = pcbQueue[i] /\ i # Len(pcbQueue')
                /\ pcbQueue' # <<>>
    BY <1>0, <1>10
  <1>11. CASE SendProcess
    <2>1. /\ pdata \in Entries /\ pdata \notin Marks
          /\ pcbQueue' = Append(pcbQueue, pdata)
          /\ UNCHANGED <<pgSchedulerSem, pgNoMore, processIndex, waitList>>
          /\ pgc = "send" /\ pgc' = "scan"
          /\ ~pgNoMore
      BY <1>11, WorkloadFacts
         DEF SendProcess, sendProcesstoScheduler, LastRound, TypeInv, TypeOK, KernelTypeOK,
             GeneratorTypeOK, LoopsWellPlaced
    <2>2. \A i \in DOMAIN pcbQueue' : pcbQueue'[i] \notin Marks
      BY <1>9, <1>10, <2>1 DEF Serving
    <2> QED
      BY <1>0, <1>9, <2>1, <2>2 DEF Rendezvous, Serving, LastRound
  <1>12. CASE EndScan
    BY <1>0, <1>3, <1>12 DEF EndScan, LastRound, msgVars, loopVars
  <1>13. CASE EndRound
    <2>0. pgc = "end" /\ UNCHANGED <<pgSchedulerSem, processIndex, waitList>>
      BY <1>13 DEF EndRound
    <2>1. ASSUME NEW m \in Marks, ~pgNoMore, pcbQueue' = Append(pcbQueue, m),
                 pgNoMore' <=> m = EndOfInput, pgc' \in {"down", "wait"}
          PROVE  Rendezvous'
      <3>1. \A i \in DOMAIN pcbQueue' : pcbQueue'[i] \in Marks <=> i = Len(pcbQueue')
        BY <1>9, <1>10, <2>0, <2>1 DEF Serving
      <3> QED
        BY <1>0, <1>9, <1>10, <2>0, <2>1, <3>1 DEF Rendezvous, Serving, Answered
    <2>2. CASE AllSent /\ ~pgNoMore
      BY <1>0, <1>13, <2>0, <2>1, <2>2
         DEF EndRound, AllSent, sendProcesstoScheduler, LastRound, Marks
    <2>3. CASE ~AllSent /\ ~pgNoMore
      BY <1>0, <1>13, <2>0, <2>1, <2>3
         DEF EndRound, sendProcesstoScheduler, LastRound, Marks, EndOfTick, EndOfInput
    <2>4. CASE pgNoMore
      BY <1>0, <1>13, <2>0, <2>4
         DEF EndRound, LastRound, Rendezvous, Requested, Serving, Answered, Idle
    <2> QED
      BY <2>2, <2>3, <2>4
  <1>14. CASE WaitScheduler
    BY <1>0, <1>14 DEF WaitScheduler, Rendezvous, LastRound, loopVars
  <1> QED
    BY <1>1, <1>2, <1>4, <1>5, <1>6, <1>7, <1>8, <1>11, <1>12, <1>13, <1>14
       DEF GeneratorRun, runProcessGenerator

LEMMA RendezvousSignal ==
    ASSUME RendezvousInv, GeneratorSignal
    PROVE  RendezvousInv'
  <1>0. UNCHANGED <<processesArray, spc, noMoreProcesses, pgSchedulerSem, pcbQueue, pgNoMore,
                    processIndex, waitList>>
    BY DEF GeneratorSignal, argVars, schedulerVars, pgClkHandler, checkChildProcess,
           EnterCheckChild, ReapProcess, ReapScheduler, LeaveCheckChild, loopVars, msgVars
  <1>1. ASSUME pgc' = pgc PROVE RendezvousInv'
    BY <1>0, <1>1, RendezvousFrame DEF RendezvousVars
  <1>2. CASE pgc' = "exited"
    BY <1>0, <1>2 DEF RendezvousInv, Rendezvous, LastRound, processCount
  <1>3. CASE pgc = "wait" /\ pgc' = "down"
    BY <1>0, <1>3
       DEF RendezvousInv, Rendezvous, Requested, Serving, Answered, Idle, InRound, LastRound,
           processCount
  <1> QED
    BY <1>1, <1>2, <1>3
       DEF GeneratorSignal, pgClkHandler, checkChildProcess, EnterCheckChild, ReapProcess,
           ReapScheduler, pgClearResources, LeaveCheckChild

LEMMA RendezvousStep ==
    ASSUME TypeInv, RendezvousInv, [Next]_vars
    PROVE  RendezvousInv'
  <1>1. CASE Tick \/ Signal
    BY <1>1, RendezvousFrame
       DEF RendezvousVars, Tick, IncrementClk, Signal, SignalGroup, outsideClk, argVars,
           semVars, msgVars, schedulerVars, generatorVars, loopVars
  <1>2. ASSUME NEW p \in Procs, ProcessRun(p) PROVE RendezvousInv'
    BY <1>2, RendezvousFrame
       DEF RendezvousVars, ProcessRun, ProcessStep, InheritedClkHandler, IgnoreClk, Park, Exec,
           Terminate, argVars, semVars, msgVars, schedulerVars, generatorVars, loopVars
  <1>3. CASE SchedulerSignal
    BY <1>3, RendezvousFrame
       DEF RendezvousVars, SchedulerSignal, schedulerClkHandler, EnterClkHandler,
           ReinstallClkHandler, KilledByTick, argVars, semVars, msgVars, schedulerVars,
           generatorVars, loopVars
  <1>4. CASE UNCHANGED vars
    BY <1>4, RendezvousFrame
       DEF RendezvousVars, vars, argVars, semVars, msgVars, schedulerVars, generatorVars, loopVars
  <1> QED
    BY <1>1, <1>2, <1>3, <1>4, RendezvousScheduler, RendezvousGenerator, RendezvousSignal
       DEF Next

(* At most one request of the scheduler is open, each is served by exactly *)
(* one round of the generator, and the round's messages are received       *)
(* before the next request, however the two and the ticks interleave.      *)
THEOREM RendezvousHolds == Spec => []Rendezvous
  <1>1. Spec => [](TypeInv /\ RendezvousInv)
    BY TypeInvInit, TypeInvStep, RendezvousInit, RendezvousStep, PTL DEF Spec
  <1>2. RendezvousInv => Rendezvous
    BY DEF RendezvousInv
  <1> QED
    BY <1>1, <1>2, PTL

-----------------------------------------------------------------------------
(* No process is in two places on its way from the file to its PCB.        *)

LEMMA OnTheWayInit == Init => OnTheWay
  BY DEF Init, KernelInit, SchedulerInit, GeneratorInit, OnTheWay, Unborn, WaitListFresh,
         AdmittedFresh, MessagesFresh, QueuedHavePCB, Admitting

(* Steps that at most move a child on from where it is.                    *)
LEMMA OnTheWayFrame ==
    ASSUME TypeInv, OnTheWay,
           UNCHANGED <<processIndex, waitList, pdata, pcbQueue, pcbState, readyQueue,
                       currentProcess>>,
           pgc' = pgc \/ pgc' \in {"exited", "down"},
           stage' = stage \/ \E p \in Procs, x \in Stages \ {"none"} :
                stage[p] # "none" /\ stage' = [stage EXCEPT ![p] = x]
    PROVE  OnTheWay'
  <1>1. stage \in [Procs -> Stages]
    BY DEF TypeInv, TypeOK, KernelTypeOK
  <1>2. \A q \in Procs : stage'[q] = "none" <=> stage[q] = "none"
    BY <1>1
  <1>3. Admitting' => Admitting /\ pgc' = pgc
    BY DEF Admitting
  <1>4. /\ \A i \in DOMAIN waitList : waitList[i] \in Procs
        /\ \A i \in DOMAIN pcbQueue : pcbQueue[i] \in Procs \cup Marks
        /\ Admitting => pdata \in Procs
    BY WorkloadFacts
       DEF TypeInv, TypeOK, KernelTypeOK, GeneratorTypeOK, LoopsWellPlaced, Admitting
  <1>5. Unborn' /\ QueuedHavePCB'
    BY <1>2 DEF OnTheWay, Unborn, QueuedHavePCB
  <1>6. WaitListFresh'
    BY <1>2, <1>3, <1>4 DEF OnTheWay, WaitListFresh
  <1>7. AdmittedFresh'
    BY <1>2, <1>3, <1>4 DEF OnTheWay, AdmittedFresh
  <1>8. MessagesFresh'
    BY <1>2, <1>3, <1>4 DEF OnTheWay, MessagesFresh
  <1> QED
    BY <1>5, <1>6, <1>7, <1>8 DEF OnTheWay

(* Steps of the scheduler, which give PCBs only to received messages.      *)
LEMMA QueueEntries ==
    ASSUME readyQueue \in Seq(Entries), NEW i \in DOMAIN readyQueue
    PROVE  \A k \in DOMAIN AfterEntry(i) :
              \E j \in DOMAIN readyQueue : AfterEntry(i)[k] = readyQueue[j]
  BY DEF AfterEntry

LEMMA PushedEntries ==
    ASSUME readyQueue \in Seq(Entries), NEW p \in Entries, NEW r,
           pushToReadyQueue(p, r)
    PROVE  \A k \in DOMAIN readyQueue' :
              readyQueue'[k] = p \/ \E j \in DOMAIN readyQueue : readyQueue'[k] = readyQueue[j]
  <1>1. PICK i \in 0..Len(readyQueue) :
          readyQueue' = SubSeq(readyQueue, 1, i) \o <<p>>
                          \o SubSeq(readyQueue, i + 1, Len(readyQueue))
    BY DEF pushToReadyQueue
  <1> DEFINE A == SubSeq(readyQueue, 1, i)
             B == SubSeq(readyQueue, i + 1, Len(readyQueue))
  <1>2. /\ A \in Seq(Entries) /\ B \in Seq(Entries)
        /\ Len(A) = i /\ Len(B) = Len(readyQueue) - i
        /\ \A k \in 1..i : A[k] = readyQueue[k]
        /\ \A k \in 1..Len(B) : B[k] = readyQueue[i + k]
    OBVIOUS
  <1>3. readyQueue' = (A \o <<p>>) \o B
    BY <1>1
  <1> HIDE DEF A, B
  <1>4. ASSUME NEW k \in DOMAIN readyQueue'
        PROVE  \/ readyQueue'[k] = p
               \/ \E j \in DOMAIN readyQueue : readyQueue'[k] = readyQueue[j]
    <2>1. Len(readyQueue') = Len(readyQueue) + 1 /\ k \in 1..(Len(readyQueue) + 1)
      BY <1>2, <1>3, <1>4
    <2>2. CASE k <= i
      BY <1>2, <1>3, <2>1, <2>2
    <2>3. CASE k = i + 1
      <3>1. /\ A \o <<p>> \in Seq(Entries)
            /\ Len(A \o <<p>>) = i + 1
            /\ (A \o <<p>>)[i + 1] = p
        BY <1>2
      <3>2. readyQueue'[k] = (A \o <<p>>)[k]
        BY <1>2, <1>3, <2>1, <2>3, <3>1
      <3> QED
        BY <2>3, <3>1, <3>2
    <2>4. CASE k > i + 1
      <3>1. readyQueue'[k] = B[k - i - 1]
        BY <1>2, <1>3, <2>1, <2>4
      <3>2. /\ k - i - 1 \in 1..(Len(readyQueue) - i) /\ i + (k - i - 1) = k - 1
            /\ k - 1 \in 1..Len(readyQueue)
        BY <2>1, <2>4
      <3>3. B[k - i - 1] = readyQueue[k - 1]
        BY <1>2, <3>2
      <3>4. k - 1 \in DOMAIN readyQueue
        BY <3>2
      <3> QED
        BY <3>1, <3>3, <3>4
    <2> QED
      BY <2>1, <2>2, <2>3, <2>4
  <1> QED
    BY <1>4

LEMMA OnTheWayScheduler ==
    ASSUME TypeInv, OnTheWay, SchedulerRun
    PROVE  OnTheWay'
  <1> USE DEF SchedulerRun, At
  <1>0. /\ UNCHANGED <<processIndex, waitList, pdata, pgc, stage>>
        /\ readyQueue \in Seq(Entries)
        /\ pcbQueue \in Seq(Entries \cup Marks)
        /\ Entries \subseteq Procs
        /\ NULL \notin Procs
        /\ pcbState \in [Procs -> {"none", "READY", "RUNNING", "FINISHED"}]
        /\ currentProcess \in Entries \cup {NULL}
        /\ \A i \in DOMAIN waitList : waitList[i] \in Procs
        /\ Admitting => pdata \in Procs
    <2>1. UNCHANGED <<processIndex, waitList, pdata, pgc>>
      BY DEF generatorVars, loopVars
    <2>2. stage' = stage
      BY DEF runScheduler, outsideScheduler, BeginTick,
             handleProcessExit, fetchProcessFromQueue, ReceiveProcess, ReceiveMark,
             ExpireQuantum, SwitchProcess, KeepProcess, Dispatch, EndBusyTick, EndIdleTick
    <2>3. /\ readyQueue \in Seq(Entries)
          /\ pcbQueue \in Seq(Entries \cup Marks)
          /\ pcbState \in [Procs -> {"none", "READY", "RUNNING", "FINISHED"}]
          /\ currentProcess \in Entries \cup {NULL}
      BY DEF TypeInv, TypeOK, KernelTypeOK, SchedulerTypeOK
    <2>4. Entries \subseteq Procs /\ NULL \notin Procs
      BY WorkloadFacts DEF TypeInv, TypeOK, KernelTypeOK
    <2>5. waitList \in Seq(Entries) /\ (Admitting => pdata # NULL)
            /\ pdata \in Entries \cup {NULL}
      BY DEF TypeInv, TypeOK, GeneratorTypeOK, LoopsWellPlaced, Admitting
    <2> QED
      BY <2>1, <2>2, <2>3, <2>4, <2>5
  <1>1. WaitListFresh'
    BY <1>0 DEF OnTheWay, WaitListFresh, Admitting
  (* All steps but a receipt only change states of processes with a PCB.   *)
  <1>2. ASSUME pcbQueue' = pcbQueue,
               \A p \in Procs : pcbState'[p] = "none" <=> pcbState[p] = "none",
               QueuedHavePCB'
        PROVE  OnTheWay'
    <2>1. Unborn'
      BY <1>0, <1>2 DEF OnTheWay, Unborn
    <2>2. AdmittedFresh'
      BY <1>0, <1>2 DEF OnTheWay, AdmittedFresh, Admitting
    <2>3. MessagesFresh'
      <3>1. \A i \in DOMAIN pcbQueue : pcbQueue[i] \notin Marks => pcbQueue[i] \in Procs
        BY <1>0
      <3> QED
        BY <1>0, <1>2, <3>1 DEF OnTheWay, MessagesFresh, Admitting
    <2> QED
      BY <1>1, <1>2, <2>1, <2>2, <2>3 DEF OnTheWay
  <1>3. ASSUME UNCHANGED <<pcbQueue, pcbState, readyQueue, currentProcess>>
        PROVE  OnTheWay'
    BY <1>2, <1>3 DEF OnTheWay, QueuedHavePCB
  <1>4. ASSUME NEW i \in DOMAIN readyQueue, readyQueue' = AfterEntry(i),
               \A p \in Procs : pcbState'[p] = "none" <=> pcbState[p] = "none"
        PROVE  \A k \in DOMAIN readyQueue' : pcbState'[readyQueue'[k]] # "none"
    BY <1>0, <1>4, QueueEntries DEF OnTheWay, QueuedHavePCB
  <1>5. CASE handleProcessExit
    <2>1. /\ pcbState' = [pcbState EXCEPT ![currentProcess] = "FINISHED"]
          /\ currentProcess' = NULL
          /\ currentProcess # NULL
          /\ UNCHANGED <<readyQueue, pcbQueue>>
      BY <1>5 DEF handleProcessExit, TypeInv, LoopsWellPlaced
    <2>2. pcbState[currentProcess] # "none"
      BY <2>1 DEF OnTheWay, QueuedHavePCB
    <2>3. \A p \in Procs : pcbState'[p] = "none" <=> pcbState[p] = "none"
      BY <1>0, <2>1, <2>2
    <2>4. QueuedHavePCB'
      BY <1>0, <2>1, <2>3 DEF OnTheWay, QueuedHavePCB
    <2> QED
      BY <1>2, <2>1, <2>3, <2>4
  <1>6. CASE ReceiveProcess
    <2> DEFINE p == Head(pcbQueue)
    <2>1. /\ pcbQueue # <<>> /\ p \notin Marks
          /\ pcbQueue' = Tail(pcbQueue)
          /\ pushToReadyQueue(p, Work(p))
          /\ currentProcess' = currentProcess
      BY <1>6 DEF ReceiveProcess
    <2>2. /\ 1 \in DOMAIN pcbQueue /\ p = pcbQueue[1] /\ p \in Entries
          /\ \A i \in DOMAIN pcbQueue' :
                pcbQueue'[i] = pcbQueue[i + 1] /\ i + 1 \in DOMAIN pcbQueue /\ i + 1 # 1
          /\ \A i, j \in DOMAIN pcbQueue' : i # j => i + 1 # j + 1
      BY <1>0, <2>1
    <2>3. pcbState' = [pcbState EXCEPT ![p] = "READY"]
      BY <2>1 DEF pushToReadyQueue
    <2>4. /\ pcbState[p] = "none" /\ stage[p] # "none"
          /\ Admitting => p # pdata
          /\ \A j \in DOMAIN pcbQueue : j # 1 => pcbQueue[j] # p
      BY <2>1, <2>2 DEF OnTheWay, MessagesFresh
    <2>5. \A k \in DOMAIN readyQueue' :
            readyQueue'[k] = p \/ \E j \in DOMAIN readyQueue : readyQueue'[k] = readyQueue[j]
      BY <1>0, <2>1, <2>2, PushedEntries
    <2> HIDE DEF p
    <2>6. Unborn'
      BY <1>0, <2>2, <2>3, <2>4 DEF OnTheWay, Unborn
    <2>7. AdmittedFresh'
      BY <1>0, <2>2, <2>3, <2>4 DEF OnTheWay, AdmittedFresh, Admitting
    <2>8. MessagesFresh'
      <3> SUFFICES ASSUME NEW i \in DOMAIN pcbQueue', pcbQueue'[i] \notin Marks
                   PROVE  /\ pcbState'[pcbQueue'[i]] = "none"
                          /\ stage'[pcbQueue'[i]] # "none"
                          /\ Admitting' => pcbQueue'[i] # pdata'
                          /\ \A j \in DOMAIN pcbQueue' : i # j => pcbQueue'[i] # pcbQueue'[j]
        BY DEF MessagesFresh
      <3>1. pcbQueue'[i] \in Procs
        BY <1>0, <2>2
      <3> QED
        BY <1>0, <2>2, <2>3, <2>4, <3>1 DEF OnTheWay, MessagesFresh, Admitting
    <2>9. QueuedHavePCB'
      <3>1. \A q \in Procs : pcbState[q] # "none" => pcbState'[q] # "none"
        BY <1>0, <2>2, <2>3
      <3>2. \A j \in DOMAIN readyQueue : readyQueue[j] \in Procs
        BY <1>0
      <3>3. p \in Procs /\ pcbState'[p] # "none"
        BY <1>0, <2>2, <2>3
      <3> QED
        BY <1>0, <2>1, <2>5, <3>1, <3>2, <3>3 DEF OnTheWay, QueuedHavePCB
    <2> QED
      BY <1>1, <2>6, <2>7, <2>8, <2>9 DEF OnTheWay
  <1>7. CASE ReceiveMark
    <2>1. /\ pcbQueue # <<>> /\ pcbQueue' = Tail(pcbQueue)
          /\ UNCHANGED <<currentProcess, readyQueue, pcbState>>
      BY <1>7 DEF ReceiveMark, pcbVars
    <2>2. /\ \A i \in DOMAIN pcbQueue' :
                pcbQueue'[i] = pcbQueue[i + 1] /\ i + 1 \in DOMAIN pcbQueue
          /\ \A i, j \in DOMAIN pcbQueue' : i # j => i + 1 # j + 1
      BY <1>0, <2>1
    <2>3. MessagesFresh'
      BY <1>0, <2>1, <2>2 DEF OnTheWay, MessagesFresh, Admitting
    <2> QED
      BY <1>0, <1>1, <2>1, <2>3
         DEF OnTheWay, Unborn, AdmittedFresh, QueuedHavePCB, Admitting
  <1>8. CASE ExpireQuantum
    <2>1. CASE UNCHANGED <<pcbState, readyQueue>>
      BY <1>3, <1>8, <2>1 DEF ExpireQuantum, msgVars
    <2>2. CASE /\ currentProcess # NULL
               /\ pushToReadyQueue(currentProcess, remainingTime[currentProcess])
      <3>1. /\ currentProcess \in Entries
            /\ UNCHANGED <<currentProcess, pcbQueue>>
        BY <1>0, <1>8, <2>2 DEF ExpireQuantum, msgVars
      <3>2. pcbState' = [pcbState EXCEPT ![currentProcess] = "READY"]
        BY <2>2 DEF pushToReadyQueue
      <3>3. \A q \in Procs : pcbState'[q] = "none" <=> pcbState[q] = "none"
        BY <1>0, <2>2, <3>1, <3>2 DEF OnTheWay, QueuedHavePCB
      <3>4. \A k \in DOMAIN readyQueue' :
              \/ readyQueue'[k] = currentProcess
              \/ \E j \in DOMAIN readyQueue : readyQueue'[k] = readyQueue[j]
        BY <1>0, <2>2, <3>1, PushedEntries
      <3>5. QueuedHavePCB'
        BY <1>0, <2>2, <3>1, <3>3, <3>4 DEF OnTheWay, QueuedHavePCB
      <3> QED
        BY <1>2, <3>1, <3>3, <3>5
    <2> QED
      BY <1>8, <2>1, <2>2 DEF ExpireQuantum
  <1>9. ASSUME NEW i \in DOMAIN readyQueue, readyQueue' = AfterEntry(i),
               currentProcess' \in {readyQueue[i], currentProcess},
               \A p \in Procs : pcbState'[p] = "none" <=> pcbState[p] = "none",
               pcbQueue' = pcbQueue
        PROVE  OnTheWay'
    <2>1. readyQueue[i] \in Procs /\ pcbState[readyQueue[i]] # "none"
      BY <1>0 DEF OnTheWay, QueuedHavePCB
    <2>2. QueuedHavePCB'
      BY <1>0, <1>4, <1>9, <2>1 DEF OnTheWay, QueuedHavePCB
    <2> QED
      BY <1>2, <1>9, <2>2
  <1>10. CASE SwitchProcess
    <2>1. PICK i \in DOMAIN readyQueue :
            /\ pcbState' = [pcbState EXCEPT ![currentProcess] = "READY",
                                            ![readyQueue[i]] = "RUNNING"]
            /\ currentProcess' = readyQueue[i]
            /\ readyQueue' = AfterEntry(i)
            /\ pcbQueue' = pcbQueue
      BY <1>10 DEF SwitchProcess, msgVars
    <2>2. currentProcess # NULL
      BY <1>10 DEF SwitchProcess, TypeInv, LoopsWellPlaced
    <2>3. /\ currentProcess \in Procs /\ pcbState[currentProcess] # "none"
          /\ readyQueue[i] \in Procs /\ pcbState[readyQueue[i]] # "none"
      BY <1>0, <2>2 DEF OnTheWay, QueuedHavePCB
    <2>4. \A p \in Procs : pcbState'[p] = "none" <=> pcbState[p] = "none"
      BY <1>0, <2>1, <2>3
    <2> QED
      BY <1>9, <2>1, <2>4
  <1>11. CASE KeepProcess
    <2>1. /\ currentProcess # NULL
          /\ pcbState' = [pcbState EXCEPT ![currentProcess] = "RUNNING"]
          /\ UNCHANGED <<currentProcess, pcbQueue>>
      BY <1>11 DEF KeepProcess, msgVars, TypeInv, LoopsWellPlaced
    <2>2. \A p \in Procs : pcbState'[p] = "none" <=> pcbState[p] = "none"
      BY <1>0, <2>1 DEF OnTheWay, QueuedHavePCB
    <2>3. CASE readyQueue' = <<>>
      <3>1. QueuedHavePCB'
        BY <1>0, <2>1, <2>2, <2>3 DEF OnTheWay, QueuedHavePCB
      <3> QED
        BY <1>2, <2>1, <2>2, <3>1
    <2>4. ASSUME NEW i \in DOMAIN readyQueue, readyQueue' = AfterEntry(i) PROVE OnTheWay'
      BY <1>9, <2>1, <2>2, <2>4
    <2> QED
      BY <1>11, <2>3, <2>4 DEF KeepProcess
  <1>12. CASE Dispatch
    <2>1. PICK i \in DOMAIN readyQueue :
            /\ pcbState' = [pcbState EXCEPT ![readyQueue[i]] = "RUNNING"]
            /\ currentProcess' = readyQueue[i]
            /\ readyQueue' = AfterEntry(i)
            /\ pcbQueue' = pcbQueue
      BY <1>12 DEF Dispatch, msgVars
    <2>2. readyQueue[i] \in Procs /\ pcbState[readyQueue[i]] # "none"
      BY <1>0 DEF OnTheWay, QueuedHavePCB
    <2>3. \A p \in Procs : pcbState'[p] = "none" <=> pcbState[p] = "none"
      BY <1>0, <2>1, <2>2
    <2> QED
      BY <1>9, <2>1, <2>3
  <1>13. CASE EndIdleTick
    <2>1. readyQueue' = <<>> /\ UNCHANGED <<pcbQueue, pcbState, currentProcess>>
      BY <1>13 DEF EndIdleTick, msgVars, pcbVars
    <2>2. QueuedHavePCB'
      BY <2>1 DEF OnTheWay, QueuedHavePCB
    <2> QED
      BY <1>2, <2>1, <2>2
  <1>14. CASE BeginTick \/ fetchProcessFromQueue \/ EndBusyTick
    BY <1>3, <1>14 DEF BeginTick, fetchProcessFromQueue, EndBusyTick, msgVars, pcbVars
  <1> QED
    BY <1>5, <1>6, <1>7, <1>8, <1>10, <1>11, <1>12, <1>13, <1>14 DEF runScheduler

(* Steps of the generator's loop, which move one entry at a time.          *)
LEMMA AppendFacts ==
    ASSUME NEW S, NEW s \in Seq(S), NEW m \in S
    PROVE  /\ Append(s, m) \in Seq(S)
           /\ Len(Append(s, m)) = Len(s) + 1
           /\ DOMAIN Append(s, m) = DOMAIN s \cup {Len(s) + 1}
           /\ Append(s, m)[Len(s) + 1] = m
           /\ \A i \in DOMAIN s : Append(s, m)[i] = s[i] /\ i # Len(s) + 1
  OBVIOUS

LEMMA TailFacts ==
    ASSUME NEW S, NEW s \in Seq(S), s # <<>>
    PROVE  /\ Tail(s) \in Seq(S)
           /\ Len(s) > 0
           /\ Head(s) = s[1] /\ Head(s) \in S /\ 1 \in DOMAIN s
           /\ \A i \in DOMAIN Tail(s) :
                Tail(s)[i] = s[i + 1] /\ i + 1 \in DOMAIN s /\ i + 1 # 1 /\ i \in Nat
  OBVIOUS

LEMMA OnTheWayGenerator ==
    ASSUME TypeInv, OnTheWay, GeneratorRun
    PROVE  OnTheWay'
  <1> USE DEF GeneratorRun, AtLoop
  <1>0. /\ UNCHANGED <<pcbState, readyQueue, currentProcess, processCount>>
        /\ waitList \in Seq(Entries)
        /\ pcbQueue \in Seq(Entries \cup Marks)
        /\ Entries \subseteq Procs /\ Procs \subseteq Int
        /\ Entries \cap Marks = {}
        /\ processIndex \in Int
        /\ stage \in [Procs -> Stages]
        /\ Admitting => pdata \in Entries
        /\ \A i \in DOMAIN waitList : waitList[i] \in Procs /\ waitList[i] \in Int
        /\ \A i \in DOMAIN pcbQueue : pcbQueue[i] \notin Marks => pcbQueue[i] \in Procs
    <2>1. UNCHANGED <<pcbState, readyQueue, currentProcess, processesArray>>
      BY DEF schedulerVars, argVars, pcbVars
    <2>2. /\ waitList \in Seq(Entries)
          /\ processIndex \in Int
          /\ Admitting => pdata \in Entries
      BY WorkloadFacts
         DEF TypeInv, TypeOK, KernelTypeOK, GeneratorTypeOK, LoopsWellPlaced, Admitting
    <2>3. pcbQueue \in Seq(Entries \cup Marks) /\ stage \in [Procs -> Stages]
      BY DEF TypeInv, TypeOK, KernelTypeOK
    <2>4. Entries \subseteq Procs /\ Procs \subseteq Int /\ Entries \cap Marks = {}
      BY WorkloadFacts DEF TypeInv, TypeOK, KernelTypeOK, Procs
    <2>5. \A i \in DOMAIN waitList : waitList[i] \in Procs /\ waitList[i] \in Int
      <3>1. \A i \in DOMAIN waitList : waitList[i] \in Entries
        BY <2>2
      <3> QED
        BY <2>4, <3>1
    <2>6. \A i \in DOMAIN pcbQueue : pcbQueue[i] \notin Marks => pcbQueue[i] \in Procs
      <3>1. \A i \in DOMAIN pcbQueue : pcbQueue[i] \in Entries \cup Marks
        BY <2>3
      <3> QED
        BY <2>4, <3>1
    <2> QED
      BY <2>1, <2>2, <2>3, <2>4, <2>5, <2>6 DEF processCount
  <1>1. QueuedHavePCB'
    BY <1>0 DEF OnTheWay, QueuedHavePCB
  <1>2. CASE DownTick \/ DownScheduler \/ NoArrival \/ EndScan \/ WaitScheduler
    <2>1. /\ UNCHANGED <<processIndex, waitList, pdata, pcbQueue, stage>>
          /\ pgc' \in {"arrive", "downscheduler", "scan", "end", "exited"}
      BY <1>2
         DEF DownTick, AfterTick, DownScheduler, NoArrival, EndScan, WaitScheduler, loopVars,
             msgVars
    <2> QED
      BY <1>0, <1>1, <2>1
         DEF OnTheWay, Unborn, WaitListFresh, AdmittedFresh, MessagesFresh, Admitting
  <1>3. CASE Arrive
    <2>1. /\ UNCHANGED <<pdata, pcbQueue, stage>>
          /\ pgc' = "arrive"
          /\ processIndex \in Entries
          /\ processIndex' = processIndex + 1
          /\ waitList' = Append(waitList, processIndex)
      BY <1>3, WorkloadFacts
         DEF Arrive, ArrivesNow, msgVars, TypeInv, TypeOK, KernelTypeOK, GeneratorTypeOK,
             Entries
    <2>2. stage[processIndex] = "none"
      BY <1>0, <2>1 DEF OnTheWay, Unborn
    <2>3. Unborn'
      BY <1>0, <2>1 DEF OnTheWay, Unborn
    <2>4. WaitListFresh'
      <3>1. \A i \in DOMAIN waitList : waitList[i] \in Int
        BY <1>0
      <3>2. /\ DOMAIN waitList' = DOMAIN waitList \cup {Len(waitList) + 1}
            /\ waitList'[Len(waitList) + 1] = processIndex
            /\ \A i \in DOMAIN waitList :
                 waitList'[i] = waitList[i] /\ i # Len(waitList) + 1
        BY <1>0, <2>1
      <3>3. \A i \in DOMAIN waitList :
              /\ waitList[i] < processIndex
              /\ stage[waitList[i]] = "none"
              /\ \A j \in DOMAIN waitList : i # j => waitList[i] # waitList[j]
        BY DEF OnTheWay, WaitListFresh
      <3>4. /\ processIndex < processIndex' /\ \A x \in Int : x < processIndex => x < processIndex'
            /\ \A x \in Int : x < processIndex => x # processIndex
        BY <1>0, <2>1
      <3>5. stage' = stage /\ ~Admitting'
        BY <2>1 DEF Admitting
      <3> QED
        BY <2>2, <3>1, <3>2, <3>3, <3>4, <3>5 DEF WaitListFresh
    <2>5. AdmittedFresh' /\ MessagesFresh'
      BY <1>0, <2>1 DEF OnTheWay, AdmittedFresh, MessagesFresh, Admitting
    <2> QED
      BY <1>1, <2>3, <2>4, <2>5 DEF OnTheWay
  <1>4. CASE Scan
    <2>1. /\ UNCHANGED <<pcbQueue, stage, processIndex>>
          /\ pgc = "scan"
          /\ waitList # <<>>
      <3>1. waitLeft > 0 /\ waitLeft <= Len(waitList) /\ waitLeft \in Int
        BY <1>4 DEF Scan, TypeInv, TypeOK, GeneratorTypeOK, LoopsWellPlaced
      <3> QED
        BY <1>0, <1>4, <3>1 DEF Scan, msgVars
    <2>2. /\ Head(waitList) \in Entries
          /\ Head(waitList) < processIndex
          /\ stage[Head(waitList)] = "none"
          /\ pcbState[Head(waitList)] = "none"
      <3>1. Head(waitList) = waitList[1] /\ 1 \in DOMAIN waitList /\ Head(waitList) \in Entries
        BY <1>0, <2>1
      <3>2. waitList[1] < processIndex /\ stage[waitList[1]] = "none"
        BY <3>1 DEF OnTheWay, WaitListFresh
      <3> QED
        BY <1>0, <3>1, <3>2 DEF OnTheWay, Unborn
    <2>3. Unborn'
      BY <1>0, <2>1 DEF OnTheWay, Unborn
    <2>4. /\ Tail(waitList) \in Seq(Entries)
          /\ \A i \in DOMAIN Tail(waitList) :
               /\ Tail(waitList)[i] < processIndex
               /\ stage[Tail(waitList)[i]] = "none"
               /\ Tail(waitList)[i] # Head(waitList)
               /\ \A j \in DOMAIN Tail(waitList) :
                     i # j => Tail(waitList)[i] # Tail(waitList)[j]
      <3>1. \A i, j \in DOMAIN Tail(waitList) : i # j => i + 1 # j + 1
        BY <1>0, <2>1, TailFacts
      <3> QED
        BY <1>0, <2>1, <3>1, TailFacts DEF OnTheWay, WaitListFresh
    <2>5. CASE /\ pdata' = Head(waitList)
               /\ waitList' = Tail(waitList)
               /\ pgc' = "fork"
      <3>1. WaitListFresh' /\ AdmittedFresh'
        BY <1>0, <2>1, <2>2, <2>4, <2>5 DEF WaitListFresh, AdmittedFresh, Admitting
      <3>2. MessagesFresh'
        BY <1>0, <2>1, <2>2, <2>5 DEF OnTheWay, MessagesFresh
      <3> QED
        BY <1>1, <2>3, <3>1, <3>2 DEF OnTheWay
    <2>6. CASE waitList' = Requeue /\ pgc' = "scan"
      <3>1. WaitListFresh'
        BY <1>0, <2>1, <2>2, <2>4, <2>6, AppendFacts DEF WaitListFresh, Requeue, Admitting
      <3>2. AdmittedFresh' /\ MessagesFresh'
        BY <1>0, <2>1, <2>6 DEF OnTheWay, AdmittedFresh, MessagesFresh, Admitting
      <3> QED
        BY <1>1, <2>3, <3>1, <3>2 DEF OnTheWay
    <2> QED
      BY <1>4, <2>5, <2>6 DEF Scan
  <1>5. CASE forkProcess
    <2>1. /\ stage' = [stage EXCEPT ![pdata] = "forked"]
          /\ pgc = "fork" /\ pgc' = "allocate"
          /\ UNCHANGED <<processIndex, waitList, pdata, pcbQueue>>
      BY <1>5 DEF forkProcess, loopVars, msgVars
    <2>2. /\ pdata \in Procs /\ pdata < processIndex
          /\ pcbState[pdata] = "none" /\ stage[pdata] = "none"
      BY <1>0, <2>1 DEF OnTheWay, AdmittedFresh, Admitting
    <2>3. /\ stage'[pdata] = "forked"
          /\ \A q \in Procs : stage[q] # "none" => stage'[q] # "none"
          /\ \A q \in Procs : q # pdata => stage'[q] = stage[q]
          /\ UNCHANGED <<processIndex, waitList, pdata, pcbQueue>>
          /\ Admitting /\ Admitting'
      BY <1>0, <2>1, <2>2 DEF Admitting
    <2>4. Unborn'
      BY <1>0, <2>1, <2>2, <2>3 DEF OnTheWay, Unborn
    <2>5. WaitListFresh'
      <3>1. \A i \in DOMAIN waitList : waitList[i] \in Procs
        BY <1>0
      <3> QED
        BY <2>3, <3>1 DEF OnTheWay, WaitListFresh
    <2>6. AdmittedFresh'
      BY <1>0, <2>1, <2>2, <2>3 DEF AdmittedFresh
    <2>7. MessagesFresh'
      <3>1. \A i \in DOMAIN pcbQueue : pcbQueue[i] \notin Marks => pcbQueue[i] \in Procs
        BY <1>0
      <3> QED
        BY <1>0, <2>3, <3>1 DEF OnTheWay, MessagesFresh
    <2> QED
      BY <1>1, <2>4, <2>5, <2>6, <2>7 DEF OnTheWay
  <1>6. CASE Allocate
    <2>1. /\ pgc = "allocate" /\ pgc' = "send"
          /\ UNCHANGED <<processIndex, waitList, pdata, pcbQueue, stage>>
      BY <1>6 DEF Allocate, loopVars, msgVars
    <2> QED
      BY <1>0, <1>1, <2>1
         DEF OnTheWay, Unborn, WaitListFresh, AdmittedFresh, MessagesFresh, Admitting
  <1>7. CASE SendProcess
    <2>1. /\ pgc = "send" /\ pgc' = "scan"
          /\ pcbQueue' = Append(pcbQueue, pdata)
          /\ UNCHANGED <<processIndex, waitList, stage>>
      BY <1>7 DEF SendProcess, sendProcesstoScheduler
    <2>2. /\ pdata \in Entries
          /\ pcbState[pdata] = "none" /\ stage[pdata] # "none"
          /\ \A i \in DOMAIN pcbQueue : pcbQueue[i] # pdata
      BY <1>0, <2>1 DEF OnTheWay, AdmittedFresh, MessagesFresh, Admitting
    <2>3. MessagesFresh'
      BY <1>0, <2>1, <2>2, AppendFacts DEF OnTheWay, MessagesFresh, Admitting
    <2>4. Unborn' /\ WaitListFresh' /\ AdmittedFresh'
      BY <1>0, <2>1 DEF OnTheWay, Unborn, WaitListFresh, AdmittedFresh, Admitting
    <2> QED
      BY <1>1, <2>3, <2>4 DEF OnTheWay
  <1>8. CASE EndRound
    <2>1. /\ pgc = "end" /\ pgc' \in {"wait", "down"}
          /\ UNCHANGED <<processIndex, waitList, pdata, stage>>
          /\ pcbQueue' = pcbQueue \/ \E m \in Marks : pcbQueue' = Append(pcbQueue, m)
      BY <1>8 DEF EndRound, sendProcesstoScheduler, Marks
    <2>2. MessagesFresh'
      <3>1. CASE pcbQueue' = pcbQueue
        BY <1>0, <2>1, <3>1 DEF OnTheWay, MessagesFresh, Admitting
      <3>2. ASSUME NEW m \in Marks, pcbQueue' = Append(pcbQueue, m) PROVE MessagesFresh'
        BY <1>0, <2>1, <3>2, AppendFacts DEF OnTheWay, MessagesFresh, Admitting
      <3> QED
        BY <2>1, <3>1, <3>2
    <2>3. Unborn' /\ WaitListFresh' /\ AdmittedFresh'
      BY <1>0, <2>1 DEF OnTheWay, Unborn, WaitListFresh, AdmittedFresh, Admitting
    <2> QED
      BY <1>1, <2>2, <2>3 DEF OnTheWay
  <1> QED
    BY <1>2, <1>3, <1>4, <1>5, <1>6, <1>7, <1>8 DEF runProcessGenerator

LEMMA OnTheWayStep ==
    ASSUME TypeInv, OnTheWay, [Next]_vars
    PROVE  OnTheWay'
  <1>1. CASE Tick \/ Signal \/ SchedulerSignal \/ UNCHANGED vars
    <2>1. UNCHANGED <<processIndex, waitList, pdata, pcbQueue, pcbState, readyQueue,
                      currentProcess, pgc, stage>>
      BY <1>1
         DEF Tick, IncrementClk, Signal, SignalGroup, outsideClk, SchedulerSignal,
             schedulerClkHandler, EnterClkHandler, ReinstallClkHandler, KilledByTick, vars,
             msgVars, procVars, schedulerVars, pcbVars, generatorVars, loopVars
    <2> QED
      BY <2>1, OnTheWayFrame
  <1>2. ASSUME NEW p \in Procs, ProcessRun(p) PROVE OnTheWay'
    <2>1. UNCHANGED <<processIndex, waitList, pdata, pcbQueue, pcbState, readyQueue,
                      currentProcess, pgc>>
      BY <1>2
         DEF ProcessRun, ProcessStep, InheritedClkHandler, IgnoreClk, Park, Exec, Terminate,
             msgVars, schedulerVars, pcbVars, generatorVars, loopVars
    <2>2. \/ stage' = stage
          \/ /\ stage[p] # "none"
             /\ \E x \in Stages \ {"none"} : stage' = [stage EXCEPT ![p] = x]
      BY <1>2
         DEF ProcessRun, ProcessStep, InheritedClkHandler, IgnoreClk, Park, Exec, Terminate,
             Goes, Stages, procVars
    <2> QED
      BY <2>1, <2>2, OnTheWayFrame
  <1>3. CASE GeneratorSignal
    <2>1. /\ UNCHANGED <<processIndex, waitList, pdata, pcbQueue, pcbState, readyQueue,
                         currentProcess>>
          /\ pgc' = pgc \/ pgc' \in {"exited", "down"}
      BY <1>3
         DEF GeneratorSignal, pgClkHandler, checkChildProcess, EnterCheckChild, ReapProcess,
             ReapScheduler, pgClearResources, LeaveCheckChild, msgVars, schedulerVars, pcbVars,
             loopVars
    <2>2. \/ stage' = stage
          \/ \E p \in Procs :
               stage[p] # "none" /\ stage' = [stage EXCEPT ![p] = "reaped"]
      BY <1>3
         DEF GeneratorSignal, pgClkHandler, checkChildProcess, EnterCheckChild, ReapProcess,
             ReapScheduler, LeaveCheckChild
    <2> QED
      BY <2>1, <2>2, OnTheWayFrame DEF Stages
  <1> QED
    BY <1>1, <1>2, <1>3, OnTheWayScheduler, OnTheWayGenerator DEF Next

-----------------------------------------------------------------------------
(* Who executes, who has exited, and what the termination queue says.      *)

Inv == TypeInv /\ RendezvousInv /\ OnTheWay /\ OnTheProcessor

LEMMA OnTheProcessorInit == Init => OnTheProcessor
  BY DEF Init, KernelInit, SchedulerInit, OnTheProcessor, OneProcessRuns,
         TerminationIsExpected

OnTheProcessorVars == <<spc, currentProcess, remainingTime, stage, stopped, termQueue>>

LEMMA OnTheProcessorFrame ==
    ASSUME OnTheProcessor, UNCHANGED OnTheProcessorVars
    PROVE  OnTheProcessor'
  BY DEF OnTheProcessorVars, OnTheProcessor, Finishing, OneProcessRuns, TerminationIsExpected

(* A child that exits was executing and had no work left: it is current,   *)
(* and the scheduler is waiting for it.                                    *)
LEMMA OnTheProcessorProcess ==
    ASSUME TypeInv, OnTheProcessor, NEW p \in Procs, ProcessRun(p)
    PROVE  OnTheProcessor'
  <1>0. /\ UNCHANGED <<spc, currentProcess, remainingTime, termQueue>>
        /\ stage \in [Procs -> Stages]
        /\ remainingTime \in [Procs -> Int]
        /\ stopped \subseteq Procs
    BY DEF ProcessRun, ProcessStep, InheritedClkHandler, IgnoreClk, Park, Exec, Terminate,
           schedulerVars, msgVars, procVars, TypeInv, TypeOK, KernelTypeOK
  <1>1. CASE InheritedClkHandler(p)
    BY <1>0, <1>1, OnTheProcessorFrame DEF InheritedClkHandler, procVars, OnTheProcessorVars
  <1>2. ASSUME NEW x, stage[p] \notin {"zombie", "reaped", "none"}, x # "zombie",
               stage' = [stage EXCEPT ![p] = x],
               x \in {"parked", "execed"} /\ p \notin stopped' => p = currentProcess,
               stopped \subseteq stopped'
        PROVE  OnTheProcessor'
    <2>1. stage'[p] = x /\ \A q \in Procs : q # p => stage'[q] = stage[q]
      BY <1>0, <1>2
    <2>2. OneProcessRuns'
      BY <1>0, <1>2, <2>1 DEF OnTheProcessor, OneProcessRuns
    <2>3. TerminationIsExpected'
      <3>1. CASE termQueue = <<>>
        BY <1>0, <3>1 DEF TerminationIsExpected
      <3>2. CASE termQueue # <<>>
        <4>1. currentProcess # p /\ stage[currentProcess] = "reaped"
          BY <1>2, <3>2 DEF OnTheProcessor, TerminationIsExpected
        <4>2. stage'[currentProcess] = stage[currentProcess]
          BY <1>0, <1>2, <4>1
        <4> QED
          BY <1>0, <3>2, <4>1, <4>2 DEF OnTheProcessor, TerminationIsExpected, Finishing
      <3> QED
        BY <3>1, <3>2
    <2>4. \A q \in Procs : stage'[q] = "zombie" => q = currentProcess /\ Finishing
      BY <1>2, <2>1 DEF OnTheProcessor
    <2> QED
      BY <1>0, <2>2, <2>3, <2>4 DEF OnTheProcessor, Finishing
  <1>3. CASE IgnoreClk(p)
    BY <1>2, <1>3 DEF IgnoreClk, Goes
  <1>4. CASE Park(p)
    BY <1>2, <1>4 DEF Park, Goes
  <1>5. CASE Exec(p)
    BY <1>2, <1>5 DEF Exec, Goes, OnTheProcessor, OneProcessRuns
  <1>6. CASE Terminate(p)
    <2>1. /\ stage[p] = "execed" /\ remainingTime[p] <= 0
          /\ stage' = [stage EXCEPT ![p] = "zombie"]
          /\ stopped' = stopped
          /\ p = currentProcess
      BY <1>6 DEF Terminate, Goes, WorkDone, OnTheProcessor, OneProcessRuns
    <2>2. Finishing
      BY <1>0, <2>1, WorkloadFacts
         DEF OnTheProcessor, TypeInv, TypeOK, KernelTypeOK
    <2>3. termQueue = <<>>
      BY <2>1 DEF OnTheProcessor, TerminationIsExpected
    <2>4. stage'[p] = "zombie" /\ \A q \in Procs : q # p => stage'[q] = stage[q]
      BY <1>0, <2>1
    <2>5. OneProcessRuns' /\ TerminationIsExpected'
      BY <1>0, <2>1, <2>3, <2>4 DEF OnTheProcessor, OneProcessRuns, TerminationIsExpected
    <2>6. \A q \in Procs : stage'[q] = "zombie" => q = currentProcess /\ Finishing
      BY <2>1, <2>2, <2>4 DEF OnTheProcessor
    <2> QED
      BY <1>0, <2>2, <2>5, <2>6 DEF OnTheProcessor, Finishing
  <1> QED
    BY <1>1, <1>3, <1>4, <1>5, <1>6 DEF ProcessRun, ProcessStep

(* The generator forks a child that nobody knew and reaps only the current *)
(* process, of which it then sends the only termination message.           *)
LEMMA OnTheProcessorGenerator ==
    ASSUME TypeInv, OnTheWay, OnTheProcessor, GeneratorRun \/ GeneratorSignal
    PROVE  OnTheProcessor'
  <1>0. /\ UNCHANGED <<spc, currentProcess, remainingTime, stopped>>
        /\ stage \in [Procs -> Stages]
    <2>1. UNCHANGED <<spc, currentProcess>>
      BY DEF GeneratorRun, GeneratorSignal, schedulerVars
    <2>2. UNCHANGED <<remainingTime, stopped>>
      BY DEF GeneratorRun, GeneratorSignal, pgClkHandler, checkChildProcess, EnterCheckChild,
             ReapProcess, ReapScheduler, LeaveCheckChild, runProcessGenerator, DownTick,
             DownScheduler, Arrive, NoArrival, Scan, forkProcess, Allocate, SendProcess,
             EndScan, EndRound, WaitScheduler, outsideGenerator
    <2>3. stage \in [Procs -> Stages]
      BY DEF TypeInv, TypeOK, KernelTypeOK
    <2> QED
      BY <2>1, <2>2, <2>3
  <1>1. CASE UNCHANGED <<stage, termQueue>>
    BY <1>0, <1>1, OnTheProcessorFrame DEF OnTheProcessorVars
  <1>2. CASE forkProcess
    <2>1. /\ stage' = [stage EXCEPT ![pdata] = "forked"]
          /\ termQueue' = termQueue
          /\ pgc = "fork"
      BY <1>2 DEF forkProcess, msgVars, AtLoop
    <2>2. stage[pdata] = "none"
      BY <2>1 DEF OnTheWay, AdmittedFresh, Admitting
    <2>3. /\ \A q \in Procs : stage'[q] = stage[q] \/ stage'[q] = "forked"
          /\ \A q : stage[q] = "reaped" /\ q \in Procs => stage'[q] = "reaped"
      BY <1>0, <2>1, <2>2
    <2>4. OneProcessRuns'
      BY <1>0, <2>3 DEF OnTheProcessor, OneProcessRuns
    <2>5. TerminationIsExpected'
      <3>1. termQueue # <<>> => currentProcess \in Procs
        BY DEF OnTheProcessor, TerminationIsExpected, TypeInv, TypeOK, KernelTypeOK
      <3> QED
        BY <1>0, <2>1, <2>3, <3>1 DEF OnTheProcessor, TerminationIsExpected, Finishing
    <2> QED
      BY <1>0, <2>3, <2>4, <2>5 DEF OnTheProcessor, Finishing
  <1>3. ASSUME NEW p \in Procs, ReapProcess(p) PROVE OnTheProcessor'
    <2>1. /\ stage[p] = "zombie"
          /\ stage' = [stage EXCEPT ![p] = "reaped"]
          /\ termQueue' = Append(termQueue, p)
      BY <1>3 DEF ReapProcess
    <2>2. p = currentProcess /\ Finishing
      BY <2>1 DEF OnTheProcessor
    <2>3. termQueue = <<>>
      BY <2>1, <2>2 DEF OnTheProcessor, TerminationIsExpected
    <2>4. stage'[p] = "reaped" /\ \A q \in Procs : q # p => stage'[q] = stage[q]
      BY <1>0, <2>1
    <2>5. termQueue' = <<p>>
      BY <2>1, <2>3
    <2>6. TerminationIsExpected' /\ OneProcessRuns'
      BY <1>0, <2>2, <2>4, <2>5
         DEF OnTheProcessor, OneProcessRuns, TerminationIsExpected, Finishing
    <2> QED
      BY <1>0, <2>4, <2>6 DEF OnTheProcessor, Finishing
  <1>4. UNCHANGED <<stage, termQueue>> \/ forkProcess \/ \E p \in Procs : ReapProcess(p)
    BY DEF GeneratorRun, GeneratorSignal, pgClkHandler, checkChildProcess, EnterCheckChild,
           ReapScheduler, LeaveCheckChild, runProcessGenerator, DownTick, DownScheduler,
           Arrive, NoArrival, Scan, Allocate, SendProcess, EndScan, EndRound, WaitScheduler,
           msgVars
  <1> QED
    BY <1>1, <1>2, <1>3, <1>4

(* The scheduler serves only a process that has work left, waits for the   *)
(* exit of one that has none, and never lets two be unstopped.             *)
LEMMA OnTheProcessorScheduler ==
    ASSUME TypeInv, OnTheWay, OnTheProcessor, SchedulerRun
    PROVE  OnTheProcessor'
  <1> USE DEF SchedulerRun, At
  <1>0. /\ stage' = stage
        /\ remainingTime \in [Procs -> Int]
        /\ stage \in [Procs -> Stages]
        /\ stopped \subseteq Procs
        /\ readyQueue \in Seq(Entries)
        /\ currentProcess \in Entries \cup {NULL}
        /\ Entries \subseteq Procs /\ NULL \notin Procs
    <2>1. stage' = stage
      BY DEF runScheduler, outsideScheduler, BeginTick,
             handleProcessExit, fetchProcessFromQueue, ReceiveProcess, ReceiveMark,
             ExpireQuantum, SwitchProcess, KeepProcess, Dispatch, EndBusyTick, EndIdleTick
    <2>2. /\ remainingTime \in [Procs -> Int]
          /\ stage \in [Procs -> Stages]
          /\ stopped \subseteq Procs
          /\ readyQueue \in Seq(Entries)
          /\ currentProcess \in Entries \cup {NULL}
      BY DEF TypeInv, TypeOK, KernelTypeOK, SchedulerTypeOK
    <2>3. Entries \subseteq Procs /\ NULL \notin Procs
      BY WorkloadFacts DEF TypeInv, TypeOK, KernelTypeOK
    <2> QED
      BY <2>1, <2>2, <2>3
  <1> DEFINE NothingExits == termQueue = <<>> /\ \A p \in Procs : stage[p] # "zombie"
  <1>1. ~Finishing => NothingExits
    BY DEF OnTheProcessor, TerminationIsExpected
  (* Steps that do not exchange processes.                                 *)
  <1>2. ASSUME ~Finishing, UNCHANGED <<currentProcess, stopped, termQueue>>,
               currentProcess # NULL => remainingTime'[currentProcess] > 0 \/ Finishing'
        PROVE  OnTheProcessor'
    <2>1. OneProcessRuns' /\ TerminationIsExpected'
      BY <1>0, <1>1, <1>2 DEF OnTheProcessor, OneProcessRuns, TerminationIsExpected
    <2> QED
      BY <1>0, <1>1, <1>2, <2>1 DEF OnTheProcessor
  <1>3. CASE BeginTick
    <2>1. /\ spc = "top" /\ UNCHANGED <<currentProcess, stopped, termQueue>>
          /\ ~Finishing
      BY <1>3 DEF BeginTick, msgVars, Finishing
    <2>2. CASE currentProcess # NULL
      <3>1. /\ remainingTime' = [remainingTime EXCEPT ![currentProcess] = @ - 1]
            /\ spc' = IF RunsOut THEN "finish" ELSE "fetch"
        BY <1>3, <2>2 DEF BeginTick
      <3>2. currentProcess \in Procs /\ remainingTime[currentProcess] \in Int
        BY <1>0, <2>2
      <3>3. remainingTime'[currentProcess] = remainingTime[currentProcess] - 1
        BY <1>0, <3>1, <3>2
      <3>4. remainingTime'[currentProcess] > 0 \/ Finishing'
        BY <3>1, <3>2, <3>3 DEF RunsOut, Finishing
      <3> QED
        BY <1>2, <2>1, <3>4
    <2> QED
      BY <1>2, <2>1, <2>2
  <1>4. CASE handleProcessExit
    <2>1. /\ termQueue # <<>> /\ termQueue' = Tail(termQueue)
          /\ currentProcess' = NULL
          /\ stopped' = stopped
          /\ spc' \in {"fetch", "dispatch"}
      BY <1>4 DEF handleProcessExit
    <2>2. termQueue = <<currentProcess>> /\ stage[currentProcess] = "reaped"
      BY <2>1 DEF OnTheProcessor, TerminationIsExpected
    <2>3. termQueue' = <<>>
      BY <2>1, <2>2
    <2>4. \A p \in Procs : stage[p] # "zombie"
      BY <2>2 DEF OnTheProcessor
    <2>5. OneProcessRuns' /\ TerminationIsExpected'
      BY <1>0, <2>1, <2>2, <2>3 DEF OnTheProcessor, OneProcessRuns, TerminationIsExpected
    <2> QED
      BY <1>0, <2>1, <2>4, <2>5 DEF OnTheProcessor
  <1>5. CASE ReceiveProcess
    <2> DEFINE p == Head(pcbQueue)
    <2>1. /\ UNCHANGED <<currentProcess, stopped, termQueue>>
          /\ ~Finishing
          /\ remainingTime' = [remainingTime EXCEPT ![p] = Work(p)]
          /\ pcbQueue # <<>> /\ p \notin Marks
      BY <1>5 DEF ReceiveProcess, Finishing
    <2>2. 1 \in DOMAIN pcbQueue /\ p = pcbQueue[1]
      <3>1. pcbQueue \in Seq(Entries \cup Marks)
        BY DEF TypeInv, TypeOK, KernelTypeOK
      <3> QED
        BY <2>1, <3>1
    <2>3. pcbState[p] = "none"
      BY <2>1, <2>2 DEF OnTheWay, MessagesFresh
    <2>4. currentProcess # NULL => currentProcess # p
      BY <2>3 DEF OnTheWay, QueuedHavePCB
    <2>5. currentProcess # NULL => remainingTime'[currentProcess] = remainingTime[currentProcess]
      BY <1>0, <2>1, <2>4
    <2> QED
      BY <1>2, <2>1, <2>5 DEF OnTheProcessor
  <1>6. CASE \/ fetchProcessFromQueue \/ ReceiveMark \/ ExpireQuantum \/ KeepProcess
             \/ EndBusyTick \/ EndIdleTick
    <2>1. /\ UNCHANGED <<currentProcess, stopped, termQueue, remainingTime>>
          /\ ~Finishing
      BY <1>6
         DEF fetchProcessFromQueue, ReceiveMark, ExpireQuantum, KeepProcess, EndBusyTick,
             EndIdleTick, msgVars, Finishing
    <2> QED
      BY <1>2, <2>1 DEF OnTheProcessor
  (* Steps that do: from the process old, or NULL, to the process next.    *)
  <1>7. ASSUME ~Finishing, UNCHANGED <<termQueue, remainingTime>>,
               NEW next \in Procs, currentProcess' = next,
               stopped' = (stopped \cup {currentProcess}) \ {next} \/
                 (currentProcess = NULL /\ stopped' = stopped \ {next}),
               spc' = IF remainingTime[next] <= 0 THEN "finishresumed" ELSE "dispatch"
        PROVE  OnTheProcessor'
    <2>1. remainingTime[next] \in Int
      BY <1>0
    <2>2. ~Finishing' => remainingTime'[currentProcess'] > 0
      BY <1>7, <2>1 DEF Finishing
    <2>3. OneProcessRuns'
      <3> SUFFICES ASSUME NEW p \in Procs, stage[p] \in {"parked", "execed"},
                          p \notin stopped'
                   PROVE  p = next
        BY <1>0, <1>7 DEF OneProcessRuns
      <3>1. p \notin stopped => p = currentProcess
        BY DEF OnTheProcessor, OneProcessRuns
      <3> QED
        BY <1>0, <1>7, <3>1
    <2>4. TerminationIsExpected'
      BY <1>1, <1>7 DEF TerminationIsExpected
    <2> QED
      BY <1>0, <1>1, <1>7, <2>2, <2>3, <2>4 DEF OnTheProcessor
  <1>8. CASE SwitchProcess
    <2>1. PICK i \in DOMAIN readyQueue :
            /\ stopped' = Exchange(currentProcess, readyQueue[i])
            /\ currentProcess' = readyQueue[i]
            /\ spc' = IF remainingTime[readyQueue[i]] <= 0 THEN "finishresumed"
                                                           ELSE "dispatch"
      BY <1>8 DEF SwitchProcess
    <2>2. ~Finishing /\ UNCHANGED <<termQueue, remainingTime>>
      BY <1>8 DEF SwitchProcess, Finishing, msgVars
    <2>3. readyQueue[i] \in Procs
      BY <1>0
    <2> QED
      BY <1>7, <2>1, <2>2, <2>3 DEF Exchange
  <1>9. CASE Dispatch
    <2>1. PICK i \in DOMAIN readyQueue :
            /\ stopped' = stopped \ {readyQueue[i]}
            /\ currentProcess' = readyQueue[i]
            /\ spc' = IF remainingTime[readyQueue[i]] <= 0 THEN "finishresumed"
                                                           ELSE "dispatch"
      BY <1>9 DEF Dispatch
    <2>2. ~Finishing /\ UNCHANGED <<termQueue, remainingTime>> /\ currentProcess = NULL
      BY <1>9 DEF Dispatch, Finishing, msgVars
    <2>3. readyQueue[i] \in Procs
      BY <1>0
    <2> QED
      BY <1>7, <2>1, <2>2, <2>3
  <1> QED
    BY <1>3, <1>4, <1>5, <1>6, <1>8, <1>9 DEF runScheduler

LEMMA OnTheProcessorStep ==
    ASSUME TypeInv, OnTheWay, OnTheProcessor, [Next]_vars
    PROVE  OnTheProcessor'
  <1>1. CASE Tick \/ Signal \/ SchedulerSignal \/ UNCHANGED vars
    BY <1>1, OnTheProcessorFrame
       DEF OnTheProcessorVars, Tick, IncrementClk, Signal, SignalGroup, outsideClk,
           SchedulerSignal, schedulerClkHandler, EnterClkHandler, ReinstallClkHandler,
           KilledByTick, vars, msgVars, procVars, schedulerVars
  <1> QED
    BY <1>1, OnTheProcessorProcess, OnTheProcessorGenerator, OnTheProcessorScheduler DEF Next

-----------------------------------------------------------------------------
(* The inductive invariant and what follows from it.                       *)

(* In every run the types, the rendezvous of the two loops, the one way of *)
(* an entry from the file to its PCB, and who may execute, hold together.  *)
THEOREM InvInductive == Spec => []Inv
  <1>1. Init => Inv
    BY TypeInvInit, RendezvousInit, OnTheWayInit, OnTheProcessorInit DEF Inv
  <1>2. Inv /\ [Next]_vars => Inv'
    BY TypeInvStep, RendezvousStep, OnTheWayStep, OnTheProcessorStep DEF Inv
  <1> QED
    BY <1>1, <1>2, PTL DEF Spec

(* Of the children past their own SIGSTOP at most one can execute, and it  *)
(* is the scheduler's current process.                                     *)
THEOREM OneProcessRunsHolds == Spec => []OneProcessRuns
  <1>1. Inv => OneProcessRuns
    BY DEF Inv, OnTheProcessor
  <1> QED
    BY <1>1, InvInductive, PTL

(* handleProcessExit never takes the exit of one process for another's.    *)
THEOREM TerminationIsExpectedHolds == Spec => []TerminationIsExpected
  <1>1. Inv => TerminationIsExpected
    BY DEF Inv, OnTheProcessor
  <1> QED
    BY <1>1, InvInductive, PTL

(* The SIGCHLD handler never frees memory while the loop it interrupts is  *)
(* inside the allocator or between canAllocate and allocateMemory.         *)
THEOREM AllocatorExclusionHolds == Spec => []AllocatorExclusion
  <1>1. ASSUME Inv PROVE AllocatorExclusion
    <2> SUFFICES ASSUME InAllocator, NEW p \in Procs, stage[p] = "zombie"
                 PROVE  FALSE
      BY DEF AllocatorExclusion
    <2>1. Finishing
      BY <1>1 DEF Inv, OnTheProcessor
    <2>2. InRound /\ pgc # "exited"
      BY DEF InAllocator, InRound
    <2>3. pgNoMore
      BY <1>1, <2>1, <2>2 DEF Inv, RendezvousInv, Rendezvous, Idle, Finishing
    <2>4. waitList = <<>> /\ pgc \notin {"fork", "allocate"}
      BY <1>1, <2>3 DEF Inv, RendezvousInv, LastRound
    <2>5. pgc = "scan" /\ waitLeft > 0
      BY <2>4 DEF InAllocator
    <2>6. waitLeft <= 0 /\ waitLeft \in Int
      <3>1. waitLeft <= Len(waitList) /\ waitLeft \in Int
        BY <1>1, <2>5 DEF Inv, TypeInv, TypeOK, GeneratorTypeOK, LoopsWellPlaced
      <3> QED
        BY <2>4, <3>1
    <2> QED
      BY <2>5, <2>6
  <1> QED
    BY <1>1, InvInductive, PTL

-----------------------------------------------------------------------------
(* The simulator implements JobService.                                    *)

(* The state fields follow currentProcess, and no more service is given    *)
(* than is owed.                                                           *)
ServiceInv ==
    /\ \A p \in Procs : pcbState[p] = "RUNNING" => p = currentProcess
    /\ currentProcess # NULL =>
         pcbState[currentProcess] = IF spc = "switch" THEN "READY" ELSE "RUNNING"
    /\ \A p \in Procs : remainingTime[p] >= 0
    /\ Finishing => remainingTime[currentProcess] = 0

ServiceVars == <<spc, currentProcess, pcbState, remainingTime>>

LEMMA ServiceInit == Init => ServiceInv /\ Service!Init
  BY WorkloadFacts
     DEF Init, KernelInit, SchedulerInit, ServiceInv, Finishing, Service!Init

LEMMA ServiceFrame ==
    ASSUME ServiceInv, UNCHANGED ServiceVars
    PROVE  ServiceInv' /\ UNCHANGED Service!vars
  BY DEF ServiceInv, ServiceVars, Finishing, Service!vars

(* Each step of the scheduler is one step of the service, or none.         *)
LEMMA ServiceScheduler ==
    ASSUME TypeInv, OnTheWay, OnTheProcessor, ServiceInv, SchedulerRun
    PROVE  ServiceInv' /\ [Service!Next]_(Service!vars)
  <1> USE DEF SchedulerRun, At
  <1>0. /\ remainingTime \in [Procs -> Int]
        /\ pcbState \in [Procs -> {"none", "READY", "RUNNING", "FINISHED"}]
        /\ readyQueue \in Seq(Entries)
        /\ currentProcess \in Procs \cup {NULL}
        /\ Entries \subseteq Procs /\ NULL \notin Procs
    <2>1. /\ remainingTime \in [Procs -> Int]
          /\ pcbState \in [Procs -> {"none", "READY", "RUNNING", "FINISHED"}]
          /\ readyQueue \in Seq(Entries)
          /\ currentProcess \in Entries \cup {NULL}
      BY DEF TypeInv, TypeOK, KernelTypeOK, SchedulerTypeOK
    <2>2. Entries \subseteq Procs /\ NULL \notin Procs
      BY WorkloadFacts DEF TypeInv, TypeOK, KernelTypeOK
    <2> QED
      BY <2>1, <2>2
  <1>1. CASE /\ UNCHANGED <<pcbState, remainingTime, currentProcess>>
             /\ spc \notin {"switch", "finish", "finishresumed"}
             /\ spc' \notin {"switch", "finish", "finishresumed"}
    BY <1>1 DEF ServiceInv, Finishing, Service!vars
  <1>2. CASE BeginTick /\ currentProcess # NULL
    <2> DEFINE r == remainingTime[currentProcess]
    <2>1. /\ spc = "top"
          /\ remainingTime' = [remainingTime EXCEPT ![currentProcess] = @ - 1]
          /\ UNCHANGED <<pcbState, currentProcess>>
          /\ spc' = IF RunsOut THEN "finish" ELSE "fetch"
      BY <1>2 DEF BeginTick, pcbVars
    <2>2. /\ currentProcess \in Procs
          /\ pcbState[currentProcess] = "RUNNING"
          /\ r \in Int /\ r > 0
      BY <1>0, <1>2, <2>1 DEF ServiceInv, OnTheProcessor, Finishing
    <2>3. /\ remainingTime'[currentProcess] = r - 1
          /\ \A p \in Procs : p # currentProcess => remainingTime'[p] = remainingTime[p]
      BY <1>0, <2>1, <2>2
    <2>4. Finishing' => r - 1 = 0
      BY <2>1, <2>2 DEF Finishing, RunsOut
    <2>5. ServiceInv'
      <3>1. \A p \in Procs : remainingTime'[p] >= 0
        BY <2>2, <2>3 DEF ServiceInv
      <3>2. spc' # "switch" /\ spc # "switch"
        BY <2>1
      <3> QED
        BY <2>1, <2>3, <2>4, <3>1, <3>2 DEF ServiceInv
    <2>6. Service!Serve(currentProcess)
      BY <2>1, <2>2 DEF Service!Serve
    <2> QED
      BY <2>2, <2>5, <2>6 DEF Service!Next
  <1>3. CASE handleProcessExit
    <2>1. /\ Finishing /\ ~Finishing' /\ spc' # "switch"
          /\ currentProcess \in Procs
          /\ currentProcess' = NULL
          /\ remainingTime' = remainingTime
          /\ pcbState' = [pcbState EXCEPT ![currentProcess] = "FINISHED"]
      BY <1>0, <1>3 DEF handleProcessExit, Finishing, TypeInv, LoopsWellPlaced
    <2>2. pcbState[currentProcess] = "RUNNING" /\ remainingTime[currentProcess] = 0
      BY <1>0, <2>1 DEF ServiceInv, Finishing
    <2>3. ServiceInv'
      BY <1>0, <2>1 DEF ServiceInv
    <2>4. Service!Finish(currentProcess)
      BY <2>1, <2>2 DEF Service!Finish, Service!Moves
    <2> QED
      BY <2>1, <2>3, <2>4 DEF Service!Next
  <1>4. CASE ReceiveProcess
    <2> DEFINE p == Head(pcbQueue)
    <2>1. /\ spc = "receive" /\ spc' = spc
          /\ pcbQueue # <<>> /\ p \notin Marks
          /\ currentProcess' = currentProcess
          /\ remainingTime' = [remainingTime EXCEPT ![p] = Work(p)]
          /\ pcbState' = [pcbState EXCEPT ![p] = "READY"]
      BY <1>4 DEF ReceiveProcess, pushToReadyQueue
    <2>2. 1 \in DOMAIN pcbQueue /\ p = pcbQueue[1] /\ p \in Entries
      <3>1. pcbQueue \in Seq(Entries \cup Marks)
        BY DEF TypeInv, TypeOK, KernelTypeOK
      <3> QED
        BY <2>1, <3>1
    <2>3. pcbState[p] = "none" /\ p \in Procs
      BY <1>0, <2>1, <2>2 DEF OnTheWay, MessagesFresh
    <2>4. Work(p) \in Nat
      BY <2>2, WorkloadFacts DEF Work, ProcessData, TypeInv, TypeOK, KernelTypeOK
    <2>5. currentProcess # p
      BY <1>0, <2>1, <2>3 DEF ServiceInv
    <2> HIDE DEF p
    <2>6. /\ remainingTime'[p] = Work(p)
          /\ pcbState'[p] = "READY"
          /\ \A q \in Procs : q # p =>
                remainingTime'[q] = remainingTime[q] /\ pcbState'[q] = pcbState[q]
      BY <1>0, <2>1, <2>3
    <2>7. ServiceInv'
      <3>1. \A q \in Procs : remainingTime'[q] >= 0
        BY <2>4, <2>6 DEF ServiceInv
      <3>2. \A q \in Procs : pcbState'[q] = "RUNNING" => q = currentProcess
        BY <2>6 DEF ServiceInv
      <3> QED
        BY <1>0, <2>1, <2>5, <2>6, <3>1, <3>2 DEF ServiceInv, Finishing
    <2>8. Service!Admit(p)
      BY <1>0, <2>1, <2>3, <2>4, <2>6 DEF Service!Admit, Service!Moves
    <2> QED
      BY <2>3, <2>7, <2>8 DEF Service!Next
  <1>5. CASE ExpireQuantum /\ spc' = "switch"
    <2>1. /\ spc = "quantum"
          /\ currentProcess # NULL
          /\ UNCHANGED <<currentProcess, remainingTime>>
          /\ pcbState' = [pcbState EXCEPT ![currentProcess] = "READY"]
      BY <1>5 DEF ExpireQuantum, pushToReadyQueue
    <2>2. currentProcess \in Procs /\ pcbState[currentProcess] = "RUNNING"
      BY <1>0, <2>1 DEF ServiceInv
    <2>3. ServiceInv'
      BY <1>0, <1>5, <2>1, <2>2 DEF ServiceInv, Finishing
    <2>4. Service!Preempt(currentProcess)
      BY <2>1, <2>2 DEF Service!Preempt, Service!Moves
    <2> QED
      BY <2>2, <2>3, <2>4 DEF Service!Next
  (* The three ways to start a process.                                    *)
  <1>6. ASSUME NEW next \in Procs, pcbState[next] = "READY",
               \A p \in Procs : pcbState[p] # "RUNNING",
               pcbState' = [pcbState EXCEPT ![next] = "RUNNING"],
               remainingTime' = remainingTime, currentProcess' = next,
               spc' \in {"finishresumed", "dispatch"},
               spc' = "finishresumed" => remainingTime[next] <= 0
        PROVE  ServiceInv' /\ [Service!Next]_(Service!vars)
    <2>1. remainingTime[next] \in Int /\ remainingTime[next] >= 0
      BY <1>0, <1>6 DEF ServiceInv
    <2>2. /\ pcbState'[next] = "RUNNING"
          /\ \A p \in Procs : pcbState'[p] = "RUNNING" => p = next
      BY <1>0, <1>6
    <2>3. ServiceInv'
      BY <1>6, <2>1, <2>2 DEF ServiceInv, Finishing
    <2>4. Service!Start(next)
      BY <1>6 DEF Service!Start, Service!Moves
    <2> QED
      BY <1>6, <2>3, <2>4 DEF Service!Next
  <1>7. CASE SwitchProcess
    <2>1. PICK i \in DOMAIN readyQueue :
            /\ pcbState[readyQueue[i]] = "READY"
            /\ pcbState' = [pcbState EXCEPT ![currentProcess] = "READY",
                                            ![readyQueue[i]] = "RUNNING"]
            /\ currentProcess' = readyQueue[i]
            /\ spc' = IF remainingTime[readyQueue[i]] <= 0 THEN "finishresumed"
                                                           ELSE "dispatch"
            /\ remainingTime' = remainingTime
      BY <1>7 DEF SwitchProcess, FirstReady
    <2>2. currentProcess # NULL /\ spc = "switch"
      BY <1>7 DEF SwitchProcess, TypeInv, LoopsWellPlaced
    <2>3. currentProcess \in Procs /\ pcbState[currentProcess] = "READY"
      BY <1>0, <2>2 DEF ServiceInv
    <2>4. \A p \in Procs : pcbState[p] # "RUNNING"
      BY <2>3 DEF ServiceInv
    <2>5. readyQueue[i] \in Procs
      BY <1>0
    <2>6. pcbState' = [pcbState EXCEPT ![readyQueue[i]] = "RUNNING"]
      BY <1>0, <2>1, <2>3, <2>5
    <2> QED
      BY <1>6, <2>1, <2>4, <2>5, <2>6
  <1>8. CASE KeepProcess
    <2>1. /\ spc = "switch" /\ spc' = "dispatch" /\ currentProcess # NULL
          /\ UNCHANGED <<currentProcess, remainingTime>>
          /\ pcbState' = [pcbState EXCEPT ![currentProcess] = "RUNNING"]
      BY <1>8 DEF KeepProcess, TypeInv, LoopsWellPlaced
    <2>2. currentProcess \in Procs /\ pcbState[currentProcess] = "READY"
      BY <1>0, <2>1 DEF ServiceInv
    <2>3. \A p \in Procs : pcbState[p] # "RUNNING"
      BY <2>2 DEF ServiceInv
    <2> QED
      BY <1>6, <2>1, <2>2, <2>3
  <1>9. CASE Dispatch
    <2>1. PICK i \in DOMAIN readyQueue :
            /\ pcbState[readyQueue[i]] = "READY"
            /\ pcbState' = [pcbState EXCEPT ![readyQueue[i]] = "RUNNING"]
            /\ currentProcess' = readyQueue[i]
            /\ spc' = IF remainingTime[readyQueue[i]] <= 0 THEN "finishresumed"
                                                           ELSE "dispatch"
            /\ remainingTime' = remainingTime
      BY <1>9 DEF Dispatch, FirstReady
    <2>2. currentProcess = NULL
      BY <1>9 DEF Dispatch
    <2>3. \A p \in Procs : pcbState[p] # "RUNNING"
      BY <1>0, <2>2 DEF ServiceInv
    <2>4. readyQueue[i] \in Procs
      BY <1>0
    <2> QED
      BY <1>6, <2>1, <2>3, <2>4
  <1>10. CASE BeginTick /\ currentProcess = NULL
    BY <1>1, <1>10 DEF BeginTick, pcbVars
  <1>11. CASE ExpireQuantum /\ spc' # "switch"
    BY <1>1, <1>11 DEF ExpireQuantum
  <1>12. CASE fetchProcessFromQueue \/ ReceiveMark
    BY <1>1, <1>12 DEF fetchProcessFromQueue, ReceiveMark, pcbVars
  <1>13. CASE EndBusyTick \/ EndIdleTick
    BY <1>1, <1>13 DEF EndBusyTick, EndIdleTick, pcbVars
  <1> QED
    BY <1>2, <1>3, <1>4, <1>5, <1>7, <1>8, <1>9, <1>10, <1>11, <1>12, <1>13
       DEF runScheduler

LEMMA ServiceStep ==
    ASSUME Inv, ServiceInv, [Next]_vars
    PROVE  ServiceInv' /\ [Service!Next]_(Service!vars)
  <1>1. CASE SchedulerRun
    BY <1>1, ServiceScheduler DEF Inv
  <1>2. CASE Tick \/ Signal \/ SchedulerSignal \/ UNCHANGED vars
    BY <1>2, ServiceFrame
       DEF ServiceVars, Tick, IncrementClk, Signal, SignalGroup, outsideClk, SchedulerSignal,
           schedulerClkHandler, EnterClkHandler, ReinstallClkHandler, KilledByTick, vars,
           procVars, schedulerVars, pcbVars
  <1>3. ASSUME NEW p \in Procs, ProcessRun(p)
        PROVE  ServiceInv' /\ [Service!Next]_(Service!vars)
    BY <1>3, ServiceFrame
       DEF ServiceVars, ProcessRun, ProcessStep, InheritedClkHandler, IgnoreClk, Park, Exec,
           Terminate, procVars, schedulerVars, pcbVars
  <1>4. CASE GeneratorSignal \/ GeneratorRun
    <2>1. remainingTime' = remainingTime
      BY <1>4
         DEF GeneratorRun, GeneratorSignal, pgClkHandler, checkChildProcess, EnterCheckChild,
             ReapProcess, ReapScheduler, LeaveCheckChild, runProcessGenerator, DownTick,
             DownScheduler, Arrive, NoArrival, Scan, forkProcess, Allocate, SendProcess,
             EndScan, EndRound, WaitScheduler, outsideGenerator
    <2>2. UNCHANGED <<spc, currentProcess, pcbState>>
      BY <1>4 DEF GeneratorRun, GeneratorSignal, schedulerVars, pcbVars
    <2> QED
      BY <2>1, <2>2, ServiceFrame DEF ServiceVars
  <1> QED
    BY <1>1, <1>2, <1>3, <1>4 DEF Next

(* Whatever the policy, the files and the interleaving, the states and the *)
(* remaining times of the processes change only as JobService allows: one  *)
(* is served at a time, exactly as long as it asked, and finished once.    *)
THEOREM ServiceImplemented == Spec => ImplementsService
  <1>1. Init => ServiceInv /\ Service!Init
    BY ServiceInit
  <1>2. Inv /\ ServiceInv /\ [Next]_vars => ServiceInv' /\ [Service!Next]_(Service!vars)
    BY ServiceStep
  <1> QED
    BY <1>1, <1>2, InvInductive, PTL DEF Spec, ImplementsService, Service!Spec
=============================================================================
