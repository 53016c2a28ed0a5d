------------------------------ MODULE TimeProofs ------------------------------
(***************************************************************************)
(* Proofs about time: the counters of ticks, and, when ticks are far       *)
(* enough apart, arrivals and the times the scheduler reports.             *)
(***************************************************************************)
EXTENDS QueueProofs

-----------------------------------------------------------------------------
(* Ticks counted.                                                          *)

HasPCB(p) == pcbState[p] # "none"

(* Nobody is served longer than asked.                                     *)
WithinWork == \A p \in Entries : HasPCB(p) => remainingTime[p] <= Work(p)

Accounted ==
    /\ IsFiniteSet(Served)
    /\ totalTime - idleTime =
         Cardinality(Served)
           + (IF spc \in {"top", "done"} /\ currentProcess = NULL THEN 0 ELSE 1)

DoneAlone == spc = "done" => currentProcess = NULL

AccountInv == WithinWork /\ Accounted /\ DoneAlone

LEMMA ServedMember ==
    ASSUME NEW t
    PROVE  t \in Served <=>
             \E p \in Entries : \E n \in (remainingTime[p] + 1)..Work(p) :
               HasPCB(p) /\ t = <<p, n>>
  BY DEF Served, HasPCB, Work

LEMMA ServedSame ==
    ASSUME Inv, UNCHANGED argVars,
           \A p \in Entries : HasPCB(p)' => HasPCB(p) /\ remainingTime'[p] = remainingTime[p],
           \A p \in Entries : HasPCB(p) => HasPCB(p)'
    PROVE  Served' = Served
  <1>1. Entries' = Entries /\ \A p : processesArray'[p] = processesArray[p]
    BY DEF argVars, Entries, processCount
  <1> QED
    BY <1>1 DEF Served, HasPCB

LEMMA AccountInvInit == Init => AccountInv
  <1> SUFFICES ASSUME Init PROVE AccountInv
    OBVIOUS
  <1>1. /\ \A p \in Procs : pcbState[p] = "none"
        /\ totalTime = -1 /\ idleTime = -1 /\ spc = "top" /\ currentProcess = NULL
    BY DEF Init, SchedulerInit
  <1>2. Entries \subseteq Procs
    BY WorkloadFacts DEF Init, KernelInit, ReadProcessesFile
  <1>3. Served = {}
    BY <1>1, <1>2 DEF Served
  <1> QED
    BY <1>1, <1>2, <1>3, FS_EmptySet DEF AccountInv, WithinWork, Accounted, DoneAlone, HasPCB

LEMMA AccountContext ==
    ASSUME Inv
    PROVE  /\ totalTime \in Int /\ idleTime \in Int
           /\ \A p \in Entries : Work(p) \in Int
  BY WorkloadFacts
     DEF Inv, TypeInv, TypeOK, SchedulerTypeOK, KernelTypeOK, Work, ProcessData

(* One tick of service is one more pair.                                   *)
LEMMA ServedTick ==
    ASSUME Inv, AccountInv, UNCHANGED <<argVars, pcbState>>, currentProcess \in Entries,
           HasPCB(currentProcess),
           remainingTime' = [remainingTime EXCEPT ![currentProcess] = @ - 1],
           remainingTime[currentProcess] > 0
    PROVE  /\ IsFiniteSet(Served')
           /\ Cardinality(Served') = Cardinality(Served) + 1
  <1> DEFINE r == remainingTime[currentProcess]
             t == <<currentProcess, r>>
  <1>1. /\ Entries' = Entries
        /\ \A p \in Entries : Work(p)' = Work(p) /\ (HasPCB(p)' <=> HasPCB(p))
    BY DEF argVars, Entries, processCount, Work, HasPCB
  <1>2. /\ r \in Int /\ r <= Work(currentProcess) /\ Work(currentProcess) \in Int
        /\ remainingTime'[currentProcess] = r - 1
        /\ \A p \in Entries : p # currentProcess => remainingTime'[p] = remainingTime[p]
    BY EndContext, AccountContext DEF AccountInv, WithinWork
  <1>3. (r - 1 + 1)..Work(currentProcess) = ((r + 1)..Work(currentProcess)) \cup {r}
    BY <1>2
  <1>4. t \notin Served
    <2> SUFFICES ASSUME t \in Served PROVE FALSE
      OBVIOUS
    <2>1. PICK p \in Entries : \E n \in (remainingTime[p] + 1)..Work(p) : t = <<p, n>>
      BY ServedMember
    <2>2. p = currentProcess /\ r \in (remainingTime[p] + 1)..Work(p)
      BY <2>1
    <2> QED
      BY <1>2, <2>2
  <1>5. Served' = Served \cup {t}
    <2>1. ASSUME NEW x, x \in Served' PROVE x \in Served \cup {t}
      <3>0. PICK p \in Entries : \E n \in (remainingTime'[p] + 1)..Work(p) :
              HasPCB(p) /\ x = <<p, n>>
        BY <1>1, <2>1 DEF Served, HasPCB, Work
      <3>1. PICK n \in (remainingTime'[p] + 1)..Work(p) : HasPCB(p) /\ x = <<p, n>>
        BY <3>0
      <3>2. n \in (remainingTime[p] + 1)..Work(p) \/ (p = currentProcess /\ n = r)
        BY <1>2, <1>3, <3>1
      <3> QED
        BY <3>1, <3>2, ServedMember
    <2>2. ASSUME NEW p \in Entries, NEW n \in (remainingTime'[p] + 1)..Work(p), HasPCB(p)
          PROVE  <<p, n>> \in Served'
      BY <1>1, <2>2 DEF Served, HasPCB, Work
    <2>3. ASSUME NEW x \in Served PROVE x \in Served'
      <3>0. PICK p \in Entries : \E n \in (remainingTime[p] + 1)..Work(p) :
              HasPCB(p) /\ x = <<p, n>>
        BY <2>3, ServedMember
      <3>1. PICK n \in (remainingTime[p] + 1)..Work(p) : HasPCB(p) /\ x = <<p, n>>
        BY <3>0
      <3>2. n \in (remainingTime'[p] + 1)..Work(p)
        BY <1>2, <1>3, <3>1
      <3> QED
        BY <2>2, <3>1, <3>2
    <2>4. t \in Served'
      BY <1>2, <1>3, <2>2
    <2> QED
      BY <2>1, <2>3, <2>4
  <1> QED
    BY <1>4, <1>5, FS_AddElement DEF AccountInv, Accounted

LEMMA AccountScheduler ==
    ASSUME Inv, AccountInv, UNCHANGED argVars, SchedulerRun
    PROVE  AccountInv'
  <1> USE DEF SchedulerRun
  <1>1. /\ Entries' = Entries
        /\ \A p \in Entries : Work(p)' = Work(p)
    BY DEF argVars, Entries, processCount, Work
  <1>2. ASSUME remainingTime' = remainingTime, pcbState' = pcbState
        PROVE  WithinWork' /\ Served' = Served
    BY <1>1, <1>2, ServedSame DEF AccountInv, WithinWork, HasPCB
  (* Steps that only mark processes that have a PCB already.               *)
  <1>3. ASSUME remainingTime' = remainingTime,
               \A p \in Entries : HasPCB(p)' <=> HasPCB(p)
        PROVE  WithinWork' /\ Served' = Served
    BY <1>1, <1>3, ServedSame DEF AccountInv, WithinWork
  <1>4. CASE BeginTick
    <2>1. /\ spc = "top" /\ spc' \in {"fetch", "finish"}
          /\ UNCHANGED <<currentProcess, pcbState, idleTime>>
          /\ totalTime' = totalTime + 1
      BY <1>4 DEF BeginTick, At, pcbVars
    <2>2. CASE currentProcess = NULL
      <3>1. remainingTime' = remainingTime
        BY <1>4, <2>2 DEF BeginTick
      <3>2. Cardinality(Served) \in Nat
        BY FS_CardinalityType DEF AccountInv, Accounted
      <3>3. WithinWork' /\ Served' = Served
        BY <1>2, <2>1, <3>1
      <3> QED
        BY <2>1, <2>2, <3>2, <3>3, AccountContext DEF AccountInv, Accounted, DoneAlone
    <2>3. CASE currentProcess # NULL
      <3>1. /\ currentProcess \in Entries
            /\ HasPCB(currentProcess)
            /\ remainingTime[currentProcess] > 0
            /\ remainingTime' = [remainingTime EXCEPT ![currentProcess] = @ - 1]
        BY <1>4, <2>1, <2>3, EndContext
           DEF BeginTick, Inv, OnTheWay, QueuedHavePCB, OnTheProcessor, Finishing, HasPCB
      <3>2. IsFiniteSet(Served') /\ Cardinality(Served') = Cardinality(Served) + 1
        BY <2>1, <3>1, ServedTick
      <3>3. WithinWork'
        BY <1>1, <2>1, <3>1, EndContext, AccountContext DEF AccountInv, WithinWork, HasPCB
      <3>4. Cardinality(Served) \in Nat
        BY FS_CardinalityType DEF AccountInv, Accounted
      <3> QED
        BY <2>1, <2>3, <3>2, <3>3, <3>4, AccountContext DEF AccountInv, Accounted, DoneAlone
    <2> QED
      BY <2>2, <2>3
  <1>5. CASE ReceiveProcess
    <2>1. PICK q : /\ q = Head(pcbQueue) /\ q \notin Marks /\ pcbQueue # <<>>
                   /\ pushToReadyQueue(q, Work(q))
                   /\ remainingTime' = [remainingTime EXCEPT ![q] = Work(q)]
      BY <1>5 DEF ReceiveProcess
    <2>2. q \in Entries /\ 1 \in DOMAIN pcbQueue /\ q = pcbQueue[1]
      BY <2>1, EndContext
    <2>3. ~HasPCB(q)
      BY <2>1, <2>2 DEF Inv, OnTheWay, MessagesFresh, HasPCB
    <2>4. /\ remainingTime'[q] = Work(q) /\ Work(q) \in Int
          /\ \A p \in Entries : p # q =>
               (HasPCB(p)' <=> HasPCB(p)) /\ remainingTime'[p] = remainingTime[p]
      BY <2>1, <2>2, EndContext, AccountContext DEF pushToReadyQueue, HasPCB
    <2>5. WithinWork'
      BY <1>1, <2>4 DEF AccountInv, WithinWork
    <2>6. \A p \in Entries : \A n : n \in (remainingTime'[p] + 1)..Work(p) /\ HasPCB(p)'
                            <=> n \in (remainingTime[p] + 1)..Work(p) /\ HasPCB(p)
      BY <2>3, <2>4
    <2>7. Served' = Served
      <3>1. ASSUME NEW x
            PROVE  x \in Served' <=>
                     \E p \in Entries : \E n \in (remainingTime'[p] + 1)..Work(p) :
                       HasPCB(p)' /\ x = <<p, n>>
        BY <1>1 DEF Served, HasPCB, Work
      <3>2. ASSUME NEW x PROVE x \in Served' <=> x \in Served
        BY <2>6, <3>1, ServedMember
      <3> QED
        BY <3>2 DEF Served
    <2> QED
      BY <1>5, <2>5, <2>7 DEF ReceiveProcess, At, AccountInv, Accounted, DoneAlone, counterVars
  <1>6. CASE handleProcessExit
    <2>1. \A p \in Entries : HasPCB(p)' <=> HasPCB(p)
      BY <1>6, EndContext DEF handleProcessExit, HasPCB, Inv, OnTheWay, QueuedHavePCB
    <2>2. currentProcess # NULL
      BY <1>6 DEF handleProcessExit, At, Inv, TypeInv, LoopsWellPlaced
    <2> QED
      BY <1>3, <1>6, <2>1, <2>2
         DEF handleProcessExit, At, AccountInv, Accounted, DoneAlone
  <1>7. CASE fetchProcessFromQueue \/ ReceiveMark \/ EndBusyTick
    BY <1>2, <1>7
       DEF fetchProcessFromQueue, ReceiveMark, EndBusyTick, At, AccountInv, Accounted,
           DoneAlone, counterVars, pcbVars
  <1>8. CASE ExpireQuantum
    <2>1. \A p \in Entries : HasPCB(p)' <=> HasPCB(p)
      BY <1>8, EndContext
         DEF ExpireQuantum, pushToReadyQueue, HasPCB, Inv, OnTheWay, QueuedHavePCB
    <2> QED
      BY <1>3, <1>8, <2>1
         DEF ExpireQuantum, At, AccountInv, Accounted, DoneAlone, counterVars
  <1>9. CASE SwitchProcess \/ KeepProcess \/ Dispatch
    <2>1. \A p \in Entries : HasPCB(p)' <=> HasPCB(p)
      BY <1>9, EndContext
         DEF SwitchProcess, KeepProcess, Dispatch, HasPCB, Inv, OnTheWay, QueuedHavePCB
    <2>2. /\ spc \in {"switch", "dispatch"} /\ spc' \in {"dispatch", "finishresumed"}
          /\ UNCHANGED <<totalTime, idleTime, remainingTime>>
      BY <1>9 DEF SwitchProcess, KeepProcess, Dispatch, At, counterVars
    <2> QED
      BY <1>3, <2>1, <2>2 DEF AccountInv, Accounted, DoneAlone
  <1>10. CASE EndIdleTick
    <2>1. /\ spc = "dispatch" /\ spc' \in {"top", "done"} /\ currentProcess = NULL
          /\ UNCHANGED <<totalTime, remainingTime, pcbState, currentProcess>>
          /\ idleTime' = idleTime + 1
      BY <1>10 DEF EndIdleTick, At, pcbVars
    <2>2. Cardinality(Served) \in Nat
      BY FS_CardinalityType DEF AccountInv, Accounted
    <2> QED
      BY <1>2, <2>1, <2>2, AccountContext DEF AccountInv, Accounted, DoneAlone
  <1> QED
    BY <1>4, <1>5, <1>6, <1>7, <1>8, <1>9, <1>10 DEF runScheduler

LEMMA AccountInvHolds == Spec => []AccountInv
  <1>1. Init => AccountInv
    BY AccountInvInit
  <1>2. ASSUME Inv, AccountInv, [Next]_vars PROVE AccountInv'
    <2>1. UNCHANGED argVars /\ Entries' = Entries
      BY <1>2, ArgumentsFixed
    <2>2. CASE ~SchedulerRun
      <3>1. UNCHANGED <<spc, currentProcess, pcbState, remainingTime, totalTime, idleTime>>
        BY <1>2, <2>2, SchedulerOnly DEF pcbVars, counterVars
      <3>2. Served' = Served
        BY <1>2, <2>1, <3>1, ServedSame DEF HasPCB
      <3> QED
        BY <1>2, <2>1, <3>1, <3>2
           DEF AccountInv, WithinWork, Accounted, DoneAlone, HasPCB, Work, argVars
    <2> QED
      BY <1>2, <2>1, <2>2, AccountScheduler
  <1> QED
    BY <1>1, <1>2, InvInductive, PTL DEF Spec

(* Whatever the interleaving, and even when ticks overrun, the utilisation *)
(* that is logged divides the right numbers: totalTime - idleTime counts   *)
(* the ticks in which processes were served, each tick once.               *)
THEOREM WorkAccountingHolds == Spec => []WorkAccounting
  <1>1. AccountInv => WorkAccounting
    BY DEF AccountInv, Accounted, DoneAlone, WorkAccounting
  <1> QED
    BY <1>1, AccountInvHolds, PTL

-----------------------------------------------------------------------------
(* With Overrun = FALSE: what a second between two ticks is enough for.    *)

Known == Inv /\ ServiceInv /\ ExitsLast /\ DoneInv

LEMMA KnownHolds == Spec => []Known
  <1>1. Init => Finished /\ ReadyKept /\ DoneInv
    BY EndInvInit
  <1>2. Inv /\ ServiceInv /\ ExitsLast /\ AdmissionInv /\ MemoryInv
          /\ Finished /\ ReadyKept /\ DoneInv /\ [Next]_vars
          => Finished' /\ ReadyKept' /\ DoneInv'
    BY FinishedStep, ReadyKeptStep, DoneStep
  <1> QED
    BY <1>1, <1>2, InvInductive, ServiceInvHolds, ExitsLastHolds, AdmissionInvHolds,
       MemoryInvHolds, PTL DEF Spec, Known

Alive == schedulerStage = "alive"

(* Ticks that x has not handled yet: counted and not signalled, or pending. *)
Late(x) == IF clkStep = "signal" \/ x \in usr2 THEN 1 ELSE 0

(* From the increment to killpg nothing else moves.                        *)
CalmTick == clkStep = "signal" => Quiescent

ChildrenUnsignalled == \A p \in Procs : p \notin usr2

StoppedParked == \A p \in stopped : stage[p] \in {"parked", "execed"}

(* A process that has been current since before this tick has come to its  *)
(* own SIGSTOP.                                                            *)
Settled ==
    /\ Alive /\ currentProcess # NULL
    /\ \/ schedulerSem > 0 \/ Scheduler \in usr2
       \/ spc \in {"finish", "fetch", "receive", "quantum", "switch"}
    => stage[currentProcess] \in {"parked", "execed", "zombie", "reaped"}

(* No tick finds the disposition reset, so the scheduler dies only at its  *)
(* end.                                                                    *)
HandlerBack ==
    /\ Alive /\ schedulerHandler = "reset" => Scheduler \notin usr2
    /\ ~Alive => spc = "done"

(* The scheduler is back at the top of its loop when a tick comes.         *)
TickServed ==
    Alive =>
        /\ spc # "top" /\ schedulerSem + Late(Scheduler) > 0 => Hung
        /\ spc = "top" => schedulerSem + Late(Scheduler) <= 1

ExitNoticed == \A p \in Procs : stage[p] = "zombie" => sigchld \/ reaping \/ pgc = "exited"

ReapedAwaited ==
    \A p \in Procs : stage[p] = "reaped" /\ pcbState[p] # "FINISHED" =>
        p = currentProcess /\ Finishing /\ termQueue # <<>>

(* Ticks for which the generator still has to ask for the scheduler's      *)
(* request, and ticks for which the scheduler has still to make it, or has *)
(* made it in vain so far.                                                 *)
RoundsDue == pgSem + Late(PG) + (IF pgc = "downscheduler" THEN 1 ELSE 0)

RequestsDue ==
    schedulerSem + Late(Scheduler)
      + (IF spc \in {"finish", "fetch"} \/ (spc = "receive" /\ pgSchedulerSem = 1)
         THEN 1 ELSE 0)

RoundsPaired == ~pgNoMore /\ pgc # "exited" => RoundsDue = RequestsDue

TimelyInv ==
    /\ CalmTick /\ ChildrenUnsignalled /\ StoppedParked /\ Settled /\ HandlerBack
    /\ TickServed /\ ExitNoticed /\ ReapedAwaited /\ RoundsPaired

LEMMA TimelyInvInit == Init => TimelyInv
  BY DEF Init, KernelInit, ClkInit, SchedulerInit, GeneratorInit, TimelyInv, CalmTick,
         ChildrenUnsignalled, StoppedParked, Settled, HandlerBack, TickServed, ExitNoticed,
         ReapedAwaited, RoundsPaired, RoundsDue, RequestsDue, Late, Alive

(* When all are blocked only the clock can take a step.                    *)
LEMMA QuiescentStep ==
    ASSUME Known, Quiescent, [Next]_vars
    PROVE  Tick \/ Signal \/ UNCHANGED vars
  <1>1. pgc = "exited" => ~Alive
    BY DEF Known, ExitsLast, Alive
  <1>2. ~SchedulerRun
    BY DEF Quiescent, SchedulerBlocked, SchedulerRun, runScheduler, BeginTick,
           handleProcessExit, fetchProcessFromQueue, ReceiveProcess, ReceiveMark,
           ExpireQuantum, SwitchProcess, KeepProcess, Dispatch, EndBusyTick, EndIdleTick, At
  <1>3. ~SchedulerSignal
    BY <1>1 DEF Quiescent, SchedulerBlocked, SchedulerSignal, schedulerClkHandler,
                EnterClkHandler, ReinstallClkHandler, KilledByTick, Alive
  <1>4. ~GeneratorSignal
    BY DEF Quiescent, GeneratorBlocked, GeneratorSignal, pgClkHandler, checkChildProcess,
           EnterCheckChild, ReapProcess, ReapScheduler, LeaveCheckChild
  <1>5. ~GeneratorRun
    BY DEF Quiescent, GeneratorBlocked, GeneratorRun, runProcessGenerator, DownTick,
           DownScheduler, Arrive, NoArrival, Scan, forkProcess, Allocate, SendProcess,
           EndScan, EndRound, WaitScheduler, AtLoop
  <1>6. ASSUME NEW p \in Procs PROVE ~ProcessRun(p)
    BY DEF Quiescent, ProcessBlocked, ProcessRun, ProcessStep, InheritedClkHandler,
           IgnoreClk, Park, Exec, Terminate, Goes, WorkDone, Known, Inv, TypeInv, TypeOK,
           KernelTypeOK
  <1> QED
    BY <1>2, <1>3, <1>4, <1>5, <1>6 DEF Next

LEMMA CalmTickStep ==
    ASSUME Overrun = FALSE, Known, TimelyInv, [Next]_vars
    PROVE  CalmTick'
  <1>1. CASE Tick
    <2>1. Quiescent
      BY <1>1 DEF Tick
    <2> QED
      BY <1>1, <2>1
         DEF Tick, IncrementClk, outsideClk, Quiescent, SchedulerBlocked, GeneratorBlocked,
             ProcessBlocked, CalmTick, semVars, msgVars, procVars, sigVars, schedulerVars,
             handlerVars, generatorVars, loopVars
  <1>2. CASE Signal
    BY <1>2 DEF Signal, SignalGroup, CalmTick
  <1>3. CASE UNCHANGED vars
    BY <1>3
       DEF vars, Quiescent, SchedulerBlocked, GeneratorBlocked, ProcessBlocked, CalmTick,
           TimelyInv, semVars, msgVars, procVars, sigVars, schedulerVars, handlerVars,
           generatorVars, loopVars
  <1>4. CASE ~(Tick \/ Signal \/ UNCHANGED vars)
    <2>1. clkStep # "signal"
      BY <1>4, QuiescentStep DEF TimelyInv, CalmTick
    <2>2. clkStep' = clkStep
      BY <1>4 DEF Next, ProcessRun, SchedulerSignal, SchedulerRun, GeneratorSignal, GeneratorRun
    <2> QED
      BY <2>1, <2>2 DEF CalmTick
  <1> QED
    BY <1>1, <1>2, <1>3, <1>4

(* A process lost to a missed SIGCONT stays lost.                          *)
LEMMA HungStays ==
    ASSUME Known, TimelyInv, Hung, [Next]_vars
    PROVE  /\ ~SchedulerRun
           /\ UNCHANGED <<spc, currentProcess, remainingTime>>
           /\ Hung'
  <1>1. ~SchedulerRun
    <2>1. termQueue = <<>>
      BY DEF Hung, Known, Inv, OnTheProcessor, TerminationIsExpected, TimelyInv, StoppedParked
    <2> QED
      BY <2>1
         DEF Hung, Finishing, SchedulerRun, runScheduler, BeginTick, handleProcessExit,
             fetchProcessFromQueue, ReceiveProcess, ReceiveMark, ExpireQuantum,
             SwitchProcess, KeepProcess, Dispatch, EndBusyTick, EndIdleTick, At
  <1>2. UNCHANGED <<spc, currentProcess, remainingTime>>
    BY <1>1, SchedulerOnly
  <1>3. \A p \in stopped : p \in stopped'
    BY <1>1
       DEF Next, vars, Tick, IncrementClk, Signal, SignalGroup, outsideClk, ProcessRun,
           ProcessStep, InheritedClkHandler, IgnoreClk, Park, Exec, Terminate,
           SchedulerSignal, schedulerClkHandler, EnterClkHandler, ReinstallClkHandler,
           KilledByTick, GeneratorSignal, pgClkHandler, checkChildProcess, EnterCheckChild,
           ReapProcess, ReapScheduler, LeaveCheckChild, GeneratorRun, runProcessGenerator,
           DownTick, DownScheduler, Arrive, NoArrival, Scan, forkProcess, Allocate,
           SendProcess, EndScan, EndRound, WaitScheduler, outsideGenerator, procVars
  <1> QED
    BY <1>1, <1>2, <1>3 DEF Hung, Finishing

(* What the scheduler is told of ticks between the top of its loop and the *)
(* next top: nothing.                                                      *)
LEMMA NoTickInside ==
    ASSUME Known, TimelyInv, Alive, spc # "top", ~Hung
    PROVE  schedulerSem = 0 /\ Late(Scheduler) = 0
  BY DEF TimelyInv, TickServed, Late, Known, Inv, TypeInv, TypeOK, KernelTypeOK

(* A tick comes when the scheduler is back at the top, unless it is hung.  *)
LEMMA QuietScheduler ==
    ASSUME Known, TimelyInv, Quiescent, Alive, clkStep = "sleep"
    PROVE  Hung \/ (spc = "top" /\ schedulerSem = 0)
  <1> SUFFICES ASSUME ~Hung, spc # "top" PROVE FALSE
    BY DEF Quiescent, SchedulerBlocked, Alive
  <1>1. pgc # "exited" /\ usr2 = {}
    BY DEF Known, ExitsLast, Alive, Quiescent
  <1>2. CASE Finishing
    <2>1. termQueue = <<>> /\ currentProcess \in Procs /\ currentProcess # NULL
      BY <1>2, EndContext
         DEF Quiescent, SchedulerBlocked, Alive, Finishing, Known, Inv, TypeInv, TypeOK,
             LoopsWellPlaced, SchedulerTypeOK
    <2>2. stage[currentProcess] \in {"none", "zombie", "reaped"}
      BY <1>2, <2>1 DEF Quiescent, ProcessBlocked, Hung, Known, ServiceInv
    <2>3. stage[currentProcess] # "none"
      BY <2>1 DEF Known, Inv, OnTheWay, QueuedHavePCB, Unborn
    <2>4. stage[currentProcess] # "zombie"
      BY <1>1, <2>1 DEF TimelyInv, ExitNoticed, Quiescent, GeneratorBlocked
    <2>5. pcbState[currentProcess] # "FINISHED"
      BY <1>2, <2>1 DEF Known, ServiceInv, Finishing
    <2> QED
      BY <2>1, <2>2, <2>3, <2>4, <2>5 DEF TimelyInv, ReapedAwaited
  <1>3. CASE ~Finishing
    <2>1. spc = "receive" /\ pcbQueue = <<>>
      BY <1>3 DEF Quiescent, SchedulerBlocked, Alive, Finishing
    <2>2. (Requested \/ Serving) /\ ~pgNoMore
      BY <1>1, <2>1
         DEF Known, Inv, RendezvousInv, Rendezvous, Requested, Serving, Answered
    <2>3. Requested
      BY <1>1, <2>2 DEF Serving, InRound, Quiescent, GeneratorBlocked
    <2>4. pgc # "wait"
      BY <2>2 DEF Known, Inv, RendezvousInv, LastRound
    <2>5. (pgc = "down" /\ pgSem = 0) \/ (pgc = "downscheduler" /\ pgSchedulerSem = 0)
      BY <1>1, <2>4 DEF Quiescent, GeneratorBlocked
    <2>6. pgc = "down" /\ RoundsDue = 0
      BY <1>1, <2>3, <2>5 DEF Requested, RoundsDue, Late
    <2>7. RequestsDue > 0
      BY <1>1, <2>1, <2>3
         DEF Requested, RequestsDue, Late, Known, Inv, TypeInv, TypeOK, KernelTypeOK
    <2> QED
      BY <1>1, <2>2, <2>6, <2>7 DEF TimelyInv, RoundsPaired
  <1> QED
    BY <1>2, <1>3

(* No child is signalled: those that could be have parked.                 *)
LEMMA SignalReaches ==
    ASSUME Known, TimelyInv, Signal
    PROVE  /\ Quiescent
           /\ clkStep = "signal" /\ clkStep' = "sleep"
           /\ usr2' = usr2 \cup (IF Alive THEN {PG, Scheduler} ELSE {PG})
           /\ Alive => usr2 = {} /\ pgc # "exited"
  <1>1. Quiescent /\ clkStep = "signal" /\ clkStep' = "sleep"
    BY DEF Signal, SignalGroup, TimelyInv, CalmTick
  <1>2. \A p \in Procs : stage[p] # "forked"
    BY <1>1 DEF Quiescent, ProcessBlocked, TimelyInv, StoppedParked
  <1>3. Alive => usr2 = {} /\ pgc # "exited"
    BY <1>1 DEF Quiescent, Known, ExitsLast, Alive
  <1>4. {p \in Procs : stage[p] = "forked"} = {}
    BY <1>2
  <1>5. usr2' = usr2 \cup SignalTargets
    BY DEF Signal, SignalGroup
  <1>6. SignalTargets = IF Alive THEN {PG, Scheduler} ELSE {PG}
    BY <1>4 DEF SignalTargets, Alive
  <1> QED
    BY <1>1, <1>3, <1>5, <1>6

LEMMA ChildrenUnsignalledStep ==
    ASSUME Known, TimelyInv, [Next]_vars
    PROVE  ChildrenUnsignalled'
  <1>1. CASE Signal
    BY <1>1, SignalReaches, ConstantsAssumption
       DEF TimelyInv, ChildrenUnsignalled, Procs, PG, Scheduler
  <1>2. CASE ~Signal
    <2>1. usr2' \subseteq usr2
      BY <1>2
         DEF Next, vars, Tick, IncrementClk, outsideClk, ProcessRun,
             ProcessStep, InheritedClkHandler, IgnoreClk, Park, Exec, Terminate,
             SchedulerSignal, schedulerClkHandler, EnterClkHandler, ReinstallClkHandler,
             KilledByTick, SchedulerRun, runScheduler, BeginTick, handleProcessExit,
             fetchProcessFromQueue, ReceiveProcess, ReceiveMark, ExpireQuantum,
             SwitchProcess, KeepProcess, Dispatch, EndBusyTick, EndIdleTick,
             outsideScheduler, GeneratorSignal, pgClkHandler, checkChildProcess,
             EnterCheckChild, ReapProcess, ReapScheduler, LeaveCheckChild, GeneratorRun,
             runProcessGenerator, DownTick, DownScheduler, Arrive, NoArrival, Scan,
             forkProcess, Allocate, SendProcess, EndScan, EndRound, WaitScheduler, sigVars
    <2> QED
      BY <2>1 DEF TimelyInv, ChildrenUnsignalled
  <1> QED
    BY <1>1, <1>2

(* What a step may do to the stage of a child.                             *)
LEMMA StageSteps ==
    ASSUME Known, [Next]_vars, NEW p \in Procs
    PROVE  \/ stage'[p] = stage[p]
           \/ stage[p] = "none" /\ stage'[p] = "forked"
           \/ stage[p] = "forked" /\ stage'[p] = "armed"
           \/ stage[p] = "armed" /\ stage'[p] = "parked" /\ stopped' = stopped \cup {p}
           \/ stage[p] = "parked" /\ stage'[p] = "execed" /\ p \notin stopped
           \/ stage[p] = "execed" /\ stage'[p] = "zombie" /\ p \notin stopped /\ sigchld'
           \/ stage[p] = "zombie" /\ stage'[p] = "reaped" /\ termQueue' = Append(termQueue, p)
  <1>1. stage \in [Procs -> Stages]
    BY EndContext DEF Known
  <1>2. CASE ~GeneratorRun /\ ~GeneratorSignal
    BY <1>1, <1>2
       DEF Next, vars, Tick, IncrementClk, Signal, SignalGroup, outsideClk, ProcessRun,
           ProcessStep, InheritedClkHandler, IgnoreClk, Park, Exec, Terminate, Goes,
           SchedulerSignal, schedulerClkHandler, EnterClkHandler, ReinstallClkHandler,
           KilledByTick, SchedulerRun, runScheduler, BeginTick, handleProcessExit,
           fetchProcessFromQueue, ReceiveProcess, ReceiveMark, ExpireQuantum,
           SwitchProcess, KeepProcess, Dispatch, EndBusyTick, EndIdleTick,
           outsideScheduler, procVars
  <1>3. CASE GeneratorSignal
    BY <1>1, <1>3
       DEF GeneratorSignal, pgClkHandler, checkChildProcess, EnterCheckChild, ReapProcess,
           ReapScheduler, LeaveCheckChild
  <1>4. CASE GeneratorRun
    <2>1. CASE forkProcess
      <3>1. stage[pdata] = "none" /\ stage' = [stage EXCEPT ![pdata] = "forked"]
        BY <2>1 DEF forkProcess, AtLoop, Known, Inv, OnTheWay, AdmittedFresh, Admitting
      <3> QED
        BY <1>1, <3>1
    <2>2. CASE ~forkProcess
      BY <1>4, <2>2
         DEF GeneratorRun, runProcessGenerator, DownTick, DownScheduler, Arrive, NoArrival,
             Scan, Allocate, SendProcess, EndScan, EndRound, WaitScheduler
    <2> QED
      BY <2>1, <2>2
  <1> QED
    BY <1>2, <1>3, <1>4

LEMMA StoppedParkedStep ==
    ASSUME Known, TimelyInv, [Next]_vars
    PROVE  StoppedParked'
  <1>1. \A p \in stopped : p \in Procs
    BY DEF Known, Inv, TypeInv, TypeOK, KernelTypeOK
  <1>2. CASE SwitchProcess
    <2>1. /\ spc = "switch" /\ Alive /\ stage' = stage
          /\ stopped' \subseteq stopped \cup {currentProcess}
      BY <1>2 DEF SwitchProcess, At, Exchange, outsideScheduler, Alive
    <2>2. currentProcess \in Procs /\ currentProcess # NULL
      BY <2>1, EndContext DEF Known, Inv, TypeInv, TypeOK, SchedulerTypeOK, LoopsWellPlaced
    <2>3. stage[currentProcess] \in {"parked", "execed", "zombie", "reaped"}
      BY <2>1, <2>2 DEF TimelyInv, Settled
    <2>4. stage[currentProcess] # "zombie"
      BY <2>1, <2>2 DEF Known, Inv, OnTheProcessor, Finishing
    <2>5. stage[currentProcess] # "reaped"
      BY <2>1, <2>2 DEF TimelyInv, ReapedAwaited, Known, ServiceInv, Finishing
    <2> QED
      BY <2>1, <2>3, <2>4, <2>5 DEF TimelyInv, StoppedParked
  <1>3. CASE ~SwitchProcess
    <2>1. \A p \in stopped' : p \in stopped \/ (p \in Procs /\ stage'[p] = "parked")
      BY <1>3, EndContext
         DEF Next, vars, Tick, IncrementClk, Signal, SignalGroup, outsideClk, ProcessRun,
             ProcessStep, InheritedClkHandler, IgnoreClk, Park, Exec, Terminate, Goes,
             SchedulerSignal, schedulerClkHandler, EnterClkHandler, ReinstallClkHandler,
             KilledByTick, SchedulerRun, runScheduler, BeginTick, handleProcessExit,
             fetchProcessFromQueue, ReceiveProcess, ReceiveMark, ExpireQuantum,
             KeepProcess, Dispatch, EndBusyTick, EndIdleTick, procVars, Known,
             GeneratorSignal, pgClkHandler, checkChildProcess, EnterCheckChild, ReapProcess,
             ReapScheduler, LeaveCheckChild, GeneratorRun, runProcessGenerator, DownTick,
             DownScheduler, Arrive, NoArrival, Scan, forkProcess, Allocate, SendProcess,
             EndScan, EndRound, WaitScheduler, outsideGenerator
    <2>2. \A p \in stopped : stage'[p] \in {"parked", "execed"}
      BY <1>1, StageSteps DEF TimelyInv, StoppedParked
    <2> QED
      BY <2>1, <2>2 DEF StoppedParked
  <1> QED
    BY <1>2, <1>3

LEMMA ExitNoticedStep ==
    ASSUME Known, TimelyInv, [Next]_vars
    PROVE  ExitNoticed'
  <1> SUFFICES ASSUME NEW p \in Procs, stage'[p] = "zombie"
               PROVE  sigchld' \/ reaping' \/ pgc' = "exited"
    BY DEF ExitNoticed
  <1>1. stage[p] = "zombie" \/ sigchld'
    BY StageSteps
  <1>2. CASE stage[p] = "zombie"
    <2>1. sigchld \/ reaping \/ pgc = "exited"
      BY <1>2 DEF TimelyInv, ExitNoticed
    <2>2. CASE GeneratorSignal
      BY <1>2, <2>1, <2>2
         DEF GeneratorSignal, pgClkHandler, checkChildProcess, EnterCheckChild, ReapProcess,
             WaitsAgain, ReapScheduler, pgClearResources, LeaveCheckChild, sigVars
    <2>3. CASE GeneratorRun
      BY <2>1, <2>3
         DEF GeneratorRun, runProcessGenerator, DownTick, DownScheduler, Arrive, NoArrival,
             Scan, forkProcess, Allocate, SendProcess, EndScan, EndRound, WaitScheduler,
             AtLoop, sigVars
    <2>4. CASE ~GeneratorSignal /\ ~GeneratorRun
      <3>1. UNCHANGED <<pgc, reaping>>
        BY <2>4
           DEF Next, vars, Tick, Signal, outsideClk, ProcessRun, SchedulerSignal,
               SchedulerRun, generatorVars
      <3>2. sigchld => sigchld'
        BY <2>4
           DEF Next, vars, Tick, IncrementClk, Signal, SignalGroup, ProcessRun, ProcessStep,
               InheritedClkHandler, IgnoreClk, Park, Exec, Terminate, SchedulerSignal,
               schedulerClkHandler, EnterClkHandler, ReinstallClkHandler, KilledByTick,
               SchedulerRun, runScheduler, BeginTick, handleProcessExit,
               fetchProcessFromQueue, ReceiveProcess, ReceiveMark, ExpireQuantum,
               SwitchProcess, KeepProcess, Dispatch, EndBusyTick, EndIdleTick, sigVars
      <3> QED
        BY <2>1, <3>1, <3>2
    <2> QED
      BY <2>2, <2>3, <2>4
  <1> QED
    BY <1>1, <1>2

LEMMA ReapedAwaitedStep ==
    ASSUME Known, TimelyInv, [Next]_vars
    PROVE  ReapedAwaited'
  <1> SUFFICES ASSUME NEW p \in Procs, stage'[p] = "reaped", pcbState'[p] # "FINISHED"
               PROVE  p = currentProcess' /\ Finishing' /\ termQueue' # <<>>
    BY DEF ReapedAwaited
  <1>1. CASE SchedulerRun
    <2>1. stage[p] = "reaped"
      BY <1>1 DEF SchedulerRun, runScheduler, BeginTick, handleProcessExit,
                  fetchProcessFromQueue, ReceiveProcess, ReceiveMark, ExpireQuantum,
                  SwitchProcess, KeepProcess, Dispatch, EndBusyTick, EndIdleTick,
                  outsideScheduler
    <2>2. CASE Finishing
      <3>1. handleProcessExit
        BY <1>1, <2>2
           DEF Finishing, SchedulerRun, runScheduler, BeginTick, fetchProcessFromQueue,
               ReceiveProcess, ReceiveMark, ExpireQuantum, SwitchProcess, KeepProcess,
               Dispatch, EndBusyTick, EndIdleTick, At
      <3>2. pcbState' = [pcbState EXCEPT ![currentProcess] = "FINISHED"]
        BY <3>1 DEF handleProcessExit
      <3> QED
        BY <2>1, <3>2, EndContext DEF Known, TimelyInv, ReapedAwaited
    <2>3. CASE ~Finishing
      <3>1. pcbState[p] = "FINISHED"
        BY <2>1, <2>3 DEF TimelyInv, ReapedAwaited
      <3>2. p # currentProcess
        BY <2>3, <3>1, EndContext DEF Known, ServiceInv
      <3>3. pcbState[p] # "READY" /\ pcbState[p] # "none"
        BY <3>1
      <3>4. CASE ReceiveProcess
        <4>1. PICK q : /\ q = Head(pcbQueue) /\ q \notin Marks /\ pcbQueue # <<>>
                       /\ pushToReadyQueue(q, Work(q))
          BY <3>4 DEF ReceiveProcess
        <4>2. 1 \in DOMAIN pcbQueue /\ q = pcbQueue[1]
          BY <4>1, EndContext DEF Known
        <4>3. pcbState[q] = "none"
          BY <4>1, <4>2 DEF Known, Inv, OnTheWay, MessagesFresh
        <4> QED
          BY <3>1, <4>1, <4>3, EndContext DEF pushToReadyQueue, Known
      <3>5. CASE ~ReceiveProcess
        BY <1>1, <2>3, <3>1, <3>2, <3>5, EndContext
           DEF Known, Finishing, SchedulerRun, runScheduler, BeginTick, handleProcessExit,
               fetchProcessFromQueue, ReceiveMark, ExpireQuantum, pushToReadyQueue,
               SwitchProcess, KeepProcess, Dispatch, FirstReady, EndBusyTick, EndIdleTick,
               At, pcbVars
      <3> QED
        BY <3>4, <3>5
    <2> QED
      BY <2>2, <2>3
  <1>2. CASE ~SchedulerRun
    <2>1. UNCHANGED <<spc, currentProcess, pcbState>>
      BY <1>2, SchedulerOnly DEF pcbVars
    <2>2. termQueue \in Seq(Procs)
      BY DEF Known, Inv, TypeInv, TypeOK, KernelTypeOK
    <2>3. CASE stage[p] = "zombie"
      <3>1. p = currentProcess /\ Finishing /\ termQueue' = Append(termQueue, p)
        BY <2>3, StageSteps DEF Known, Inv, OnTheProcessor
      <3> QED
        BY <2>1, <2>2, <3>1 DEF Finishing
    <2>4. CASE stage[p] = "reaped"
      <3>1. p = currentProcess /\ Finishing /\ termQueue # <<>>
        BY <2>1, <2>4 DEF TimelyInv, ReapedAwaited
      <3>2. termQueue' = termQueue \/ \E q \in Procs : termQueue' = Append(termQueue, q)
        BY <1>2
           DEF Next, vars, Tick, IncrementClk, Signal, SignalGroup, outsideClk, ProcessRun,
               ProcessStep, InheritedClkHandler, IgnoreClk, Park, Exec, Terminate,
               SchedulerSignal, schedulerClkHandler, EnterClkHandler, ReinstallClkHandler,
               KilledByTick, GeneratorSignal, pgClkHandler, checkChildProcess,
               EnterCheckChild, ReapProcess, ReapScheduler, LeaveCheckChild, GeneratorRun,
               runProcessGenerator, DownTick, DownScheduler, Arrive, NoArrival, Scan,
               forkProcess, Allocate, SendProcess, EndScan, EndRound, WaitScheduler,
               sendProcesstoScheduler, msgVars
      <3> QED
        BY <2>1, <2>2, <3>1, <3>2 DEF Finishing
    <2> QED
      BY <2>3, <2>4, StageSteps
  <1> QED
    BY <1>1, <1>2

LEMMA HandlerBackStep ==
    ASSUME Known, TimelyInv, [Next]_vars
    PROVE  HandlerBack'
  <1>1. CASE Signal
    <2>1. Alive => schedulerHandler = "installed"
      BY <1>1, SignalReaches DEF Quiescent, SchedulerBlocked, Alive
    <2>2. UNCHANGED <<schedulerStage, schedulerHandler, spc>>
      BY <1>1 DEF Signal, SignalGroup, outsideClk, schedulerVars, handlerVars
    <2> QED
      BY <2>1, <2>2 DEF HandlerBack, TimelyInv, Alive
  <1>2. CASE SchedulerSignal
    BY <1>2
       DEF SchedulerSignal, schedulerClkHandler, EnterClkHandler, ReinstallClkHandler,
           KilledByTick, HandlerBack, TimelyInv, Alive
  <1>3. CASE SchedulerRun
    BY <1>3
       DEF SchedulerRun, runScheduler, BeginTick, handleProcessExit, fetchProcessFromQueue,
           ReceiveProcess, ReceiveMark, ExpireQuantum, SwitchProcess, KeepProcess, Dispatch,
           EndBusyTick, EndIdleTick, At, outsideScheduler, handlerVars, HandlerBack,
           TimelyInv, Alive
  <1>4. CASE ~Signal /\ ~SchedulerSignal /\ ~SchedulerRun
    <2>1. UNCHANGED <<schedulerHandler, spc>> /\ usr2' \subseteq usr2
      BY <1>4
         DEF Next, vars, Tick, IncrementClk, outsideClk, ProcessRun, ProcessStep,
             InheritedClkHandler, IgnoreClk, Park, Exec, Terminate, GeneratorSignal,
             pgClkHandler, checkChildProcess, EnterCheckChild, ReapProcess, ReapScheduler,
             LeaveCheckChild, GeneratorRun, runProcessGenerator, DownTick, DownScheduler,
             Arrive, NoArrival, Scan, forkProcess, Allocate, SendProcess, EndScan, EndRound,
             WaitScheduler, schedulerVars, handlerVars, sigVars
    <2>2. Alive' <=> Alive
      BY <1>4
         DEF Next, vars, Tick, IncrementClk, ProcessRun, ProcessStep,
             InheritedClkHandler, IgnoreClk, Park, Exec, Terminate, GeneratorSignal,
             pgClkHandler, checkChildProcess, EnterCheckChild, ReapProcess, ReapScheduler,
             LeaveCheckChild, GeneratorRun, runProcessGenerator, DownTick, DownScheduler,
             Arrive, NoArrival, Scan, forkProcess, Allocate, SendProcess, EndScan, EndRound,
             WaitScheduler, Alive
    <2> QED
      BY <2>1, <2>2 DEF HandlerBack, TimelyInv
  <1> QED
    BY <1>1, <1>2, <1>3, <1>4

(* What can make the scheduler later than it was.                          *)
LEMMA SchedulerTold ==
    ASSUME Overrun = FALSE, Known, TimelyInv, [Next]_vars, ~SchedulerRun, Alive'
    PROVE  /\ Alive
           /\ \/ /\ Tick /\ Quiescent /\ clkStep = "sleep" /\ schedulerSem' = schedulerSem
                 /\ Late(Scheduler) = 0 /\ Late(Scheduler)' = 1
                 /\ clk' = clk + 1 /\ schedulerCurrentClk' = schedulerCurrentClk
              \/ /\ EnterClkHandler /\ schedulerSem' = schedulerSem + 1
                 /\ Late(Scheduler) = 1 /\ Late(Scheduler)' = 0
                 /\ clk' = clk /\ schedulerCurrentClk' = clk
              \/ /\ schedulerSem' = schedulerSem /\ Late(Scheduler)' = Late(Scheduler)
                 /\ clk' = clk /\ schedulerCurrentClk' = schedulerCurrentClk
  <1>1. Alive
    BY DEF Alive, Next, vars, Tick, IncrementClk, Signal, SignalGroup, ProcessRun,
           ProcessStep, InheritedClkHandler, IgnoreClk, Park, Exec, Terminate,
           SchedulerSignal, schedulerClkHandler, EnterClkHandler, ReinstallClkHandler,
           KilledByTick, GeneratorSignal, pgClkHandler, checkChildProcess, EnterCheckChild,
           ReapProcess, ReapScheduler, LeaveCheckChild, GeneratorRun, runProcessGenerator,
           DownTick, DownScheduler, Arrive, NoArrival, Scan, forkProcess, Allocate,
           SendProcess, EndScan, EndRound, WaitScheduler
  <1>2. CASE Tick
    <2>1. Quiescent /\ clkStep = "sleep" /\ clkStep' = "signal"
          /\ schedulerSem' = schedulerSem
          /\ clk' = clk + 1 /\ schedulerCurrentClk' = schedulerCurrentClk
      BY <1>2 DEF Tick, IncrementClk, semVars, outsideClk, schedulerVars, handlerVars
    <2>2. usr2 = {}
      BY <1>1, <2>1 DEF Quiescent, Known, ExitsLast, Alive
    <2> QED
      BY <1>1, <1>2, <2>1, <2>2 DEF Late
  <1>3. CASE Signal
    <2>1. UNCHANGED <<schedulerSem, clk, schedulerCurrentClk>>
      BY <1>3 DEF Signal, SignalGroup, semVars, clkWord, outsideClk, schedulerVars, handlerVars
    <2> QED
      BY <1>1, <1>3, <2>1, SignalReaches DEF Late
  <1>4. CASE EnterClkHandler
    <2>1. /\ Scheduler \in usr2 /\ usr2' = usr2 \ {Scheduler}
          /\ schedulerSem' = schedulerSem + 1
          /\ clk' = clk /\ schedulerCurrentClk' = clk
      BY <1>4 DEF EnterClkHandler, clkWord
    <2>2. clkStep # "signal"
      BY <1>1, <2>1 DEF TimelyInv, CalmTick, Quiescent, Known, ExitsLast, Alive
    <2>3. clkStep' = clkStep
      BY <1>4, <2>1, <2>2
         DEF Next, vars, Tick, IncrementClk, Signal, SignalGroup, ProcessRun,
             SchedulerSignal, GeneratorSignal, GeneratorRun, sigVars, semVars
    <2> QED
      BY <1>1, <1>4, <2>1, <2>2, <2>3 DEF Late
  <1>5. CASE ~Tick /\ ~Signal /\ ~EnterClkHandler
    <2>1. UNCHANGED <<clkStep, schedulerSem, clk, schedulerCurrentClk>>
      BY <1>5
         DEF Next, vars, clkWord, schedulerVars, handlerVars, ProcessRun, ProcessStep, InheritedClkHandler, IgnoreClk, Park,
             Exec, Terminate, SchedulerSignal, schedulerClkHandler, ReinstallClkHandler,
             KilledByTick, GeneratorSignal, pgClkHandler, checkChildProcess,
             EnterCheckChild, ReapProcess, ReapScheduler, LeaveCheckChild, GeneratorRun,
             runProcessGenerator, DownTick, DownScheduler, Arrive, NoArrival, Scan,
             forkProcess, Allocate, SendProcess, EndScan, EndRound, WaitScheduler, semVars,
             outsideGenerator
    <2>2. Scheduler \in usr2' <=> Scheduler \in usr2
      BY <1>1, <1>5, ConstantsAssumption
         DEF Next, vars, ProcessRun, ProcessStep, InheritedClkHandler, IgnoreClk, Park,
             Exec, Terminate, SchedulerSignal, schedulerClkHandler, ReinstallClkHandler,
             KilledByTick, GeneratorSignal, pgClkHandler, checkChildProcess,
             EnterCheckChild, ReapProcess, ReapScheduler, LeaveCheckChild, GeneratorRun,
             runProcessGenerator, DownTick, DownScheduler, Arrive, NoArrival, Scan,
             forkProcess, Allocate, SendProcess, EndScan, EndRound, WaitScheduler, sigVars,
             Procs, PG, Scheduler, Alive, TimelyInv, HandlerBack
    <2> QED
      BY <1>1, <2>1, <2>2 DEF Late
  <1> QED
    BY <1>2, <1>3, <1>4, <1>5

LEMMA TickServedStep ==
    ASSUME Overrun = FALSE, Known, TimelyInv, [Next]_vars
    PROVE  TickServed'
  <1> SUFFICES ASSUME Alive'
               PROVE  /\ spc' # "top" /\ schedulerSem' + Late(Scheduler)' > 0 => Hung'
                      /\ spc' = "top" => schedulerSem' + Late(Scheduler)' <= 1
    BY DEF TickServed
  <1>1. schedulerSem \in Nat /\ Late(Scheduler) \in {0, 1}
    BY DEF Late, Known, Inv, TypeInv, TypeOK, KernelTypeOK
  <1>2. CASE SchedulerRun
    <2>1. Alive /\ ~Hung
      BY <1>2, HungStays DEF SchedulerRun, runScheduler, BeginTick, handleProcessExit,
             fetchProcessFromQueue, ReceiveProcess, ReceiveMark, ExpireQuantum,
             SwitchProcess, KeepProcess, Dispatch, EndBusyTick, EndIdleTick, At, Alive
    <2>2. Late(Scheduler)' = Late(Scheduler)
      BY <1>2
         DEF SchedulerRun, runScheduler, BeginTick, handleProcessExit,
             fetchProcessFromQueue, ReceiveProcess, ReceiveMark, ExpireQuantum,
             SwitchProcess, KeepProcess, Dispatch, EndBusyTick, EndIdleTick,
             outsideScheduler, Late
    <2>3. CASE BeginTick
      BY <1>1, <2>1, <2>2, <2>3 DEF BeginTick, At, TimelyInv, TickServed
    <2>4. CASE ~BeginTick
      <3>1. spc # "top" /\ schedulerSem' = schedulerSem
        BY <1>2, <2>4
           DEF SchedulerRun, runScheduler, handleProcessExit, fetchProcessFromQueue,
               ReceiveProcess, ReceiveMark, ExpireQuantum, SwitchProcess, KeepProcess,
               Dispatch, EndBusyTick, EndIdleTick, At
      <3> QED
        BY <2>1, <2>2, <3>1, NoTickInside
    <2> QED
      BY <2>3, <2>4
  <1>3. CASE ~SchedulerRun
    <2>1. spc' = spc /\ (Hung => Hung')
      BY <1>3, SchedulerOnly, HungStays
    <2>2. /\ Alive
          /\ \/ Quiescent /\ clkStep = "sleep" /\ schedulerSem' = schedulerSem
                  /\ Late(Scheduler)' = 1
             \/ schedulerSem' = schedulerSem + 1 /\ Late(Scheduler) = 1 /\ Late(Scheduler)' = 0
             \/ schedulerSem' = schedulerSem /\ Late(Scheduler)' = Late(Scheduler)
      BY <1>3, SchedulerTold
    <2>3. CASE Quiescent /\ clkStep = "sleep" /\ schedulerSem' = schedulerSem
                 /\ Late(Scheduler)' = 1
      BY <1>1, <2>1, <2>2, <2>3, QuietScheduler DEF Hung, Finishing
    <2>4. CASE schedulerSem' + Late(Scheduler)' = schedulerSem + Late(Scheduler)
      BY <2>1, <2>2, <2>4 DEF TimelyInv, TickServed
    <2> QED
      BY <1>1, <2>2, <2>3, <2>4
  <1> QED
    BY <1>2, <1>3

LEMMA SettledStep ==
    ASSUME Overrun = FALSE, Known, TimelyInv, [Next]_vars
    PROVE  Settled'
  <1> DEFINE Past == {"parked", "execed", "zombie", "reaped"}
  <1> SUFFICES ASSUME Alive', currentProcess' # NULL,
                      \/ schedulerSem' > 0 \/ Scheduler \in usr2'
                      \/ spc' \in {"finish", "fetch", "receive", "quantum", "switch"}
               PROVE  stage'[currentProcess'] \in Past
    BY DEF Settled
  <1>1. schedulerSem \in Nat
    BY DEF Known, Inv, TypeInv, TypeOK, KernelTypeOK
  <1>2. CASE SchedulerRun
    <2>1. Alive /\ ~Hung /\ stage' = stage /\ usr2' = usr2
      BY <1>2, HungStays DEF SchedulerRun, runScheduler, BeginTick, handleProcessExit,
             fetchProcessFromQueue, ReceiveProcess, ReceiveMark, ExpireQuantum,
             SwitchProcess, KeepProcess, Dispatch, EndBusyTick, EndIdleTick, At, Alive,
             outsideScheduler
    <2>2. CASE BeginTick
      BY <1>1, <2>1, <2>2 DEF BeginTick, At, TimelyInv, Settled
    <2>3. CASE ~BeginTick
      <3>1. spc # "top" /\ schedulerSem' = schedulerSem
        BY <1>2, <2>3
           DEF SchedulerRun, runScheduler, handleProcessExit, fetchProcessFromQueue,
               ReceiveProcess, ReceiveMark, ExpireQuantum, SwitchProcess, KeepProcess,
               Dispatch, EndBusyTick, EndIdleTick, At
      <3>2. schedulerSem' = 0 /\ Scheduler \notin usr2'
        BY <2>1, <3>1, NoTickInside DEF Late
      <3>3. spc \in {"fetch", "receive", "quantum"} /\ currentProcess' = currentProcess
        BY <1>2, <2>3, <3>2
           DEF SchedulerRun, runScheduler, handleProcessExit, fetchProcessFromQueue,
               ReceiveProcess, ReceiveMark, ExpireQuantum, SwitchProcess, KeepProcess,
               Dispatch, EndBusyTick, EndIdleTick, At
      <3> QED
        BY <2>1, <3>3 DEF TimelyInv, Settled
    <2> QED
      BY <2>2, <2>3
  <1>3. CASE ~SchedulerRun
    <2>1. UNCHANGED <<spc, currentProcess>> /\ Alive
      BY <1>3, SchedulerOnly, SchedulerTold
    <2>2. currentProcess \in Procs
      BY <2>1, EndContext DEF Known
    <2>3. stage[currentProcess] \in Past => stage'[currentProcess] \in Past
      BY <2>2, StageSteps
    <2>4. CASE schedulerSem > 0 \/ Scheduler \in usr2
                 \/ spc \in {"finish", "fetch", "receive", "quantum", "switch"}
      BY <2>1, <2>3, <2>4 DEF TimelyInv, Settled
    <2>5. CASE Scheduler \in usr2' /\ Scheduler \notin usr2
      <3>1. Signal
        BY <2>5, ConstantsAssumption, <1>3
           DEF Next, vars, Tick, IncrementClk, outsideClk, ProcessRun, ProcessStep,
               InheritedClkHandler, IgnoreClk, Park, Exec, Terminate, SchedulerSignal,
               schedulerClkHandler, EnterClkHandler, ReinstallClkHandler, KilledByTick,
               GeneratorSignal, pgClkHandler, checkChildProcess, EnterCheckChild,
               ReapProcess, ReapScheduler, LeaveCheckChild, GeneratorRun,
               runProcessGenerator, DownTick, DownScheduler, Arrive, NoArrival, Scan,
               forkProcess, Allocate, SendProcess, EndScan, EndRound, WaitScheduler, sigVars
      <3>2. Quiescent
        BY <3>1, SignalReaches
      <3>3. stage[currentProcess] # "none"
        BY <2>1, <2>2 DEF Known, Inv, OnTheWay, QueuedHavePCB, Unborn
      <3>4. stage[currentProcess] \in Past
        BY <2>2, <3>2, <3>3 DEF Quiescent, ProcessBlocked, TimelyInv, StoppedParked
      <3> QED
        BY <2>1, <2>3, <3>4
    <2>6. CASE schedulerSem' > 0 /\ schedulerSem = 0
      <3>0. schedulerSem' # schedulerSem
        BY <2>6
      <3>1. EnterClkHandler
        BY <1>3, <3>0, SchedulerTold
      <3>2. Scheduler \in usr2
        BY <3>1 DEF EnterClkHandler
      <3> QED
        BY <2>4, <3>2
    <2> QED
      BY <1>1, <2>1, <2>4, <2>5, <2>6
  <1> QED
    BY <1>2, <1>3

(* The generator starts a round for each tick it has handled, and in it    *)
(* waits for the scheduler's request for the same tick.                    *)
LEMMA RoundsPairedStep ==
    ASSUME Overrun = FALSE, Known, TimelyInv, [Next]_vars
    PROVE  RoundsPaired'
  <1> SUFFICES ASSUME ~pgNoMore', pgc' # "exited" PROVE RoundsDue' = RequestsDue'
    BY DEF RoundsPaired
  <1>1. ~pgNoMore /\ pgc # "exited"
    BY DEF Next, vars, Tick, Signal, outsideClk, ProcessRun, SchedulerSignal, SchedulerRun,
           GeneratorSignal, pgClkHandler, checkChildProcess, EnterCheckChild, ReapProcess,
           ReapScheduler, LeaveCheckChild, GeneratorRun, runProcessGenerator, DownTick,
           DownScheduler, Arrive, NoArrival, Scan, forkProcess, Allocate, SendProcess,
           EndScan, EndRound, WaitScheduler, AtLoop, generatorVars, loopVars
  <1>2. RoundsDue = RequestsDue
    BY <1>1 DEF TimelyInv, RoundsPaired
  <1>3. Alive
    BY <1>1 DEF TimelyInv, HandlerBack, Known, DoneInv
  <1>4. /\ schedulerSem \in Nat /\ pgSem \in Nat /\ pgSchedulerSem \in Nat
        /\ PG \notin Procs /\ Scheduler \notin Procs /\ PG # Scheduler
    BY ConstantsAssumption
       DEF Known, Inv, TypeInv, TypeOK, KernelTypeOK, Procs, PG, Scheduler
  <1>5. clkStep = "signal" => Quiescent /\ usr2 = {}
    BY <1>1 DEF TimelyInv, CalmTick, Quiescent
  <1>6. \/ spc = "receive" /\ (Requested \/ Serving \/ Answered)
        \/ spc # "receive" /\ pgSchedulerSem = 0 /\ ~InRound /\ ~noMoreProcesses
    BY <1>1 DEF Known, Inv, RendezvousInv, Rendezvous, Idle
  <1>7. CASE Tick
    <2>1. usr2 = {} /\ clkStep = "sleep" /\ clkStep' = "signal"
      BY <1>1, <1>7 DEF Tick, IncrementClk, Quiescent
    <2>2. UNCHANGED <<usr2, pgc, spc, schedulerSem, pgSem, pgSchedulerSem>>
      BY <1>7 DEF Tick, IncrementClk, outsideClk, sigVars, semVars, schedulerVars, generatorVars
    <2> QED
      BY <1>2, <1>4, <2>1, <2>2 DEF RoundsDue, RequestsDue, Late
  <1>8. CASE Signal
    <2>1. UNCHANGED <<pgc, spc, schedulerSem, pgSem, pgSchedulerSem>>
      BY <1>8 DEF Signal, SignalGroup, outsideClk, semVars, schedulerVars, generatorVars
    <2>2. clkStep = "signal" /\ PG \in usr2' /\ Scheduler \in usr2'
      BY <1>3, <1>8, SignalReaches
    <2> QED
      BY <1>2, <2>1, <2>2 DEF RoundsDue, RequestsDue, Late
  <1>9. ASSUME NEW p \in Procs, ProcessRun(p) PROVE RoundsDue' = RequestsDue'
    <2>1. ~InheritedClkHandler(p)
      BY DEF TimelyInv, ChildrenUnsignalled, InheritedClkHandler
    <2>2. UNCHANGED <<clkStep, pgc, spc, schedulerSem, pgSem, pgSchedulerSem>>
      BY <1>9, <2>1
         DEF ProcessRun, ProcessStep, IgnoreClk, Park, Exec, Terminate, semVars,
             schedulerVars, generatorVars
    <2>3. (PG \in usr2' <=> PG \in usr2) /\ (Scheduler \in usr2' <=> Scheduler \in usr2)
      BY <1>4, <1>9, <2>1
         DEF ProcessRun, ProcessStep, IgnoreClk, Park, Exec, Terminate, sigVars
    <2> QED
      BY <1>2, <2>2, <2>3 DEF RoundsDue, RequestsDue, Late
  <1>10. CASE SchedulerSignal
    <2>1. ~KilledByTick
      BY <1>3 DEF TimelyInv, HandlerBack, KilledByTick
    <2>2. UNCHANGED <<clkStep, pgc, spc, pgSem, pgSchedulerSem>>
      BY <1>10, <2>1
         DEF SchedulerSignal, schedulerClkHandler, EnterClkHandler, ReinstallClkHandler,
             semVars, generatorVars
    <2>3. CASE EnterClkHandler
      <3>1. /\ Scheduler \in usr2 /\ usr2' = usr2 \ {Scheduler}
            /\ schedulerSem' = schedulerSem + 1
        BY <2>3 DEF EnterClkHandler
      <3>2. clkStep # "signal"
        BY <1>5, <3>1
      <3> QED
        BY <1>2, <1>4, <2>2, <3>1, <3>2 DEF RoundsDue, RequestsDue, Late
    <2>4. CASE ReinstallClkHandler
      <3>1. UNCHANGED <<usr2, schedulerSem>>
        BY <2>4 DEF ReinstallClkHandler, sigVars, semVars
      <3> QED
        BY <1>2, <2>2, <3>1 DEF RoundsDue, RequestsDue, Late
    <2> QED
      BY <1>10, <2>1, <2>3, <2>4 DEF SchedulerSignal, schedulerClkHandler
  <1>11. CASE SchedulerRun
    <2>1. UNCHANGED <<clkStep, pgc, pgSem, usr2>>
      BY <1>11
         DEF SchedulerRun, runScheduler, BeginTick, handleProcessExit,
             fetchProcessFromQueue, ReceiveProcess, ReceiveMark, ExpireQuantum,
             SwitchProcess, KeepProcess, Dispatch, EndBusyTick, EndIdleTick,
             outsideScheduler, generatorVars
    <2>2. RoundsDue' = RoundsDue /\ Late(Scheduler)' = Late(Scheduler)
      BY <2>1 DEF RoundsDue, Late
    <2>3. RequestsDue' = RequestsDue
      <3>1. CASE BeginTick
        BY <1>4, <2>2, <3>1 DEF BeginTick, At, RequestsDue, Late
      <3>2. CASE handleProcessExit
        BY <1>4, <2>2, <3>2 DEF handleProcessExit, At, RequestsDue, Late
      <3>3. CASE fetchProcessFromQueue
        BY <1>4, <1>6, <2>2, <3>3 DEF fetchProcessFromQueue, At, RequestsDue, Late
      <3>4. CASE ReceiveMark
        <4>1. spc = "receive" /\ pcbQueue # <<>> /\ spc' = "quantum"
              /\ UNCHANGED <<schedulerSem, pgSchedulerSem>>
          BY <3>4 DEF ReceiveMark, At
        <4>2. pgSchedulerSem = 0
          BY <1>6, <4>1 DEF Requested, Serving, Answered
        <4> QED
          BY <1>4, <2>2, <4>1, <4>2 DEF RequestsDue
      <3>5. CASE ReceiveProcess
        BY <2>2, <3>5 DEF ReceiveProcess, RequestsDue
      <3>6. CASE ExpireQuantum \/ SwitchProcess \/ KeepProcess \/ Dispatch
                   \/ EndBusyTick \/ EndIdleTick
        <4>1. /\ spc \notin {"finish", "fetch", "receive"}
              /\ spc' \notin {"finish", "fetch", "receive"}
              /\ UNCHANGED <<schedulerSem, pgSchedulerSem>>
          BY <3>6
             DEF ExpireQuantum, SwitchProcess, KeepProcess, Dispatch, EndBusyTick,
                 EndIdleTick, At
        <4> QED
          BY <2>2, <4>1 DEF RequestsDue
      <3> QED
        BY <1>11, <3>1, <3>2, <3>3, <3>4, <3>5, <3>6 DEF SchedulerRun, runScheduler
    <2> QED
      BY <1>2, <2>2, <2>3
  <1>12. CASE GeneratorSignal
    <2>1. UNCHANGED <<clkStep, spc, schedulerSem, pgSchedulerSem>>
      BY <1>12
         DEF GeneratorSignal, pgClkHandler, checkChildProcess, EnterCheckChild, ReapProcess,
             ReapScheduler, LeaveCheckChild, outsideGenerator, schedulerVars
    <2>2. CASE pgClkHandler
      <3>1. /\ PG \in usr2 /\ usr2' = usr2 \ {PG} /\ pgSem' = pgSem + 1 /\ pgc' = pgc
        BY <2>2 DEF pgClkHandler
      <3>2. clkStep # "signal"
        BY <1>5, <3>1
      <3> QED
        BY <1>2, <1>4, <2>1, <3>1, <3>2 DEF RoundsDue, RequestsDue, Late
    <2>3. CASE checkChildProcess
      <3>1. UNCHANGED <<usr2, pgSem>> /\ (pgc' = pgc \/ (pgc = "wait" /\ pgc' = "down"))
        BY <2>3
           DEF checkChildProcess, EnterCheckChild, ReapProcess, ReapScheduler,
               pgClearResources, LeaveCheckChild, sigVars
      <3> QED
        BY <1>2, <2>1, <3>1 DEF RoundsDue, RequestsDue, Late
    <2> QED
      BY <1>12, <2>2, <2>3 DEF GeneratorSignal
  <1>13. CASE GeneratorRun
    <2>1. UNCHANGED <<clkStep, usr2, spc, schedulerSem>>
      BY <1>13
         DEF GeneratorRun, runProcessGenerator, DownTick, DownScheduler, Arrive, NoArrival,
             Scan, forkProcess, Allocate, SendProcess, EndScan, EndRound, WaitScheduler,
             outsideGenerator, schedulerVars, sigVars
    <2>2. CASE DownTick
      <3>1. /\ pgc = "down" /\ pgc' = "downscheduler" /\ pgSem' = pgSem - 1
            /\ pgSchedulerSem' = pgSchedulerSem
        BY <1>1, <2>2 DEF DownTick, AtLoop, AfterTick
      <3> QED
        BY <1>2, <1>4, <2>1, <3>1 DEF RoundsDue, RequestsDue, Late
    <2>3. CASE DownScheduler
      <3>1. /\ pgc = "downscheduler" /\ pgc' = "arrive" /\ pgSem' = pgSem
            /\ pgSchedulerSem > 0 /\ pgSchedulerSem' = pgSchedulerSem - 1
        BY <2>3 DEF DownScheduler, AtLoop
      <3>2. spc = "receive" /\ pgSchedulerSem = 1
        BY <1>6, <3>1 DEF Requested, Serving, Answered
      <3> QED
        BY <1>2, <1>4, <2>1, <3>1, <3>2 DEF RoundsDue, RequestsDue, Late
    <2>4. CASE ~DownTick /\ ~DownScheduler
      <3>1. UNCHANGED <<pgSem, pgSchedulerSem>>
            /\ pgc # "downscheduler" /\ pgc' # "downscheduler"
        BY <1>13, <2>4
           DEF GeneratorRun, runProcessGenerator, Arrive, NoArrival, Scan, forkProcess,
               Allocate, SendProcess, EndScan, EndRound, WaitScheduler, AtLoop
      <3> QED
        BY <1>2, <2>1, <3>1 DEF RoundsDue, RequestsDue, Late
    <2> QED
      BY <2>2, <2>3, <2>4
  <1>14. CASE UNCHANGED vars
    BY <1>2, <1>14
       DEF vars, RoundsDue, RequestsDue, Late, sigVars, semVars, schedulerVars, generatorVars
  <1> QED
    BY <1>7, <1>8, <1>9, <1>10, <1>11, <1>12, <1>13, <1>14 DEF Next

LEMMA TimelyInvHolds ==
    ASSUME Overrun = FALSE
    PROVE  Spec => []TimelyInv
  <1>1. Init => TimelyInv
    BY TimelyInvInit
  <1>2. Known /\ TimelyInv /\ [Next]_vars => TimelyInv'
    BY CalmTickStep, ChildrenUnsignalledStep, StoppedParkedStep, SettledStep,
       HandlerBackStep, TickServedStep, ExitNoticedStep, ReapedAwaitedStep, RoundsPairedStep
       DEF TimelyInv
  <1> QED
    BY <1>1, <1>2, KnownHolds, PTL DEF Spec

-----------------------------------------------------------------------------
(* The clock as the scheduler and the generator have read it.              *)

Seen(x) == clk - Late(x)

ArriveTime(p) == processesArray[p].arriveTime

ClockRead ==
    /\ clk >= -1
    /\ clkStep = "signal" \/ Scheduler \in usr2 => clk >= 0
    /\ pgCurrentClk <= clk
    /\ pgc # "exited" => pgCurrentClk = Seen(PG)
    /\ Alive => schedulerCurrentClk = IF Seen(Scheduler) < 0 THEN 0 ELSE Seen(Scheduler)

(* Nothing arrives, and no PCB is made, before its time.                   *)
ArrivedInTime ==
    /\ \A p \in Entries : p < processIndex => ArriveTime(p) <= pgCurrentClk
    /\ Alive => \A p \in Entries : HasPCB(p) => ArriveTime(p) <= Seen(Scheduler)

ClockInv == ClockRead /\ ArrivedInTime

LEMMA TimeTypes ==
    ASSUME Known
    PROVE  /\ clk \in Int /\ pgCurrentClk \in Int /\ schedulerCurrentClk \in Int
           /\ schedulerSem \in Nat /\ sumWait \in Int
           /\ \A p \in Entries : ArriveTime(p) \in Nat /\ Work(p) \in Nat
           /\ waitTime \in [Procs -> Int] /\ startTime \in [Procs -> Int]
           /\ finishTime \in [Procs -> Int]
           /\ processIndex \in 1..(processCount + 1) /\ processCount \in Nat
           /\ \A x : Late(x) \in {0, 1}
  BY WorkloadFacts
     DEF Known, Inv, TypeInv, TypeOK, KernelTypeOK, SchedulerTypeOK, GeneratorTypeOK, Work,
         ArriveTime, ProcessData, Late

LEMMA ClockInvInit == Init => ClockInv
  <1> SUFFICES ASSUME Init PROVE ClockInv
    OBVIOUS
  <1>1. /\ clk = -1 /\ clkStep = "sleep" /\ usr2 = {} /\ pgCurrentClk = -1
        /\ schedulerCurrentClk = 0 /\ processIndex = 1
        /\ \A p \in Procs : pcbState[p] = "none"
    BY DEF Init, KernelInit, ClkInit, SchedulerInit, GeneratorInit
  <1>2. Entries \subseteq Procs /\ \A p \in Entries : ~(p < 1)
    BY WorkloadFacts DEF Init, KernelInit, ReadProcessesFile, Entries
  <1> QED
    BY <1>1, <1>2 DEF ClockInv, ClockRead, ArrivedInTime, Seen, Late, HasPCB

(* What can make the generator later than it was.                          *)
LEMMA GeneratorTold ==
    ASSUME Overrun = FALSE, Known, TimelyInv, [Next]_vars, pgc' # "exited"
    PROVE  /\ pgc # "exited"
           /\ \/ /\ Late(PG) = 0 /\ Late(PG)' = 1
                 /\ clk' = clk + 1 /\ pgCurrentClk' = pgCurrentClk
              \/ /\ pgClkHandler /\ Late(PG) = 1 /\ Late(PG)' = 0
                 /\ clk' = clk /\ pgCurrentClk' = clk
              \/ /\ Late(PG)' = Late(PG)
                 /\ clk' = clk /\ pgCurrentClk' = pgCurrentClk
  <1>1. pgc # "exited"
    BY DEF Next, vars, Tick, Signal, outsideClk, ProcessRun, SchedulerSignal, SchedulerRun,
           GeneratorSignal, pgClkHandler, checkChildProcess, EnterCheckChild, ReapProcess,
           ReapScheduler, LeaveCheckChild, GeneratorRun, runProcessGenerator, DownTick,
           DownScheduler, Arrive, NoArrival, Scan, forkProcess, Allocate, SendProcess,
           EndScan, EndRound, WaitScheduler, AtLoop, generatorVars
  <1>2. clkStep = "signal" => Quiescent /\ usr2 = {}
    BY <1>1 DEF TimelyInv, CalmTick, Quiescent
  <1>3. CASE Tick
    <2>1. /\ usr2 = {} /\ clkStep = "sleep" /\ clkStep' = "signal"
          /\ clk' = clk + 1 /\ pgCurrentClk' = pgCurrentClk
      BY <1>1, <1>3 DEF Tick, IncrementClk, Quiescent, outsideClk, generatorVars
    <2> QED
      BY <1>1, <2>1 DEF Late
  <1>4. CASE Signal
    <2>1. UNCHANGED <<clk, pgCurrentClk>> /\ clkStep = "signal" /\ PG \in usr2'
      BY <1>4 DEF Signal, SignalGroup, SignalTargets, clkWord, outsideClk, generatorVars
    <2> QED
      BY <1>1, <2>1 DEF Late
  <1>5. CASE pgClkHandler /\ clkStep' = clkStep
    <2>1. /\ PG \in usr2 /\ usr2' = usr2 \ {PG} /\ clk' = clk /\ pgCurrentClk' = clk
      BY <1>5 DEF pgClkHandler, outsideGenerator
    <2>2. clkStep # "signal"
      BY <1>2, <2>1
    <2> QED
      BY <1>1, <1>5, <2>1, <2>2 DEF Late
  <1>6. CASE ~Tick /\ ~Signal /\ ~pgClkHandler
    <2>1. UNCHANGED <<clkStep, clk, pgCurrentClk>>
      BY <1>6
         DEF Next, vars, ProcessRun, ProcessStep, InheritedClkHandler, IgnoreClk, Park,
             Exec, Terminate, SchedulerSignal, schedulerClkHandler, EnterClkHandler,
             ReinstallClkHandler, KilledByTick, SchedulerRun, runScheduler, BeginTick,
             handleProcessExit, fetchProcessFromQueue, ReceiveProcess, ReceiveMark,
             ExpireQuantum, SwitchProcess, KeepProcess, Dispatch, EndBusyTick, EndIdleTick,
             outsideScheduler, GeneratorSignal, checkChildProcess, EnterCheckChild,
             ReapProcess, ReapScheduler, LeaveCheckChild, GeneratorRun, runProcessGenerator,
             DownTick, DownScheduler, Arrive, NoArrival, Scan, forkProcess, Allocate,
             SendProcess, EndScan, EndRound, WaitScheduler, outsideGenerator, clkWord,
             generatorVars
    <2>2. PG \in usr2' <=> PG \in usr2
      BY <1>6, ConstantsAssumption
         DEF Next, vars, ProcessRun, ProcessStep, InheritedClkHandler, IgnoreClk, Park,
             Exec, Terminate, SchedulerSignal, schedulerClkHandler, EnterClkHandler,
             ReinstallClkHandler, KilledByTick, SchedulerRun, runScheduler, BeginTick,
             handleProcessExit, fetchProcessFromQueue, ReceiveProcess, ReceiveMark,
             ExpireQuantum, SwitchProcess, KeepProcess, Dispatch, EndBusyTick, EndIdleTick,
             outsideScheduler, GeneratorSignal, checkChildProcess, EnterCheckChild,
             ReapProcess, ReapScheduler, LeaveCheckChild, GeneratorRun, runProcessGenerator,
             DownTick, DownScheduler, Arrive, NoArrival, Scan, forkProcess, Allocate,
             SendProcess, EndScan, EndRound, WaitScheduler, sigVars, Procs, PG, Scheduler
    <2> QED
      BY <1>1, <2>1, <2>2 DEF Late
  <1>7. pgClkHandler => Tick \/ Signal \/ clkStep' = clkStep
    BY DEF Next, vars, ProcessRun, SchedulerSignal, SchedulerRun, GeneratorSignal, GeneratorRun
  <1> QED
    BY <1>3, <1>4, <1>5, <1>6, <1>7

LEMMA ClockReadStep ==
    ASSUME Overrun = FALSE, Known, TimelyInv, ClockInv, [Next]_vars
    PROVE  ClockRead'
  <1> USE DEF ClockInv, ClockRead, Seen
  <1>1. CASE Tick
    <2>1. clk' = clk + 1 /\ UNCHANGED <<pgCurrentClk, pgc>>
      BY <1>1 DEF Tick, IncrementClk, outsideClk, generatorVars
    <2>2. ~SchedulerRun
      BY <2>1, TimeTypes
         DEF SchedulerRun, runScheduler, BeginTick, handleProcessExit,
             fetchProcessFromQueue, ReceiveProcess, ReceiveMark, ExpireQuantum,
             SwitchProcess, KeepProcess, Dispatch, EndBusyTick, EndIdleTick,
             outsideScheduler, clkWord
    <2>3. clkStep # "signal" /\ UNCHANGED usr2
      BY <1>1 DEF Tick, IncrementClk, sigVars
    <2>4. pgc' # "exited" => pgCurrentClk' = Seen(PG)'
      <3>1. ASSUME pgc' # "exited" PROVE pgCurrentClk' = Seen(PG)'
        <4>1. usr2 = {}
          BY <1>1, <2>1, <3>1 DEF Tick, Quiescent
        <4>2. clkStep' = "signal"
          BY <1>1 DEF Tick, IncrementClk
        <4>3. Late(PG) = 0 /\ Late(PG)' = 1
          BY <2>3, <4>1, <4>2 DEF Late
        <4> QED
          BY <2>1, <3>1, <4>3, TimeTypes
      <3> QED
        BY <3>1
    <2>5. Alive' => schedulerCurrentClk' = IF Seen(Scheduler)' < 0 THEN 0 ELSE Seen(Scheduler)'
      <3>1. ASSUME Alive'
            PROVE  schedulerCurrentClk' = IF Seen(Scheduler)' < 0 THEN 0 ELSE Seen(Scheduler)'
        <4>1. /\ Alive /\ Late(Scheduler) = 0 /\ Late(Scheduler)' = 1
              /\ schedulerCurrentClk' = schedulerCurrentClk
          <5>1. Alive /\ Late(Scheduler)' = 1 /\ schedulerCurrentClk' = schedulerCurrentClk
            BY <1>1, <3>1 DEF Tick, IncrementClk, Late, Alive, outsideClk, schedulerVars, handlerVars
          <5>2. usr2 = {}
            BY <1>1, <5>1 DEF Tick, Quiescent, Known, ExitsLast, Alive
          <5> QED
            BY <2>3, <5>1, <5>2 DEF Late
        <4> QED
          BY <2>1, <4>1, TimeTypes
      <3> QED
        BY <3>1
    <2> QED
      BY <2>1, <2>4, <2>5, TimeTypes
  <1>2. CASE ~Tick
    <2>1. clk' = clk
      BY <1>2
         DEF Next, vars, Signal, SignalGroup, ProcessRun, ProcessStep, InheritedClkHandler,
             IgnoreClk, Park, Exec, Terminate, SchedulerSignal, schedulerClkHandler,
             EnterClkHandler, ReinstallClkHandler, KilledByTick, SchedulerRun, runScheduler,
             BeginTick, handleProcessExit, fetchProcessFromQueue, ReceiveProcess,
             ReceiveMark, ExpireQuantum, SwitchProcess, KeepProcess, Dispatch, EndBusyTick,
             EndIdleTick, outsideScheduler, GeneratorSignal, pgClkHandler, checkChildProcess,
             EnterCheckChild, ReapProcess, ReapScheduler, LeaveCheckChild, GeneratorRun,
             runProcessGenerator, DownTick, DownScheduler, Arrive, NoArrival, Scan,
             forkProcess, Allocate, SendProcess, EndScan, EndRound, WaitScheduler,
             outsideGenerator, clkWord
    <2>2. pgCurrentClk' = pgCurrentClk \/ pgCurrentClk' = clk
      BY <1>2
         DEF Next, vars, Signal, outsideClk, ProcessRun, SchedulerSignal, SchedulerRun,
             GeneratorSignal, pgClkHandler, checkChildProcess, EnterCheckChild, ReapProcess,
             ReapScheduler, LeaveCheckChild, GeneratorRun, runProcessGenerator, DownTick,
             DownScheduler, Arrive, NoArrival, Scan, forkProcess, Allocate, SendProcess,
             EndScan, EndRound, WaitScheduler, generatorVars
    <2>3. clkStep' = "signal" \/ Scheduler \in usr2' =>
            clkStep = "signal" \/ Scheduler \in usr2
      BY <1>2
         DEF Next, vars, Signal, SignalGroup, ProcessRun, ProcessStep, InheritedClkHandler,
             IgnoreClk, Park, Exec, Terminate, SchedulerSignal, schedulerClkHandler,
             EnterClkHandler, ReinstallClkHandler, KilledByTick, SchedulerRun, runScheduler,
             BeginTick, handleProcessExit, fetchProcessFromQueue, ReceiveProcess,
             ReceiveMark, ExpireQuantum, SwitchProcess, KeepProcess, Dispatch, EndBusyTick,
             EndIdleTick, outsideScheduler, GeneratorSignal, pgClkHandler, checkChildProcess,
             EnterCheckChild, ReapProcess, ReapScheduler, LeaveCheckChild, GeneratorRun,
             runProcessGenerator, DownTick, DownScheduler, Arrive, NoArrival, Scan,
             forkProcess, Allocate, SendProcess, EndScan, EndRound, WaitScheduler, sigVars
    <2>4. ASSUME pgc' # "exited" PROVE pgCurrentClk' = Seen(PG)'
      <3>1. \/ Late(PG)' = 0 /\ pgCurrentClk' = clk
            \/ Late(PG)' = Late(PG) /\ pgCurrentClk' = pgCurrentClk
            \/ clk' = clk + 1
        BY <2>4, GeneratorTold
      <3>2. pgc # "exited"
        BY <2>4, GeneratorTold
      <3> QED
        BY <2>1, <3>1, <3>2, TimeTypes
    <2>5. ASSUME Alive'
          PROVE  schedulerCurrentClk' = IF Seen(Scheduler)' < 0 THEN 0 ELSE Seen(Scheduler)'
      <3>1. CASE ~SchedulerRun
        <4>1. \/ /\ EnterClkHandler /\ Late(Scheduler)' = 0 /\ Late(Scheduler) = 1
                 /\ schedulerCurrentClk' = clk
              \/ /\ Late(Scheduler)' = Late(Scheduler)
                 /\ schedulerCurrentClk' = schedulerCurrentClk
              \/ clk' = clk + 1
          BY <2>5, <3>1, SchedulerTold
        <4>2. Alive
          BY <2>5, <3>1, SchedulerTold
        <4>3. Late(Scheduler) = 1 => clk >= 0
          BY DEF Late
        <4> QED
          BY <2>1, <4>1, <4>2, <4>3, TimeTypes
      <3>2. CASE SchedulerRun
        <4>1. UNCHANGED <<schedulerCurrentClk, usr2, clkStep>> /\ Alive
          BY <3>2
             DEF SchedulerRun, runScheduler, BeginTick, handleProcessExit,
                 fetchProcessFromQueue, ReceiveProcess, ReceiveMark, ExpireQuantum,
                 SwitchProcess, KeepProcess, Dispatch, EndBusyTick, EndIdleTick,
                 outsideScheduler, handlerVars, At, Alive
        <4> QED
          BY <2>1, <4>1 DEF Late
      <3> QED
        BY <3>1, <3>2
    <2> QED
      BY <2>1, <2>2, <2>3, <2>4, <2>5, TimeTypes
  <1> QED
    BY <1>1, <1>2

(* While the scheduler is inside its loop it has seen every tick.          *)
LEMMA SeenInside ==
    ASSUME Known, TimelyInv, ClockInv, Alive, spc # "top", ~Hung
    PROVE  Seen(Scheduler) = clk /\ schedulerSem = 0
  BY NoTickInside, TimeTypes DEF Seen

LEMMA ArrivedInTimeStep ==
    ASSUME Overrun = FALSE, Known, TimelyInv, ClockInv, [Next]_vars
    PROVE  ArrivedInTime'
  <1>1. Entries' = Entries /\ \A p : ArriveTime(p)' = ArriveTime(p)
    BY ArgumentsFixed DEF argVars, ArriveTime
  <1>2. pgCurrentClk' >= pgCurrentClk /\ pgCurrentClk' \in Int
    <2>1. pgCurrentClk' = pgCurrentClk \/ pgCurrentClk' = clk
      BY DEF Next, vars, Tick, IncrementClk, Signal, outsideClk, ProcessRun,
             SchedulerSignal, SchedulerRun,
             GeneratorSignal, pgClkHandler, checkChildProcess, EnterCheckChild, ReapProcess,
             ReapScheduler, LeaveCheckChild, GeneratorRun, runProcessGenerator, DownTick,
             DownScheduler, Arrive, NoArrival, Scan, forkProcess, Allocate, SendProcess,
             EndScan, EndRound, WaitScheduler, generatorVars
    <2> QED
      BY <2>1, TimeTypes DEF ClockInv, ClockRead
  <1>3. ASSUME NEW p \in Entries, p < processIndex'
        PROVE  ArriveTime(p) <= pgCurrentClk'
    <2>1. CASE Arrive
      <3>1. /\ processIndex' = processIndex + 1 /\ ArriveTime(processIndex) = pgCurrentClk
            /\ pgCurrentClk' = pgCurrentClk
        BY <2>1 DEF Arrive, ArrivesNow, ArriveTime
      <3>2. p < processIndex \/ p = processIndex
        BY <1>3, <3>1, TimeTypes DEF Entries
      <3> QED
        BY <3>1, <3>2, TimeTypes DEF ClockInv, ArrivedInTime
    <2>2. CASE ~Arrive
      <3>1. processIndex' = processIndex
        BY <2>2
           DEF Next, vars, Tick, Signal, outsideClk, ProcessRun, SchedulerSignal,
               SchedulerRun, GeneratorSignal, pgClkHandler, checkChildProcess,
               EnterCheckChild, ReapProcess, ReapScheduler, LeaveCheckChild, GeneratorRun,
               runProcessGenerator, DownTick, DownScheduler, NoArrival, Scan, forkProcess,
               Allocate, SendProcess, EndScan, EndRound, WaitScheduler, generatorVars,
               loopVars
      <3> QED
        BY <1>2, <1>3, <3>1, TimeTypes DEF ClockInv, ArrivedInTime
    <2> QED
      BY <2>1, <2>2
  <1>4. ASSUME Alive', NEW p \in Entries, HasPCB(p)'
        PROVE  ArriveTime(p) <= Seen(Scheduler)'
    <2>1. CASE ~SchedulerRun
      <3>1. HasPCB(p)
        BY <1>4, <2>1, SchedulerOnly DEF HasPCB, pcbVars
      <3>2. Alive /\ Seen(Scheduler)' >= Seen(Scheduler)
        <4>1. Alive
          BY <1>4, <2>1, SchedulerTold
        <4>2. \/ Late(Scheduler) = 0 /\ Late(Scheduler)' = 1 /\ clk' = clk + 1
              \/ Late(Scheduler) = 1 /\ Late(Scheduler)' = 0 /\ clk' = clk
              \/ Late(Scheduler)' = Late(Scheduler) /\ clk' = clk
          BY <1>4, <2>1, SchedulerTold
        <4> QED
          BY <4>1, <4>2, TimeTypes DEF Seen
      <3>3. Seen(Scheduler) \in Int /\ Seen(Scheduler)' \in Int
        <4>1. Late(Scheduler)' \in {0, 1}
          BY DEF Late
        <4>2. clk' \in Int
          <5>1. TypeInv'
            BY TypeInvStep DEF Known, Inv
          <5> QED
            BY <5>1 DEF TypeInv, TypeOK, KernelTypeOK
        <4> QED
          BY <4>1, <4>2, TimeTypes DEF Seen
      <3> QED
        BY <3>1, <3>2, <3>3, TimeTypes DEF ClockInv, ArrivedInTime
    <2>2. CASE SchedulerRun
      <3>1. Alive /\ UNCHANGED <<clk, usr2, clkStep>>
        BY <2>2
           DEF SchedulerRun, runScheduler, BeginTick, handleProcessExit,
               fetchProcessFromQueue, ReceiveProcess, ReceiveMark, ExpireQuantum,
               SwitchProcess, KeepProcess, Dispatch, EndBusyTick, EndIdleTick,
               outsideScheduler, At, Alive, clkWord
      <3>2. Seen(Scheduler)' = Seen(Scheduler)
        BY <3>1 DEF Seen, Late
      <3>3. CASE HasPCB(p)
        BY <3>1, <3>2, <3>3 DEF ClockInv, ArrivedInTime
      <3>4. CASE ~HasPCB(p)
        <4>1. ReceiveProcess /\ pcbQueue # <<>> /\ p = Head(pcbQueue) /\ p \notin Marks
          BY <1>4, <2>2, <3>4, EndContext
             DEF SchedulerRun, runScheduler, BeginTick, handleProcessExit,
                 fetchProcessFromQueue, ReceiveProcess, ReceiveMark, ExpireQuantum,
                 SwitchProcess, KeepProcess, Dispatch, EndBusyTick, EndIdleTick,
                 pushToReadyQueue, HasPCB, pcbVars, Known, Inv, OnTheWay, QueuedHavePCB,
                 TypeInv, LoopsWellPlaced, At
        <4>2. 1 \in DOMAIN pcbQueue /\ p = pcbQueue[1] /\ spc = "receive"
          BY <4>1, EndContext DEF Known, ReceiveProcess, At
        <4>3. stage[p] # "none"
          BY <4>1, <4>2 DEF Known, Inv, OnTheWay, MessagesFresh
        <4>4. p < processIndex
          <5>1. p \in Procs /\ ~(p >= processIndex)
            BY <4>3, EndContext DEF Known, Inv, OnTheWay, Unborn
          <5>2. p \in Int /\ processIndex \in Int
            BY TimeTypes DEF Entries
          <5> QED
            BY <5>1, <5>2
        <4>5. Seen(Scheduler) = clk
          BY <3>1, <4>2, SeenInside DEF Hung, Finishing
        <4> QED
          BY <3>2, <4>4, <4>5, TimeTypes DEF ClockInv, ClockRead, ArrivedInTime
      <3> QED
        BY <3>3, <3>4
    <2> QED
      BY <2>1, <2>2
  <1> QED
    BY <1>1, <1>3, <1>4 DEF ArrivedInTime

LEMMA ClockInvHolds ==
    ASSUME Overrun = FALSE
    PROVE  Spec => []ClockInv
  <1>1. Init => ClockInv
    BY ClockInvInit
  <1>2. Known /\ TimelyInv /\ ClockInv /\ [Next]_vars => ClockInv'
    BY ClockReadStep, ArrivedInTimeStep DEF ClockInv
  <1> QED
    BY <1>1, <1>2, KnownHolds, TimelyInvHolds, PTL DEF Spec

-----------------------------------------------------------------------------
(* The times that are reported.                                            *)

(* The current process has waited what was computed when it was resumed: a *)
(* tick makes the clock and its service grow by one, the service after the *)
(* semaphore was lowered.                                                  *)
CurrentWaited ==
    currentProcess # NULL =>
        /\ waitTime[currentProcess] = WaitAtResume(currentProcess) - schedulerSem
        /\ waitTime[currentProcess] >= 0
        /\ startTime[currentProcess] # -1

ReadyWaits == \A p \in Entries : pcbState[p] = "READY" => WaitAtResume(p) >= 0

StartedInTime == \A p \in Entries : startTime[p] = -1 \/ startTime[p] >= ArriveTime(p)

FinishedTimes ==
    \A p \in Entries : pcbState[p] = "FINISHED" =>
        /\ finishTime[p] - ArriveTime(p) = waitTime[p] + Work(p)
        /\ waitTime[p] >= 0
        /\ startTime[p] # -1

SumCounts == IsFiniteSet(Waited) /\ sumWait = Cardinality(Waited)

TimesInv == CurrentWaited /\ ReadyWaits /\ StartedInTime /\ FinishedTimes /\ SumCounts

LEMMA TimesInvInit == Init => TimesInv
  <1> SUFFICES ASSUME Init PROVE TimesInv
    OBVIOUS
  <1>1. /\ currentProcess = NULL /\ sumWait = 0 /\ startTime = [p \in Procs |-> -1]
        /\ \A p \in Procs : pcbState[p] = "none"
    BY DEF Init, SchedulerInit
  <1>2. Entries \subseteq Procs
    BY WorkloadFacts DEF Init, KernelInit, ReadProcessesFile
  <1>3. Waited = {}
    BY <1>1 DEF Waited
  <1> QED
    BY <1>1, <1>2, <1>3, FS_EmptySet
       DEF TimesInv, CurrentWaited, ReadyWaits, StartedInTime, FinishedTimes, SumCounts

(* The ticks that one process has waited are as many as it says.           *)
LEMMA TicksOf ==
    ASSUME NEW p, NEW w \in Nat
    PROVE  /\ IsFiniteSet({<<p, n>> : n \in 1..w})
           /\ Cardinality({<<p, n>> : n \in 1..w}) = w
  <1> DEFINE T == {<<p, n>> : n \in 1..w}
             f == [n \in 1..w |-> <<p, n>>]
  <1>1. f \in Injection(1..w, T)
    <2>1. f \in [1..w -> T]
      OBVIOUS
    <2>2. \A a, b \in 1..w : f[a] = f[b] => a = b
      <3>1. ASSUME NEW a \in 1..w, NEW b \in 1..w, f[a] = f[b] PROVE a = b
        <4>1. <<p, a>> = <<p, b>>
          BY <3>1
        <4> QED
          BY <4>1
      <3> QED
        BY <3>1
    <2> QED
      BY <2>1, <2>2 DEF Injection, IsInjective
  <1>2. f \in Surjection(1..w, T)
    BY DEF Surjection
  <1>3. ExistsBijection(1..w, T)
    BY <1>1, <1>2 DEF ExistsBijection, Bijection
  <1>4. IsFiniteSet(1..w) /\ Cardinality(1..w) = w
    BY FS_Interval
  <1> QED
    BY <1>3, <1>4, FS_Bijection

LEMMA WaitedMember ==
    ASSUME NEW t
    PROVE  t \in Waited <=>
             \E p \in Procs : \E n \in 1..waitTime[p] : pcbState[p] = "FINISHED" /\ t = <<p, n>>
  BY DEF Waited

(* The ticks that a finishing process has waited are added to the others.  *)
LEMMA SumCountsExit ==
    ASSUME Known, TimesInv, handleProcessExit
    PROVE  SumCounts'
  <1>1. currentProcess \in Procs /\ currentProcess # NULL
    BY EndContext DEF handleProcessExit, At, Known, Inv, TypeInv, LoopsWellPlaced
  <1> DEFINE w == waitTime[currentProcess]
             T == {<<currentProcess, n>> : n \in 1..w}
  <1>2. w \in Nat
    BY <1>1, TimeTypes DEF TimesInv, CurrentWaited
  <1>3. pcbState[currentProcess] # "FINISHED"
    BY <1>1 DEF Known, ServiceInv
  <1>4. /\ pcbState' = [pcbState EXCEPT ![currentProcess] = "FINISHED"]
        /\ waitTime' = waitTime /\ sumWait' = sumWait + w
    BY DEF handleProcessExit
  <1>5. ASSUME NEW t PROVE t \in Waited' <=> t \in Waited \/ t \in T
    <2>1. t \in Waited' <=>
            \E p \in Procs : \E n \in 1..waitTime[p] : pcbState'[p] = "FINISHED" /\ t = <<p, n>>
      BY <1>4 DEF Waited
    <2>2. \A p \in Procs : pcbState'[p] = "FINISHED" <=>
            pcbState[p] = "FINISHED" \/ p = currentProcess
      BY <1>1, <1>4, EndContext DEF Known
    <2>3. t \in T <=> \E n \in 1..waitTime[currentProcess] : t = <<currentProcess, n>>
      OBVIOUS
    <2> QED
      BY <1>1, <2>1, <2>2, <2>3, WaitedMember
  <1>6. Waited' = Waited \cup T
    <2>1. \A t : t \in Waited' <=> t \in Waited \cup T
      BY <1>5
    <2> QED
      BY <2>1 DEF Waited
  <1>7. Waited \cap T = {}
    <2> SUFFICES ASSUME NEW t, t \in Waited, t \in T PROVE FALSE
      OBVIOUS
    <2>1. PICK p \in Procs : \E n \in 1..waitTime[p] : pcbState[p] = "FINISHED" /\ t = <<p, n>>
      BY WaitedMember
    <2>2. p = currentProcess
      BY <2>1
    <2> QED
      BY <1>3, <2>1, <2>2
  <1>8. IsFiniteSet(T) /\ Cardinality(T) = w
    BY <1>2, TicksOf
  <1> HIDE DEF T, w
  <1>9. /\ IsFiniteSet(Waited \cup T)
        /\ Cardinality(Waited \cup T) = Cardinality(Waited) + Cardinality(T) - 0
    BY <1>7, <1>8, FS_Union, FS_EmptySet DEF TimesInv, SumCounts
  <1> QED
    BY <1>2, <1>4, <1>6, <1>8, <1>9, TimeTypes, FS_CardinalityType DEF TimesInv, SumCounts

(* Steps after which the same processes have finished.                     *)
LEMMA SumCountsFrame ==
    ASSUME SumCounts, sumWait' = sumWait,
           \A p \in Procs : pcbState'[p] = "FINISHED" <=> pcbState[p] = "FINISHED",
           \A p \in Procs : pcbState[p] = "FINISHED" => waitTime'[p] = waitTime[p]
    PROVE  SumCounts'
  <1>1. Waited' = Waited
    BY DEF Waited
  <1> QED
    BY <1>1 DEF SumCounts

(* A READY process is resumed.                                             *)
LEMMA ResumeTimes ==
    ASSUME Known, TimelyInv, ClockInv, TimesInv, Alive, spc # "top", ~Hung,
           NEW p \in Entries, pcbState[p] = "READY", Resumed(p), currentProcess' = p,
           UNCHANGED <<argVars, remainingTime, schedulerSem, schedulerCurrentClk>>
    PROVE  CurrentWaited' /\ StartedInTime'
  <1>1. p \in Procs /\ Entries' = Entries /\ Entries \subseteq Procs
    BY EndContext DEF Known, argVars, Entries, processCount
  <1>2. schedulerSem = 0 /\ Seen(Scheduler) = clk
    BY SeenInside
  <1>3. ArriveTime(p) <= clk
    <2>1. HasPCB(p)
      BY DEF HasPCB
    <2> QED
      BY <1>2, <2>1 DEF ClockInv, ArrivedInTime
  <1>4. schedulerCurrentClk = clk /\ clk >= 0
    BY <1>2, <1>3, TimeTypes DEF ClockInv, ClockRead
  <1>5. WaitAtResume(p) >= 0 /\ WaitAtResume(p) \in Int
    <2>1. WaitAtResume(p) = schedulerCurrentClk - ArriveTime(p) - Work(p) + remainingTime[p]
      BY DEF WaitAtResume, ArriveTime, Work
    <2>2. remainingTime[p] \in Int
      BY <1>1, EndContext DEF Known
    <2>3. WaitAtResume(p) \in Int
      BY <2>1, <2>2, TimeTypes
    <2> QED
      BY <2>3 DEF TimesInv, ReadyWaits
  <1>6. WaitAtResume(p)' = WaitAtResume(p)
    BY DEF WaitAtResume, argVars
  <1>7. waitTime'[p] = WaitAtResume(p)
    BY <1>1, TimeTypes DEF Resumed
  <1>8. /\ startTime'[p] = IF startTime[p] = -1 THEN schedulerCurrentClk ELSE startTime[p]
        /\ \A q \in Procs : q # p => startTime'[q] = startTime[q]
    BY <1>1, TimeTypes DEF Resumed
  <1>9. \A q : ArriveTime(q)' = ArriveTime(q)
    BY DEF ArriveTime, argVars
  <1>10. CurrentWaited'
    BY <1>2, <1>4, <1>5, <1>6, <1>7, <1>8, TimeTypes DEF CurrentWaited
  <1>11. StartedInTime'
    BY <1>1, <1>3, <1>4, <1>8, <1>9, TimeTypes DEF StartedInTime, TimesInv
  <1> QED
    BY <1>10, <1>11

LEMMA TimesInvScheduler ==
    ASSUME Known, TimelyInv, ClockInv, ClockInv', TimesInv, [Next]_vars, SchedulerRun
    PROVE  TimesInv'
  <1> USE DEF SchedulerRun
  <1>1. /\ UNCHANGED argVars /\ Entries' = Entries /\ Entries \subseteq Procs
        /\ \A p : ArriveTime(p)' = ArriveTime(p) /\ Work(p)' = Work(p)
    BY ArgumentsFixed, EndContext DEF argVars, ArriveTime, Work, Known
  <1>2. Alive /\ ~Hung /\ UNCHANGED schedulerCurrentClk
    BY HungStays DEF runScheduler, BeginTick, handleProcessExit,
           fetchProcessFromQueue, ReceiveProcess, ReceiveMark, ExpireQuantum,
           SwitchProcess, KeepProcess, Dispatch, EndBusyTick, EndIdleTick, At, Alive,
           handlerVars
  <1>3. \A p : WaitAtResume(p) = schedulerCurrentClk - ArriveTime(p) - Work(p) + remainingTime[p]
    BY DEF WaitAtResume, ArriveTime, Work
  <1>4. \A p : WaitAtResume(p)'
                 = schedulerCurrentClk - ArriveTime(p) - Work(p) + remainingTime'[p]
    BY <1>1, <1>2 DEF WaitAtResume, ArriveTime, Work, argVars
  <1>5. currentProcess # NULL => currentProcess \in Entries
    BY EndContext DEF Known
  <1>6. \A p \in Entries : remainingTime[p] \in Int
    BY <1>1, EndContext DEF Known
  (* Steps that leave the times and the counters alone.                    *)
  <1>7. ASSUME UNCHANGED <<remainingTime, schedulerSem, startTime, finishTime, waitTime,
                           sumWait>>,
               currentProcess' = currentProcess,
               \A p \in Procs : pcbState'[p] = "FINISHED" <=> pcbState[p] = "FINISHED",
               \A p \in Entries : pcbState'[p] = "READY" =>
                 pcbState[p] = "READY" \/ p = currentProcess
        PROVE  TimesInv'
    <2>1. SumCounts'
      BY <1>7, SumCountsFrame DEF TimesInv
    <2>2. \A p : WaitAtResume(p)' = WaitAtResume(p)
      BY <1>3, <1>4, <1>7
    <2>3. CurrentWaited'
      BY <1>7, <2>2 DEF TimesInv, CurrentWaited
    <2>4. currentProcess # NULL => WaitAtResume(currentProcess) >= 0
      <3>1. ASSUME currentProcess # NULL PROVE WaitAtResume(currentProcess) >= 0
        <4>1. WaitAtResume(currentProcess) \in Int
          BY <1>3, <1>5, <1>6, <3>1, TimeTypes
        <4> QED
          BY <3>1, <4>1, TimeTypes DEF TimesInv, CurrentWaited
      <3> QED
        BY <3>1
    <2>5. NULL \notin Entries
      BY <1>1, EndContext DEF Known
    <2>6. ReadyWaits'
      BY <1>1, <1>7, <2>2, <2>4, <2>5 DEF TimesInv, ReadyWaits
    <2>7. StartedInTime' /\ FinishedTimes'
      BY <1>1, <1>7 DEF TimesInv, StartedInTime, FinishedTimes
    <2> QED
      BY <2>1, <2>3, <2>6, <2>7 DEF TimesInv
  <1>8. CASE BeginTick
    <2>1. /\ spc = "top" /\ UNCHANGED <<currentProcess, pcbVars, sumWait>>
          /\ schedulerSem' = schedulerSem - 1
          /\ \/ currentProcess = NULL /\ remainingTime' = remainingTime
             \/ /\ currentProcess # NULL
                /\ remainingTime' = [remainingTime EXCEPT ![currentProcess] = @ - 1]
      BY <1>8 DEF BeginTick, At
    <2>2. SumCounts'
      BY <2>1, SumCountsFrame DEF TimesInv, pcbVars
    <2>3. StartedInTime' /\ FinishedTimes'
      BY <1>1, <2>1 DEF TimesInv, StartedInTime, FinishedTimes, pcbVars
    <2>4. CASE currentProcess = NULL
      <3>1. CurrentWaited'
        BY <2>1, <2>4 DEF CurrentWaited
      <3>2. ReadyWaits'
        BY <1>1, <1>3, <1>4, <2>1, <2>4 DEF TimesInv, ReadyWaits, pcbVars
      <3> QED
        BY <2>2, <2>3, <3>1, <3>2 DEF TimesInv
    <2>5. CASE currentProcess # NULL
      <3>1. /\ currentProcess \in Procs /\ pcbState[currentProcess] # "READY"
            /\ remainingTime'[currentProcess] = remainingTime[currentProcess] - 1
            /\ \A p \in Procs : p # currentProcess => remainingTime'[p] = remainingTime[p]
        BY <1>1, <1>5, <2>1, <2>5, EndContext DEF Known, ServiceInv
      <3>2. CurrentWaited'
        <4>1. WaitAtResume(currentProcess)' = WaitAtResume(currentProcess) - 1
          BY <1>3, <1>4, <1>5, <1>6, <2>1, <2>5, <3>1, TimeTypes
        <4>2. WaitAtResume(currentProcess) \in Int
          BY <1>3, <1>5, <1>6, <2>5, TimeTypes
        <4> QED
          BY <2>1, <2>5, <4>1, <4>2, TimeTypes DEF TimesInv, CurrentWaited, pcbVars
      <3>3. ReadyWaits'
        BY <1>1, <1>3, <1>4, <2>1, <3>1 DEF TimesInv, ReadyWaits, pcbVars
      <3> QED
        BY <2>2, <2>3, <3>2, <3>3 DEF TimesInv
    <2> QED
      BY <2>4, <2>5
  <1>9. CASE handleProcessExit
    <2>1. /\ Finishing /\ currentProcess # NULL /\ currentProcess' = NULL
          /\ UNCHANGED <<remainingTime, schedulerSem, startTime, waitTime>>
          /\ pcbState' = [pcbState EXCEPT ![currentProcess] = "FINISHED"]
          /\ finishTime' = [finishTime EXCEPT ![currentProcess] = schedulerCurrentClk]
      BY <1>9 DEF handleProcessExit, At, Finishing, Known, Inv, TypeInv, LoopsWellPlaced
    <2>2. schedulerSem = 0 /\ remainingTime[currentProcess] = 0
      BY <1>2, <2>1, SeenInside DEF Finishing, Known, ServiceInv
    <2>3. SumCounts'
      BY <1>9, SumCountsExit
    <2>4. CurrentWaited' /\ StartedInTime'
      BY <1>1, <2>1 DEF TimesInv, CurrentWaited, StartedInTime
    <2>5. ReadyWaits'
      BY <1>1, <1>3, <1>4, <2>1, EndContext DEF TimesInv, ReadyWaits, Known
    <2>6. FinishedTimes'
      <3> SUFFICES ASSUME NEW p \in Entries, pcbState'[p] = "FINISHED"
                   PROVE  /\ finishTime'[p] - ArriveTime(p) = waitTime[p] + Work(p)
                          /\ waitTime[p] >= 0 /\ startTime[p] # -1
        BY <1>1, <2>1 DEF FinishedTimes
      <3>1. CASE p = currentProcess
        <4>1. finishTime'[p] = schedulerCurrentClk
          BY <1>1, <2>1, <3>1, TimeTypes
        <4>2. waitTime[p] = schedulerCurrentClk - ArriveTime(p) - Work(p)
          BY <1>3, <2>1, <2>2, <3>1, TimeTypes DEF TimesInv, CurrentWaited
        <4> QED
          BY <2>1, <3>1, <4>1, <4>2, TimeTypes DEF TimesInv, CurrentWaited
      <3>2. CASE p # currentProcess
        BY <1>1, <2>1, <3>2, EndContext, TimeTypes DEF TimesInv, FinishedTimes, Known
      <3> QED
        BY <3>1, <3>2
    <2> QED
      BY <2>3, <2>4, <2>5, <2>6 DEF TimesInv
  <1>10. CASE fetchProcessFromQueue \/ ReceiveMark \/ EndBusyTick \/ EndIdleTick
    BY <1>7, <1>10
       DEF fetchProcessFromQueue, ReceiveMark, EndBusyTick, EndIdleTick, pcbVars, counterVars
  <1>11. CASE ReceiveProcess
    <2>1. PICK q : /\ q = Head(pcbQueue) /\ q \notin Marks /\ pcbQueue # <<>>
                   /\ pushToReadyQueue(q, Work(q))
                   /\ remainingTime' = [remainingTime EXCEPT ![q] = Work(q)]
      BY <1>11 DEF ReceiveProcess
    <2>2. q \in Entries /\ 1 \in DOMAIN pcbQueue /\ q = pcbQueue[1]
      BY <2>1, EndContext DEF Known
    <2>3. pcbState[q] = "none"
      BY <2>1, <2>2 DEF Known, Inv, OnTheWay, MessagesFresh
    <2>4. /\ UNCHANGED <<currentProcess, schedulerSem, startTime, finishTime, waitTime, sumWait>>
          /\ spc = "receive" /\ Alive'
          /\ pcbState' = [pcbState EXCEPT ![q] = "READY"]
      BY <1>2, <1>11, <2>1
         DEF ReceiveProcess, At, counterVars, pushToReadyQueue, Alive, outsideScheduler
    <2>5. /\ \A p \in Procs : p # q =>
               remainingTime'[p] = remainingTime[p] /\ pcbState'[p] = pcbState[p]
          /\ remainingTime'[q] = Work(q) /\ pcbState'[q] = "READY"
      BY <1>1, <2>1, <2>2, <2>4, EndContext DEF Known
    <2>6. currentProcess # q
      BY <2>2, <2>3, EndContext DEF Known, Inv, OnTheWay, QueuedHavePCB
    <2>7. WaitAtResume(q)' >= 0
      <3>1. HasPCB(q)'
        BY <2>5 DEF HasPCB
      <3>2. ArriveTime(q) <= Seen(Scheduler)'
        BY <1>1, <2>2, <2>4, <3>1 DEF ClockInv, ArrivedInTime
      <3>3. Seen(Scheduler)' = Seen(Scheduler) /\ Seen(Scheduler) = clk
        <4>1. UNCHANGED <<clk, usr2, clkStep>>
          BY <1>11 DEF ReceiveProcess, outsideScheduler, clkWord
        <4>2. Seen(Scheduler) = clk
          BY <1>2, <2>4, SeenInside
        <4> QED
          BY <4>1, <4>2 DEF Seen, Late
      <3>4. schedulerCurrentClk >= ArriveTime(q)
        BY <1>2, <2>2, <3>2, <3>3, TimeTypes DEF ClockInv, ClockRead
      <3> QED
        BY <1>4, <2>2, <2>5, <3>4, TimeTypes
    <2>8. SumCounts'
      BY <1>1, <2>2, <2>3, <2>4, <2>5, SumCountsFrame DEF TimesInv
    <2>9. CurrentWaited'
      BY <1>1, <1>3, <1>4, <1>5, <2>4, <2>5, <2>6 DEF TimesInv, CurrentWaited
    <2>10. ReadyWaits'
      BY <1>1, <1>3, <1>4, <2>4, <2>5, <2>7 DEF TimesInv, ReadyWaits
    <2>11. StartedInTime' /\ FinishedTimes'
      BY <1>1, <2>4, <2>5 DEF TimesInv, StartedInTime, FinishedTimes
    <2> QED
      BY <2>8, <2>9, <2>10, <2>11 DEF TimesInv
  <1>12. CASE ExpireQuantum
    <2>1. \/ pcbState' = pcbState
          \/ /\ currentProcess # NULL /\ spc = "quantum"
             /\ pcbState' = [pcbState EXCEPT ![currentProcess] = "READY"]
      BY <1>12 DEF ExpireQuantum, pushToReadyQueue, At
    <2>2. \A p \in Procs : pcbState'[p] = "FINISHED" <=> pcbState[p] = "FINISHED"
      BY <1>1, <1>5, <2>1, EndContext DEF Known, ServiceInv
    <2>3. \A p \in Entries : pcbState'[p] = "READY" =>
            pcbState[p] = "READY" \/ p = currentProcess
      BY <1>1, <2>1, EndContext DEF Known
    <2> QED
      BY <1>7, <1>12, <2>2, <2>3 DEF ExpireQuantum, counterVars
  <1>13. CASE KeepProcess
    <2>1. /\ spc = "switch" /\ currentProcess # NULL
          /\ pcbState' = [pcbState EXCEPT ![currentProcess] = "RUNNING"]
      BY <1>13 DEF KeepProcess, At, Known, Inv, TypeInv, LoopsWellPlaced
    <2>2. \A p \in Procs : pcbState'[p] = "FINISHED" <=> pcbState[p] = "FINISHED"
      BY <1>1, <1>5, <2>1, EndContext DEF Known, ServiceInv
    <2>3. \A p \in Entries : pcbState'[p] = "READY" =>
            pcbState[p] = "READY" \/ p = currentProcess
      BY <1>1, <2>1, EndContext DEF Known
    <2> QED
      BY <1>7, <1>13, <2>2, <2>3 DEF KeepProcess, counterVars
  <1>14. CASE SwitchProcess \/ Dispatch
    <2>1. PICK i \in DOMAIN readyQueue :
            /\ FirstReady(i) /\ Resumed(readyQueue[i]) /\ currentProcess' = readyQueue[i]
            /\ \/ pcbState' = [pcbState EXCEPT ![readyQueue[i]] = "RUNNING"]
               \/ /\ spc = "switch" /\ currentProcess # NULL
                  /\ pcbState' = [pcbState EXCEPT ![currentProcess] = "READY",
                                                  ![readyQueue[i]] = "RUNNING"]
      BY <1>14
         DEF SwitchProcess, Dispatch, At, Known, Inv, TypeInv, LoopsWellPlaced
    <2>2. /\ spc \in {"switch", "dispatch"}
          /\ UNCHANGED <<remainingTime, schedulerSem, finishTime, sumWait>>
      BY <1>14 DEF SwitchProcess, Dispatch, At, counterVars
    <2>3. readyQueue[i] \in Entries /\ pcbState[readyQueue[i]] = "READY"
      BY <2>1, EndContext DEF Known, FirstReady
    <2> DEFINE p == readyQueue[i]
    <2>4. CurrentWaited' /\ StartedInTime'
      BY <1>1, <1>2, <2>1, <2>2, <2>3, ResumeTimes
    <2>5. \A q \in Procs : pcbState'[q] = "FINISHED" <=> pcbState[q] = "FINISHED"
      BY <1>1, <1>5, <2>1, <2>3, EndContext DEF Known, ServiceInv
    <2>6. \A q \in Procs : pcbState'[q] = "READY" => pcbState[q] = "READY"
      BY <1>1, <1>5, <2>1, <2>3, EndContext DEF Known, ServiceInv
    <2>7. \A q \in Procs : q # p => waitTime'[q] = waitTime[q] /\ startTime'[q] = startTime[q]
      BY <1>1, <2>1, <2>3, TimeTypes DEF Resumed
    <2>8. SumCounts'
      BY <2>2, <2>3, <2>5, <2>7, SumCountsFrame DEF TimesInv
    <2>9. ReadyWaits'
      BY <1>1, <1>3, <1>4, <2>2, <2>6 DEF TimesInv, ReadyWaits
    <2>10. FinishedTimes'
      BY <1>1, <2>2, <2>3, <2>5, <2>7 DEF TimesInv, FinishedTimes
    <2> QED
      BY <2>4, <2>8, <2>9, <2>10 DEF TimesInv
  <1> QED
    BY <1>8, <1>9, <1>10, <1>11, <1>12, <1>13, <1>14 DEF runScheduler

LEMMA TimesInvRest ==
    ASSUME Overrun = FALSE, Known, TimelyInv, ClockInv, TimesInv, [Next]_vars, ~SchedulerRun
    PROVE  TimesInv'
  <1>1. /\ UNCHANGED argVars /\ Entries' = Entries
        /\ \A p : ArriveTime(p)' = ArriveTime(p) /\ Work(p)' = Work(p)
    BY ArgumentsFixed DEF argVars, ArriveTime, Work
  <1>2. UNCHANGED <<spc, currentProcess, pcbState, startTime, finishTime, waitTime, sumWait,
                    remainingTime>>
    BY SchedulerOnly DEF pcbVars, counterVars
  <1>3. SumCounts'
    BY <1>2, SumCountsFrame DEF TimesInv
  <1>4. StartedInTime' /\ FinishedTimes'
    BY <1>1, <1>2 DEF TimesInv, StartedInTime, FinishedTimes
  <1>5. CASE UNCHANGED <<schedulerSem, schedulerCurrentClk>>
    <2>1. \A p : WaitAtResume(p)' = WaitAtResume(p)
      BY <1>1, <1>2, <1>5 DEF WaitAtResume, argVars
    <2>2. CurrentWaited' /\ ReadyWaits'
      BY <1>1, <1>2, <1>5, <2>1 DEF TimesInv, CurrentWaited, ReadyWaits
    <2> QED
      BY <1>3, <1>4, <2>2 DEF TimesInv
  <1>6. CASE EnterClkHandler
    <2>1. /\ Alive /\ schedulerSem' = schedulerSem + 1 /\ schedulerCurrentClk' = clk
          /\ Late(Scheduler) = 1
      BY <1>6 DEF EnterClkHandler, Alive, Late
    (* Whoever has a PCB has it since an earlier tick.                     *)
    <2>2. ASSUME NEW p \in Entries, HasPCB(p)
          PROVE  schedulerCurrentClk' = schedulerCurrentClk + 1
      <3>1. Seen(Scheduler) >= 0 /\ Seen(Scheduler) = clk - 1
        BY <2>1, <2>2, TimeTypes DEF ClockInv, ArrivedInTime, Seen
      <3> QED
        BY <2>1, <3>1, TimeTypes DEF ClockInv, ClockRead
    <2>3. \A p : WaitAtResume(p) = schedulerCurrentClk - ArriveTime(p) - Work(p) + remainingTime[p]
      BY DEF WaitAtResume, ArriveTime, Work
    <2>4. \A p : WaitAtResume(p)' = schedulerCurrentClk' - ArriveTime(p) - Work(p) + remainingTime[p]
      BY <1>1, <1>2 DEF WaitAtResume, ArriveTime, Work, argVars
    <2>5. ASSUME NEW p \in Entries, HasPCB(p)
          PROVE  WaitAtResume(p)' = WaitAtResume(p) + 1 /\ WaitAtResume(p) \in Int
      <3>1. remainingTime[p] \in Int
        BY EndContext DEF Known
      <3> QED
        BY <2>2, <2>3, <2>4, <2>5, <3>1, TimeTypes
    <2>6. CurrentWaited'
      <3> SUFFICES ASSUME NEW p, p = currentProcess, p # NULL
                   PROVE  /\ waitTime[p] = WaitAtResume(p)' - schedulerSem'
                          /\ waitTime[p] >= 0 /\ startTime[p] # -1
        BY <1>1, <1>2 DEF CurrentWaited, WaitAtResume, argVars
      <3>1. p \in Entries /\ HasPCB(p)
        BY EndContext DEF Known, Inv, OnTheWay, QueuedHavePCB, HasPCB
      <3>2. WaitAtResume(p)' = WaitAtResume(p) + 1 /\ WaitAtResume(p) \in Int
        BY <2>5, <3>1
      <3>3. /\ waitTime[p] = WaitAtResume(p) - schedulerSem
            /\ waitTime[p] >= 0 /\ startTime[p] # -1
        BY DEF TimesInv, CurrentWaited, WaitAtResume
      <3>4. schedulerSem \in Int /\ schedulerSem' = schedulerSem + 1
        BY <2>1, TimeTypes
      <3> QED
        BY <3>2, <3>3, <3>4
    <2>7. ReadyWaits'
      <3> SUFFICES ASSUME NEW p \in Entries, pcbState[p] = "READY"
                   PROVE  WaitAtResume(p)' >= 0
        BY <1>1, <1>2 DEF ReadyWaits
      <3>1. HasPCB(p)
        BY DEF HasPCB
      <3>2. WaitAtResume(p)' = WaitAtResume(p) + 1 /\ WaitAtResume(p) \in Int
        BY <2>5, <3>1
      <3> QED
        BY <3>2 DEF TimesInv, ReadyWaits
    <2> QED
      BY <1>3, <1>4, <2>6, <2>7 DEF TimesInv
  <1>7. EnterClkHandler \/ UNCHANGED <<schedulerSem, schedulerCurrentClk>>
    BY DEF Next, vars, Tick, IncrementClk, Signal, SignalGroup, outsideClk, ProcessRun,
           ProcessStep, InheritedClkHandler, IgnoreClk, Park, Exec, Terminate,
           SchedulerSignal, schedulerClkHandler, ReinstallClkHandler, KilledByTick,
           GeneratorSignal, pgClkHandler, checkChildProcess, EnterCheckChild, ReapProcess,
           ReapScheduler, LeaveCheckChild, GeneratorRun, runProcessGenerator, DownTick,
           DownScheduler, Arrive, NoArrival, Scan, forkProcess, Allocate, SendProcess,
           EndScan, EndRound, WaitScheduler, outsideGenerator, semVars, schedulerVars,
           handlerVars
  <1> QED
    BY <1>5, <1>6, <1>7

LEMMA TimesInvHolds ==
    ASSUME Overrun = FALSE
    PROVE  Spec => []TimesInv
  <1>1. Init => TimesInv
    BY TimesInvInit
  <1>2. Known /\ TimelyInv /\ ClockInv /\ ClockInv' /\ TimesInv /\ [Next]_vars => TimesInv'
    BY TimesInvScheduler, TimesInvRest
  <1> QED
    BY <1>1, <1>2, KnownHolds, TimelyInvHolds, ClockInvHolds, PTL DEF Spec

(* When ticks are far enough apart, the times on the finish lines and in   *)
(* the average waiting time agree, for every file, policy and quantum:     *)
(* turnaround = waiting + running, nobody starts before it arrives or      *)
(* waits less than nothing, and sumWait counts the ticks waited.           *)
THEOREM TimesAgreeHolds ==
    ASSUME Overrun = FALSE
    PROVE  Spec => []TimesAgree
  <1>1. Known /\ TimesInv => TimesAgree
    <2> SUFFICES ASSUME Known, TimesInv PROVE TimesAgree
      OBVIOUS
    <2>1. ASSUME NEW p \in Entries, pcbState[p] = "FINISHED"
          PROVE  /\ finishTime[p] - processesArray[p].arriveTime
                      = waitTime[p] + processesArray[p].runningTime
                 /\ waitTime[p] >= 0
                 /\ startTime[p] >= processesArray[p].arriveTime
      BY <2>1 DEF TimesInv, FinishedTimes, StartedInTime, ArriveTime, Work
    <2> QED
      BY <2>1 DEF TimesAgree, TimesInv, SumCounts
  <1> QED
    BY <1>1, KnownHolds, TimesInvHolds, PTL

-----------------------------------------------------------------------------
(* Arrivals.                                                               *)

(* The generator looks at the next entry only.                             *)
SortedFiles ==
    \A w \in Workloads : \A i, j \in DOMAIN w : i < j => w[i].arriveTime <= w[j].arriveTime

(* The next entry is not late, and once a round has passed it by it is not *)
(* due either.                                                             *)
PassedBy == pgc \in {"scan", "fork", "allocate", "send", "end"} \/ (pgc = "down" /\ pgSem = 0)

NextNotLate ==
    ~Hung /\ processIndex <= processCount /\ pgc # "exited" =>
        /\ ArriveTime(processIndex) >= pgCurrentClk
        /\ PassedBy => ArriveTime(processIndex) > pgCurrentClk

LEMMA NextNotLateInit == Init => NextNotLate
  <1> SUFFICES ASSUME Init PROVE NextNotLate
    OBVIOUS
  <1>1. processIndex = 1 /\ pgCurrentClk = -1 /\ processCount > 0 /\ processCount \in Nat
    BY WorkloadFacts DEF Init, GeneratorInit, KernelInit, ReadProcessesFile
  <1>2. ArriveTime(1) \in Nat
    BY <1>1, WorkloadFacts
       DEF Init, KernelInit, ReadProcessesFile, ArriveTime, ProcessData, Entries
  <1> QED
    BY <1>1, <1>2 DEF NextNotLate

(* A tick finds the generator back at the top of its loop.                 *)
LEMMA RoundOver ==
    ASSUME Known, TimelyInv, ~Hung, processIndex <= processCount, pgc # "exited",
           Late(PG) = 1
    PROVE  pgc = "down" /\ pgSem = 0
  <1>1. ~pgNoMore /\ pgc # "wait"
    BY TimeTypes DEF Known, Inv, RendezvousInv, LastRound
  <1>2. Alive
    BY <1>1 DEF TimelyInv, HandlerBack, Known, DoneInv
  <1>3. /\ schedulerSem \in Nat /\ pgSem \in Nat /\ Late(Scheduler) \in {0, 1}
    BY TimeTypes DEF Known, Inv, TypeInv, TypeOK, KernelTypeOK
  <1>4. RoundsDue = RequestsDue
    BY <1>1 DEF TimelyInv, RoundsPaired
  <1>5. RequestsDue <= 1
    <2>1. CASE spc = "top"
      BY <1>2, <1>3, <2>1 DEF TimelyInv, TickServed, RequestsDue
    <2>2. CASE spc # "top"
      BY <1>2, <1>3, <2>2, NoTickInside DEF RequestsDue
    <2> QED
      BY <2>1, <2>2
  <1>6. pgSem = 0 /\ pgc # "downscheduler" /\ RequestsDue = 1
    BY <1>3, <1>4, <1>5 DEF RoundsDue
  <1>7. ~InRound
    <2> SUFFICES ASSUME InRound PROVE FALSE
      OBVIOUS
    <2>1. spc = "receive" /\ pgSchedulerSem = 0
      BY <1>1 DEF Known, Inv, RendezvousInv, Rendezvous, Requested, Serving, Answered, Idle
    <2>2. RequestsDue = 0
      BY <1>2, <2>1, NoTickInside DEF RequestsDue
    <2> QED
      BY <1>6, <2>2
  <1> QED
    BY <1>1, <1>6, <1>7
       DEF InRound, Known, Inv, TypeInv, TypeOK, GeneratorTypeOK

LEMMA NextNotLateStep ==
    ASSUME Overrun = FALSE, SortedFiles, Known, TimelyInv, ClockInv, NextNotLate, [Next]_vars
    PROVE  NextNotLate'
  <1> SUFFICES ASSUME ~Hung', processIndex' <= processCount, pgc' # "exited"
               PROVE  /\ ArriveTime(processIndex') >= pgCurrentClk'
                      /\ PassedBy' => ArriveTime(processIndex') > pgCurrentClk'
    BY ArgumentsFixed DEF NextNotLate, ArriveTime, argVars
  <1>1. ~Hung /\ pgc # "exited"
    BY HungStays, GeneratorTold
  <1>2. CASE pgClkHandler
    <2>1. /\ PG \in usr2 /\ pgSem' = pgSem + 1 /\ pgCurrentClk' = clk
          /\ UNCHANGED <<pgc, processIndex>>
      BY <1>2 DEF pgClkHandler, loopVars
    <2>2. Late(PG) = 1
      BY <2>1 DEF Late
    <2>3. pgc = "down" /\ pgSem = 0
      BY <1>1, <2>1, <2>2, RoundOver
    <2>4. ArriveTime(processIndex) > pgCurrentClk /\ pgCurrentClk = clk - 1
      BY <1>1, <2>1, <2>2, <2>3 DEF NextNotLate, PassedBy, ClockInv, ClockRead, Seen
    <2>5. ArriveTime(processIndex) \in Int
      BY <2>1, TimeTypes DEF Entries
    <2>6. ~PassedBy'
      BY <2>1, <2>3 DEF PassedBy
    <2> QED
      BY <2>1, <2>4, <2>5, <2>6, TimeTypes
  <1>3. CASE Arrive
    <2>1. /\ processIndex' = processIndex + 1 /\ ArriveTime(processIndex) = pgCurrentClk
          /\ processIndex <= processCount /\ pgCurrentClk' = pgCurrentClk
          /\ pgc' = "arrive"
      BY <1>3 DEF Arrive, ArrivesNow, ArriveTime, AtLoop
    <2>2. processIndex \in Entries /\ processIndex + 1 \in Entries
      BY <2>1, TimeTypes DEF Entries
    <2>3. ArriveTime(processIndex) <= ArriveTime(processIndex + 1)
      <3>1. processesArray \in Workloads /\ DOMAIN processesArray = Entries
        BY WorkloadsAssumption
           DEF Known, Inv, TypeInv, TypeOK, KernelTypeOK, Entries, processCount
      <3>2. processIndex < processIndex + 1
        BY TimeTypes
      <3> QED
        BY <2>2, <3>1, <3>2 DEF SortedFiles, ArriveTime
    <2> QED
      BY <2>1, <2>2, <2>3, TimeTypes DEF PassedBy
  <1>4. CASE ~pgClkHandler /\ ~Arrive
    <2>1. UNCHANGED <<processIndex, pgCurrentClk>>
      BY <1>4
         DEF Next, vars, Tick, Signal, outsideClk, ProcessRun, SchedulerSignal,
             SchedulerRun, GeneratorSignal, checkChildProcess,
             EnterCheckChild, ReapProcess, ReapScheduler, LeaveCheckChild, GeneratorRun,
             runProcessGenerator, DownTick, DownScheduler, NoArrival, Scan, forkProcess,
             Allocate, SendProcess, EndScan, EndRound, WaitScheduler, generatorVars,
             loopVars
    <2>2. /\ ArriveTime(processIndex) >= pgCurrentClk
          /\ PassedBy => ArriveTime(processIndex) > pgCurrentClk
      BY <1>1, <2>1 DEF NextNotLate
    <2>3. CASE NoArrival
      <3>1. ArriveTime(processIndex) # pgCurrentClk
        BY <2>1, <2>3 DEF NoArrival, ArrivesNow, ArriveTime
      <3>2. ArriveTime(processIndex) \in Int
        BY <2>1, TimeTypes DEF Entries
      <3> QED
        BY <2>1, <2>2, <3>1, <3>2, TimeTypes
    <2>4. CASE ~NoArrival
      <3>1. pgc = "wait" => pgNoMore /\ processIndex > processCount
        BY DEF Known, Inv, RendezvousInv, LastRound
      <3>2. pgc # "wait"
        BY <2>1, <3>1, TimeTypes
      <3>3. PassedBy' => PassedBy
        <4>1. CASE GeneratorRun
          BY <1>4, <2>4, <3>2, <4>1
             DEF GeneratorRun, runProcessGenerator, DownTick, AfterTick, DownScheduler, Scan,
                 forkProcess, Allocate, SendProcess, EndScan, EndRound, WaitScheduler,
                 AtLoop, PassedBy
        <4>2. CASE GeneratorSignal
          BY <1>4, <3>2, <4>2
             DEF GeneratorSignal, checkChildProcess, EnterCheckChild, ReapProcess,
                 ReapScheduler, pgClearResources, LeaveCheckChild, PassedBy
        <4>3. CASE ~GeneratorRun /\ ~GeneratorSignal
          <5>1. pgc' = pgc
            BY <4>3
               DEF Next, vars, Tick, Signal, outsideClk, ProcessRun, SchedulerSignal,
                   SchedulerRun, generatorVars
          <5>2. pgSem' = pgSem
            BY <4>3
               DEF Next, vars, Tick, IncrementClk, Signal, SignalGroup, ProcessRun,
                   ProcessStep, InheritedClkHandler, IgnoreClk, Park, Exec, Terminate,
                   SchedulerSignal, schedulerClkHandler, EnterClkHandler,
                   ReinstallClkHandler, KilledByTick, SchedulerRun, runScheduler,
                   BeginTick, handleProcessExit, fetchProcessFromQueue, ReceiveProcess,
                   ReceiveMark, ExpireQuantum, SwitchProcess, KeepProcess, Dispatch,
                   EndBusyTick, EndIdleTick, outsideScheduler, semVars, TimelyInv,
                   ChildrenUnsignalled
          <5> QED
            BY <5>1, <5>2 DEF PassedBy
        <4> QED
          BY <4>1, <4>2, <4>3
      <3> QED
        BY <2>1, <2>2, <3>3
    <2> QED
      BY <2>3, <2>4
  <1> QED
    BY <1>2, <1>3, <1>4

(* When ticks are far enough apart and the file is sorted, the generator   *)
(* meets every arrival at its time, as long as no SIGCONT has been lost.   *)
THEOREM NoMissedArrivalHolds ==
    ASSUME Overrun = FALSE, SortedFiles
    PROVE  Spec => []NoMissedArrival
  <1>1. Init => NextNotLate
    BY NextNotLateInit
  <1>2. Known /\ TimelyInv /\ ClockInv /\ NextNotLate /\ [Next]_vars => NextNotLate'
    BY NextNotLateStep
  <1>3. Known /\ TimelyInv /\ NextNotLate => NoMissedArrival
    <2> SUFFICES ASSUME Known, TimelyInv, NextNotLate, ~Hung, processIndex <= processCount
                 PROVE  ArriveTime(processIndex) >= pgCurrentClk
      BY DEF NoMissedArrival, ArriveTime
    <2>1. pgc # "exited"
      <3> SUFFICES ASSUME pgc = "exited" PROVE FALSE
        OBVIOUS
      <3>1. pgNoMore
        BY DEF Known, ExitsLast, DoneInv, TimelyInv, HandlerBack, Alive
      <3> QED
        BY <3>1, TimeTypes DEF Known, Inv, RendezvousInv, LastRound
    <2> QED
      BY <2>1 DEF NextNotLate
  <1> QED
    BY <1>1, <1>2, <1>3, KnownHolds, TimelyInvHolds, ClockInvHolds, PTL DEF Spec
=============================================================================
