------------------------------ MODULE Kernalyze ------------------------------
(***************************************************************************)
(* One run of the simulator: clock, scheduler, process generator and its   *)
(* children over the objects of KernelIPC, from the moment all three have  *)
(* passed syncClk, and what that composition must satisfy.                 *)
(***************************************************************************)
EXTENDS Clk, Process, Scheduler, ProcessGenerator

vars == <<argVars, clkWord, semVars, msgVars, procVars, sigVars, schedulerStage,
          clkStep, schedulerVars, generatorVars>>

Init ==
    /\ KernelInit
    /\ ClkInit
    /\ SchedulerInit
    /\ GeneratorInit

-----------------------------------------------------------------------------
(* With Overrun = FALSE the second between two ticks is long enough for    *)
(* everything a tick causes: the clock counts when all others are blocked. *)

SchedulerBlocked ==
    \/ schedulerStage # "alive"
    \/ /\ schedulerHandler = "installed"
       /\ \/ spc = "top" /\ schedulerSem = 0
          \/ spc \in {"finish", "finishresumed"} /\ termQueue = <<>>
          \/ spc = "receive" /\ pcbQueue = <<>>

GeneratorBlocked ==
    \/ pgc = "exited"
    \/ /\ ~reaping
       /\ ~sigchld
       /\ \/ pgc = "down" /\ pgSem = 0
          \/ pgc = "downscheduler" /\ pgSchedulerSem = 0
          \/ pgc = "wait" /\ schedulerStage = "alive"

ProcessBlocked(p) ==
    \/ stage[p] \in {"none", "zombie", "reaped"}
    \/ p \in stopped
    \/ stage[p] = "execed" /\ remainingTime[p] > 0

Quiescent ==
    /\ SchedulerBlocked
    /\ GeneratorBlocked
    /\ \A p \in Procs : ProcessBlocked(p)
    /\ (usr2 = {} \/ pgc = "exited")

outsideClk == <<argVars, schedulerVars, generatorVars>>

Tick == (Overrun \/ Quiescent) /\ IncrementClk /\ UNCHANGED outsideClk

Signal == SignalGroup /\ UNCHANGED outsideClk

ProcessRun(p) ==
    ProcessStep(p) /\ UNCHANGED <<argVars, clkStep, schedulerVars, generatorVars>>

SchedulerSignal ==
    schedulerClkHandler /\ UNCHANGED <<argVars, clkStep, generatorVars>>

SchedulerRun ==
    runScheduler /\ UNCHANGED <<argVars, clkStep, generatorVars>>

GeneratorSignal ==
    (pgClkHandler \/ checkChildProcess)
        /\ UNCHANGED <<argVars, clkStep, schedulerVars>>

GeneratorRun ==
    runProcessGenerator /\ UNCHANGED <<argVars, clkStep, schedulerVars>>

Next ==
    \/ Tick
    \/ Signal
    \/ \E p \in Procs : ProcessRun(p)
    \/ SchedulerSignal
    \/ SchedulerRun
    \/ GeneratorSignal
    \/ GeneratorRun

Spec == Init /\ [][Next]_vars

(* The operating system runs every process that can run and delivers every *)
(* signal; the clock's sleep ends.                                         *)
Fairness ==
    /\ WF_vars(Tick)
    /\ WF_vars(Signal)
    /\ \A p \in Procs : WF_vars(ProcessRun(p))
    /\ WF_vars(SchedulerSignal)
    /\ WF_vars(SchedulerRun)
    /\ WF_vars(GeneratorSignal)
    /\ WF_vars(GeneratorRun)

FairSpec == Spec /\ Fairness

-----------------------------------------------------------------------------
(* Vocabulary of the properties.                                           *)

InRound == pgc \in {"arrive", "scan", "fork", "allocate", "send", "end"}

Finishing == spc \in {"finish", "finishresumed"}

Ready == {p \in Procs : pcbState[p] = "READY"}

Live == {"forked", "armed", "parked", "execed", "zombie"}

Occurrences(s, p) == Cardinality({i \in DOMAIN s : s[i] = p})

-----------------------------------------------------------------------------
(* The flags, whose only type is that they are Boolean.                    *)
FlagsTypeOK ==
    /\ clkAlive \in BOOLEAN
    /\ sigchld \in BOOLEAN
    /\ noMoreProcesses \in BOOLEAN
    /\ pgNoMore \in BOOLEAN
    /\ reaping \in BOOLEAN
    /\ pgCleared \in BOOLEAN

(* Type invariant: every variable of the five parts keeps its type; what   *)
(* waits, is sent, queued or run is always an entry of the input file.     *)
TypeOK ==
    /\ KernelTypeOK
    /\ ClkTypeOK
    /\ SchedulerTypeOK
    /\ GeneratorTypeOK
    /\ FlagsTypeOK

(* Rendezvous of fetchProcessFromQueue and runProcessGenerator.  Outside   *)
(* its receive loop the scheduler has no request open and no message       *)
(* waits; inside it, its one request is either not taken yet, or being     *)
(* served by one round that has not written a mark, or answered, with the  *)
(* round's mark as the last message and the only mark.  A round for the    *)
(* next tick can therefore never leak a message into this tick's batch.    *)
(* (A scheduler killed by a tick leaves a generator that exits mid-round.)  *)
Requested ==
    /\ pgSchedulerSem = 1
    /\ ~InRound /\ ~pgNoMore
    /\ pcbQueue = <<>>

Serving ==
    /\ pgSchedulerSem = 0
    /\ InRound /\ ~pgNoMore
    /\ \A i \in DOMAIN pcbQueue : pcbQueue[i] \notin Marks

Answered ==
    /\ pgSchedulerSem = 0
    /\ InRound => pgNoMore
    /\ pcbQueue # <<>>
    /\ \A i \in DOMAIN pcbQueue : pcbQueue[i] \in Marks <=> i = Len(pcbQueue)
    /\ pgNoMore <=> pcbQueue[Len(pcbQueue)] = EndOfInput

Idle ==
    /\ pgSchedulerSem = 0
    /\ InRound => pgNoMore
    /\ pcbQueue = <<>>
    /\ noMoreProcesses <=> pgNoMore

Rendezvous ==
    \/ pgc = "exited"
    \/ spc = "receive" /\ ~noMoreProcesses /\ (Requested \/ Serving \/ Answered)
    \/ spc # "receive" /\ Idle

(* The SIGCHLD handler calls freeMemory; the loop it interrupts calls      *)
(* allocateMemory and canAllocate on the same tree, with a fork between    *)
(* the question and the allocation.  The rendezvous keeps them apart:      *)
(* while the loop is there no child is a zombie.                           *)
InAllocator == pgc \in {"fork", "allocate"} \/ (pgc = "scan" /\ waitLeft > 0)

AllocatorExclusion == InAllocator => \A p \in Procs : stage[p] # "zombie"

(* Of the children past their own SIGSTOP only the current process may     *)
(* execute: stopProcess and resumeProcess never leave two running.         *)
OneProcessRuns ==
    \A p \in Procs :
        stage[p] \in {"parked", "execed"} /\ p \notin stopped => p = currentProcess

(* handleProcessExit believes any termination message: there is never one  *)
(* that is not about the process whose exit it is waiting for.             *)
TerminationIsExpected ==
    termQueue # <<>> =>
        /\ Finishing
        /\ termQueue = <<currentProcess>>
        /\ stage[currentProcess] = "reaped"

(* The ready queue and the state fields agree: READY processes are queued  *)
(* exactly once and nothing else is queued (the one extracted by schedule  *)
(* is RUNNING, a freed PCB is never there), in the order of the policy.    *)
ReadyQueueExact ==
    /\ \A i \in DOMAIN readyQueue : readyQueue[i] \in Ready
    /\ \A p \in Ready : Occurrences(readyQueue, p) = 1
    /\ schedulerType # RR =>
         \A i, j \in DOMAIN readyQueue :
            i < j => ~Precedes(readyQueue[j], remainingTime[readyQueue[j]], readyQueue[i])
    /\ \A p \in Procs : pcbState[p] = "RUNNING" => p = currentProcess
    /\ currentProcess # NULL =>
         pcbState[currentProcess] = IF spc = "switch" THEN "READY" ELSE "RUNNING"

(* An entry of the file is in exactly one place: not yet arrived, on       *)
(* waitList, being admitted, in a message, or in a PCB.                    *)
Places(p) ==
    (IF p >= processIndex THEN 1 ELSE 0)
        + Occurrences(waitList, p)
        + (IF pdata = p THEN 1 ELSE 0)
        + Occurrences(pcbQueue, p)
        + (IF pcbState[p] # "none" THEN 1 ELSE 0)

NothingLostOrDuplicated == \A p \in Entries : Places(p) = 1

(* Memory: blocks never overlap; a child holds a block, large enough, from *)
(* the allocation that follows its fork until the SIGCHLD handler reaps    *)
(* it, so the ignored result of allocateMemory is never a failure.         *)
MemoryOwnership ==
    /\ \A p, q \in Procs : p # q => ~Overlap(held[p], held[q])
    /\ pgc # "exited" => \A p \in Entries :
         held[p].size >= processesArray[p].memsize
            <=> (stage[p] \in Live /\ ~(pgc = "allocate" /\ pdata = p))

(* No child exits while the waiting list is scanned, so what a round       *)
(* leaves on the list really did not fit.                                  *)
NoneFits ==
    pgc = "end" =>
        \A i \in DOMAIN waitList : ~canAllocate(processesArray[waitList[i]].memsize)

(* totalTime and idleTime: the ticks that were not idle are those spent on *)
(* the processes (the n-th last of the ticks of p is <<p, n>>), plus the   *)
(* one that the current process has begun.                                 *)
Served ==
    UNION {{<<p, n>> : n \in (remainingTime[p] + 1)..processesArray[p].runningTime} :
             p \in {q \in Entries : pcbState[q] # "none"}}

WorkAccounting ==
    spc \in {"top", "done"} =>
        totalTime - idleTime = Cardinality(Served) + (IF currentProcess = NULL THEN 0 ELSE 1)

(* logSchedulerPerformance and the finish lines: the turnaround time of a  *)
(* finished process is its waiting time plus its running time, its start   *)
(* is not before its arrival, and sumWait counts the ticks that finished   *)
(* processes have waited.                                                  *)
Waited ==
    UNION {{<<p, n>> : n \in 1..waitTime[p]} : p \in {q \in Procs : pcbState[q] = "FINISHED"}}

TimesAgree ==
    /\ \A p \in Entries : pcbState[p] = "FINISHED" =>
         /\ finishTime[p] - processesArray[p].arriveTime
              = waitTime[p] + processesArray[p].runningTime
         /\ waitTime[p] >= 0
         /\ startTime[p] >= processesArray[p].arriveTime
    /\ sumWait = Cardinality(Waited)

(* The scheduler ends only when every entry of the file has been admitted, *)
(* served in full, reaped and freed.                                       *)
EndsWhenAllDone ==
    spc = "done" =>
        /\ processIndex = processCount + 1
        /\ \A p \in Entries :
              /\ pcbState[p] = "FINISHED"
              /\ stage[p] = "reaped"
              /\ remainingTime[p] = 0
        /\ \A p \in Procs : held[p] = NoBlock
        /\ termQueue = <<>>

(* The abstract service: the state field of the PCBs and the shared words  *)
(* of remaining time behave as JobService says, whatever the policy and    *)
(* however signals and messages interleave.                                *)
Service == INSTANCE JobService WITH Jobs <- Procs, state <- pcbState, left <- remainingTime

ImplementsService == Service!Spec

(* The SIGCONT of resumeProcess reached a child that had not stopped yet;  *)
(* the child stops after it, no SIGCONT will follow, and the scheduler     *)
(* waits for its exit for ever.                                            *)
Hung == Finishing /\ currentProcess \in stopped

(* The generator looks for entries whose arrival time equals the clock it  *)
(* read: an entry whose time has passed would never arrive.  With ticks    *)
(* far enough apart none does while the scheduler is not hung.             *)
NoMissedArrival ==
    ~Hung /\ processIndex <= processCount => processesArray[processIndex].arriveTime >= pgCurrentClk

(* The scheduler never idles past a ready process, and in each tick runs   *)
(* what the policy says: the shortest remaining time (preemption at each   *)
(* tick, with no quantum given); under RR whoever waits for the processor  *)
(* has been served for whole quanta, and the running process, when what is *)
(* left of its quantum is over.                                            *)
WorkConserving == spc = "top" /\ currentProcess = NULL => Ready = {}

ShortestRemainingRuns ==
    schedulerType = SRTN /\ spc = "top" /\ currentProcess # NULL =>
        \A p \in Ready : remainingTime[currentProcess] <= remainingTime[p]

ServiceHad(p) == Work(p) - remainingTime[p]

WholeQuanta(p, n) == \E k \in 0..Work(p) : n = k * schedulerQuantum

QuantaAreWhole ==
    schedulerType = RR =>
        /\ \A p \in Ready : WholeQuanta(p, ServiceHad(p))
        /\ spc = "top" /\ currentProcess # NULL =>
             /\ remainingQuantum \in 1..schedulerQuantum
             /\ \E k \in 1..Work(currentProcess) :
                  ServiceHad(currentProcess) + remainingQuantum = k * schedulerQuantum

PolicyObeyed ==
    /\ WorkConserving
    /\ schedulerQuantum <= 1 => ShortestRemainingRuns
    /\ QuantaAreWhole

(* HPF is not preemptive and takes a process of highest priority (least    *)
(* number).  RR takes the first of the ring; a process gives way to        *)
(* another only with work left and its quantum used up, and it goes on     *)
(* only when nobody else is ready.                                         *)
ChoiceObeysPolicy ==
    [][ /\ schedulerType = HPF /\ currentProcess # NULL =>
             currentProcess' \in {currentProcess, NULL}
        /\ schedulerType = HPF /\ currentProcess' # currentProcess /\ currentProcess' # NULL =>
             \A p \in Ready :
               processesArray[currentProcess'].priority <= processesArray[p].priority
        /\ schedulerType = RR /\ currentProcess' # currentProcess /\ currentProcess' # NULL =>
             /\ currentProcess' = readyQueue[1]
             /\ currentProcess # NULL =>
                  /\ remainingTime[currentProcess] > 0
                  /\ ServiceHad(currentProcess) > 0
                  /\ WholeQuanta(currentProcess, ServiceHad(currentProcess))
        /\ schedulerType = RR /\ currentProcess' = currentProcess
             /\ spc = "switch" /\ spc' # "switch" =>
             Ready = {currentProcess} ]_vars

(* Unless a SIGCONT is lost for good, every entry is served, the scheduler *)
(* ends, and the generator after it.                                       *)
Completion == ([]~Hung) => <>(spc = "done" /\ pgc = "exited")

(* However the scheduler ends, at the end of its loop or killed by a tick  *)
(* that comes too early, the generator notices: its waitpid or its SIGCHLD *)
(* handler, wherever in the loop it is blocked, also when the SIGCHLD was  *)
(* sent for a process and stands for both.                                 *)
GeneratorFollows == schedulerStage = "zombie" ~> pgc = "exited"

-----------------------------------------------------------------------------
(* Strengthenings: what makes the invariants above inductive.              *)

(* Once the generator has sent the last mark its rounds have nothing left. *)
LastRound ==
    /\ pgNoMore =>
         /\ processIndex > processCount
         /\ waitList = <<>>
         /\ pgc \notin {"downscheduler", "fork", "allocate", "send"}
    /\ pgc = "wait" => pgNoMore

Admitting == pgc \in {"fork", "allocate", "send"}

(* A process has no child until forkProcess, no PCB until its message is   *)
(* received, and never two copies on the way.                              *)
Unborn ==
    \A p \in Procs :
        /\ p >= processIndex => stage[p] = "none"
        /\ stage[p] = "none" => pcbState[p] = "none"

WaitListFresh ==
    \A i \in DOMAIN waitList :
        /\ waitList[i] < processIndex
        /\ stage[waitList[i]] = "none"
        /\ Admitting => waitList[i] # pdata
        /\ \A j \in DOMAIN waitList : i # j => waitList[i] # waitList[j]

AdmittedFresh ==
    Admitting =>
        /\ pdata < processIndex
        /\ pcbState[pdata] = "none"
        /\ stage[pdata] = "none" <=> pgc = "fork"

MessagesFresh ==
    \A i \in DOMAIN pcbQueue : pcbQueue[i] \notin Marks =>
        /\ pcbState[pcbQueue[i]] = "none"
        /\ stage[pcbQueue[i]] # "none"
        /\ Admitting => pcbQueue[i] # pdata
        /\ \A j \in DOMAIN pcbQueue : i # j => pcbQueue[i] # pcbQueue[j]

QueuedHavePCB ==
    /\ \A i \in DOMAIN readyQueue : pcbState[readyQueue[i]] # "none"
    /\ currentProcess # NULL => pcbState[currentProcess] # "none"

OnTheWay == Unborn /\ WaitListFresh /\ AdmittedFresh /\ MessagesFresh /\ QueuedHavePCB

(* The current process has work left unless the scheduler is waiting for   *)
(* its exit; only then can it be a zombie, and no other process ever is.   *)
OnTheProcessor ==
    /\ currentProcess # NULL /\ ~Finishing => remainingTime[currentProcess] > 0
    /\ \A p \in Procs : stage[p] = "zombie" => p = currentProcess /\ Finishing
    /\ OneProcessRuns
    /\ TerminationIsExpected

-----------------------------------------------------------------------------
(* What the repository says and the code does not do.                      *)

(* defs.h: "RUNNING: currently running".                                   *)
RunningRuns == \A p \in Procs : pcbState[p] = "RUNNING" => p \notin stopped

(* clk.h: every process calls destroyClk at the end to release the         *)
(* communication resources of the clock.                                   *)
ClockReleased == pgc = "exited" => ~clkAlive
=============================================================================
