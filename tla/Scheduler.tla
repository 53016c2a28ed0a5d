------------------------------ MODULE Scheduler ------------------------------
(***************************************************************************)
(* The scheduler process: runScheduler and the functions it calls, one     *)
(* action for each stretch between two points where another process or the *)
(* tick handler can be seen, and the SIGUSR2 handler.                      *)
(***************************************************************************)
EXTENDS KernelIPC

VARIABLES
    spc,                  \* where runScheduler is
    schedulerHandler,     \* "installed", or "reset" while the handler runs
    schedulerCurrentClk,
    currentProcess,       \* NULL or a process
    readyQueue,           \* RR: the circular queue; else the heap, in key order
    pcbState,             \* the state field; "none" before the PCB exists
    startTime,
    finishTime,
    waitTime,
    remainingQuantum,
    noMoreProcesses,
    totalTime,
    idleTime,
    sumWait

pcbVars     == <<pcbState, startTime, finishTime, waitTime>>
counterVars == <<totalTime, idleTime, sumWait>>
handlerVars == <<schedulerHandler, schedulerCurrentClk>>
schedulerVars == <<spc, handlerVars, currentProcess, readyQueue, pcbVars,
                   remainingQuantum, noMoreProcesses, counterVars>>

(* What the scheduler's steps never touch.                                 *)
outsideScheduler == <<clkWord, pgSem, stage, usr2>>

SchedulerInit ==
    /\ spc = "top"
    /\ schedulerHandler = "installed"
    /\ schedulerCurrentClk = 0
    /\ currentProcess = NULL
    /\ readyQueue = <<>>
    /\ pcbState = [p \in Procs |-> "none"]
    /\ startTime = [p \in Procs |-> -1]
    /\ finishTime = [p \in Procs |-> -1]
    /\ waitTime = [p \in Procs |-> -1]
    /\ remainingQuantum = 0
    /\ noMoreProcesses = FALSE
    /\ totalTime = -1
    /\ idleTime = -1
    /\ sumWait = 0

SchedulerTypeOK ==
    /\ spc \in {"top", "finish", "finishresumed", "fetch", "receive",
                "quantum", "switch", "dispatch", "done"}
    /\ schedulerHandler \in {"installed", "reset"}
    /\ schedulerCurrentClk \in Int
    /\ currentProcess \in Entries \cup {NULL}
    /\ readyQueue \in Seq(Entries)
    /\ pcbState \in [Procs -> {"none", "READY", "RUNNING", "FINISHED"}]
    /\ startTime \in [Procs -> Int]
    /\ finishTime \in [Procs -> Int]
    /\ waitTime \in [Procs -> Int]
    /\ remainingQuantum \in Int
    /\ totalTime \in Int
    /\ idleTime \in Int
    /\ sumWait \in Int

-----------------------------------------------------------------------------
(* schedulerClkHandler.  The System V signal() of this translation unit    *)
(* resets the disposition when the handler starts, and the handler's last  *)
(* line installs it again.                                                 *)

EnterClkHandler ==
    /\ schedulerStage = "alive"
    /\ schedulerHandler = "installed"
    /\ Scheduler \in usr2
    /\ usr2' = usr2 \ {Scheduler}
    /\ schedulerHandler' = "reset"
    /\ schedulerCurrentClk' = clk
    /\ schedulerSem' = schedulerSem + 1
    /\ UNCHANGED <<clkWord, pgSem, pgSchedulerSem, msgVars, procVars, sigchld,
                   schedulerStage, spc, currentProcess, readyQueue, pcbVars,
                   remainingQuantum, noMoreProcesses, counterVars>>

ReinstallClkHandler ==
    /\ schedulerStage = "alive"
    /\ schedulerHandler = "reset"
    /\ schedulerHandler' = "installed"
    /\ UNCHANGED <<clkWord, semVars, msgVars, procVars, sigVars, schedulerStage,
                   spc, schedulerCurrentClk, currentProcess, readyQueue, pcbVars,
                   remainingQuantum, noMoreProcesses, counterVars>>

(* A second tick before that line takes effect can meet the default        *)
(* action, which terminates the scheduler.                                 *)
KilledByTick ==
    /\ schedulerStage = "alive"
    /\ schedulerHandler = "reset"
    /\ Scheduler \in usr2
    /\ usr2' = usr2 \ {Scheduler}
    /\ schedulerStage' = "zombie"
    /\ sigchld' = TRUE
    /\ UNCHANGED <<clkWord, semVars, msgVars, procVars, schedulerVars>>

-----------------------------------------------------------------------------
(* The ready queue.                                                        *)

(* Mutant: the ids have too little room in the key.                        *)
NarrowKey(p, remaining) ==
    IF schedulerType = SRTN
    THEN remaining * 1000 + processesArray[p].id
    ELSE processesArray[p].priority * 1000 + processesArray[p].id

HeapKey(p, remaining) ==
    IF schedulerType = SRTN
    THEN remaining * 10000 + processesArray[p].id
    ELSE processesArray[p].priority * 10000 + processesArray[p].id

(* Whether p, with this remaining time, leaves the queue before r.         *)
Precedes(p, remaining, r) ==
    /\ schedulerType # RR
    /\ HeapKey(p, remaining) < HeapKey(r, remainingTime[r])

pushToReadyQueue(p, remaining) ==
    /\ pcbState' = [pcbState EXCEPT ![p] = "READY"]
    /\ \E i \in 0..Len(readyQueue) :
          /\ \A j \in 1..Len(readyQueue) :
                j > i <=> Precedes(p, remaining, readyQueue[j])
          /\ readyQueue' = SubSeq(readyQueue, 1, i) \o <<p>>
                             \o SubSeq(readyQueue, i + 1, Len(readyQueue))

(* schedule() takes entries off the queue up to the first that is READY.   *)
FirstReady(i) ==
    /\ pcbState[readyQueue[i]] = "READY"
    /\ \A j \in 1..(i - 1) : pcbState[readyQueue[j]] # "READY"

NoneReady == \A i \in DOMAIN readyQueue : pcbState[readyQueue[i]] # "READY"

(* Mutant: the entry is looked at and left in the queue.                   *)
FromEntry(i) == SubSeq(readyQueue, i, Len(readyQueue))

AfterEntry(i) == SubSeq(readyQueue, i + 1, Len(readyQueue))

(* Mutant: the service already had is counted as waiting.                  *)
WaitWithService(p) ==
    schedulerCurrentClk - processesArray[p].arriveTime

WaitAtResume(p) ==
    schedulerCurrentClk - processesArray[p].arriveTime
        - processesArray[p].runningTime + remainingTime[p]

(* Mutant: the old process is not stopped.                                 *)
ContinueOnly(old, new) == stopped \ {new}

(* stopProcess(old), then resumeProcess(new): who is stopped then.         *)
Exchange(old, new) == (stopped \cup {old}) \ {new}

(* resumeProcess, less its assignment to pcb->state.                       *)
Resumed(p) ==
    /\ waitTime' = [waitTime EXCEPT ![p] = WaitAtResume(p)]
    /\ startTime' = [startTime EXCEPT ![p] = IF @ = -1 THEN schedulerCurrentClk ELSE @]

-----------------------------------------------------------------------------
(* runScheduler.                                                           *)

(* Nothing of the main program runs while the handler does.                *)
At(pc) ==
    /\ schedulerStage = "alive"
    /\ schedulerHandler = "installed"
    /\ spc = pc

(* Mutant: the wait for the exit starts a tick late.                        *)
RanOver == remainingTime[currentProcess] < 1

(* The service of this tick is the last.                                   *)
RunsOut == remainingTime[currentProcess] <= 1

(* down(schedulerSemid), and a tick of service for the current process.    *)
BeginTick ==
    /\ At("top")
    /\ schedulerSem > 0
    /\ schedulerSem' = schedulerSem - 1
    /\ totalTime' = totalTime + 1
    /\ \/ /\ currentProcess = NULL
          /\ spc' = "fetch"
          /\ UNCHANGED <<remainingTime, remainingQuantum>>
       \/ /\ currentProcess # NULL
          /\ remainingTime' = [remainingTime EXCEPT ![currentProcess] = @ - 1]
          /\ remainingQuantum' = remainingQuantum - 1
          /\ spc' = IF RunsOut THEN "finish" ELSE "fetch"
    /\ UNCHANGED <<outsideScheduler, pgSchedulerSem, msgVars, stopped, sigchld,
                   schedulerStage, handlerVars, currentProcess, readyQueue, pcbVars,
                   noMoreProcesses, idleTime, sumWait>>

(* handleProcessExit: the first termination message ends the wait, whoever *)
(* it is about.                                                            *)
handleProcessExit ==
    /\ At("finish") \/ At("finishresumed")
    /\ termQueue # <<>>
    /\ termQueue' = Tail(termQueue)
    /\ pcbState' = [pcbState EXCEPT ![currentProcess] = "FINISHED"]
    /\ finishTime' = [finishTime EXCEPT ![currentProcess] = schedulerCurrentClk]
    /\ sumWait' = sumWait + waitTime[currentProcess]
    /\ currentProcess' = NULL
    /\ spc' = IF spc = "finish" THEN "fetch" ELSE "dispatch"
    /\ UNCHANGED <<outsideScheduler, schedulerSem, pgSchedulerSem, pcbQueue, stopped,
                   remainingTime, sigchld, schedulerStage, handlerVars, readyQueue,
                   startTime, waitTime, remainingQuantum, noMoreProcesses,
                   totalTime, idleTime>>

(* fetchProcessFromQueue: ask the generator for this tick's arrivals.      *)
fetchProcessFromQueue ==
    /\ At("fetch")
    /\ \/ /\ noMoreProcesses
          /\ spc' = "quantum"
          /\ UNCHANGED pgSchedulerSem
       \/ /\ ~noMoreProcesses
          /\ spc' = "receive"
          /\ pgSchedulerSem' = pgSchedulerSem + 1
    /\ UNCHANGED <<outsideScheduler, schedulerSem, msgVars, stopped, remainingTime,
                   sigchld, schedulerStage, handlerVars, currentProcess, readyQueue,
                   pcbVars, remainingQuantum, noMoreProcesses, counterVars>>

(* Mutant: the shared word is not written.                                 *)
WordAsFound(p) == remainingTime[p]

Work(p) == processesArray[p].runningTime

(* msgrcv of one message: a new PCB, or one of the two marks.              *)
ReceiveProcess ==
    /\ At("receive")
    /\ pcbQueue # <<>>
    /\ Head(pcbQueue) \notin Marks
    /\ LET p == Head(pcbQueue) IN
         /\ remainingTime' = [remainingTime EXCEPT ![p] = Work(p)]
         /\ pushToReadyQueue(p, Work(p))
    /\ pcbQueue' = Tail(pcbQueue)
    /\ UNCHANGED <<outsideScheduler, schedulerSem, pgSchedulerSem, termQueue, stopped,
                   sigchld, schedulerStage, handlerVars, spc, currentProcess, startTime,
                   finishTime, waitTime, remainingQuantum, noMoreProcesses, counterVars>>

ReceiveMark ==
    /\ At("receive")
    /\ pcbQueue # <<>>
    /\ Head(pcbQueue) \in Marks
    /\ pcbQueue' = Tail(pcbQueue)
    /\ noMoreProcesses' = (Head(pcbQueue) = EndOfInput)
    /\ spc' = "quantum"
    /\ UNCHANGED <<outsideScheduler, schedulerSem, pgSchedulerSem, termQueue, stopped,
                   remainingTime, sigchld, schedulerStage, handlerVars, currentProcess,
                   readyQueue, pcbVars, remainingQuantum, counterVars>>

(* Mutant: a process is sent back a tick early.                            *)
QuantumNearlyOver == remainingQuantum <= 1

QuantumOver == remainingQuantum <= 0

(* The quantum test; an expired process first goes back to the queue.      *)
ExpireQuantum ==
    /\ At("quantum")
    /\ \/ /\ currentProcess # NULL
          /\ schedulerType # HPF
          /\ QuantumOver
          /\ remainingQuantum' = schedulerQuantum
          /\ pushToReadyQueue(currentProcess, remainingTime[currentProcess])
          /\ spc' = "switch"
       \/ /\ \/ currentProcess = NULL
             \/ schedulerType = HPF
             \/ ~QuantumOver
          /\ spc' = "dispatch"
          /\ UNCHANGED <<remainingQuantum, pcbState, readyQueue>>
    /\ UNCHANGED <<outsideScheduler, schedulerSem, pgSchedulerSem, msgVars, stopped,
                   remainingTime, sigchld, schedulerStage, handlerVars, currentProcess,
                   startTime, finishTime, waitTime, noMoreProcesses, counterVars>>

(* Another process was chosen: SIGSTOP the old one, SIGCONT the new one.   *)
SwitchProcess ==
    /\ At("switch")
    /\ \E i \in DOMAIN readyQueue :
         LET next == readyQueue[i] IN
           /\ FirstReady(i)
           /\ next # currentProcess
           /\ pcbState' = [pcbState EXCEPT ![currentProcess] = "READY",
                                           ![next] = "RUNNING"]
           /\ stopped' = Exchange(currentProcess, next)
           /\ currentProcess' = next
           /\ Resumed(next)
           /\ readyQueue' = AfterEntry(i)
           /\ spc' = IF remainingTime[next] <= 0 THEN "finishresumed" ELSE "dispatch"
    /\ UNCHANGED <<outsideScheduler, schedulerSem, pgSchedulerSem, msgVars,
                   remainingTime, sigchld, schedulerStage, handlerVars, finishTime,
                   remainingQuantum, noMoreProcesses, counterVars>>

(* The same process was chosen, or none: it simply runs on.                *)
KeepProcess ==
    /\ At("switch")
    /\ \/ \E i \in DOMAIN readyQueue :
            /\ FirstReady(i)
            /\ readyQueue[i] = currentProcess
            /\ readyQueue' = AfterEntry(i)
       \/ /\ NoneReady
          /\ readyQueue' = <<>>
    /\ pcbState' = [pcbState EXCEPT ![currentProcess] = "RUNNING"]
    /\ spc' = "dispatch"
    /\ UNCHANGED <<outsideScheduler, schedulerSem, pgSchedulerSem, msgVars, stopped,
                   remainingTime, sigchld, schedulerStage, handlerVars, currentProcess,
                   startTime, finishTime, waitTime, remainingQuantum, noMoreProcesses,
                   counterVars>>

(* No process is running: schedule, resume, and start a quantum.           *)
Dispatch ==
    /\ At("dispatch")
    /\ currentProcess = NULL
    /\ \E i \in DOMAIN readyQueue :
         LET next == readyQueue[i] IN
           /\ FirstReady(i)
           /\ pcbState' = [pcbState EXCEPT ![next] = "RUNNING"]
           /\ stopped' = stopped \ {next}
           /\ currentProcess' = next
           /\ Resumed(next)
           /\ readyQueue' = AfterEntry(i)
           /\ spc' = IF remainingTime[next] <= 0 THEN "finishresumed" ELSE "dispatch"
    /\ remainingQuantum' = schedulerQuantum
    /\ UNCHANGED <<outsideScheduler, schedulerSem, pgSchedulerSem, msgVars,
                   remainingTime, sigchld, schedulerStage, handlerVars, finishTime,
                   noMoreProcesses, counterVars>>

(* The end of the loop body with a process running.                        *)
EndBusyTick ==
    /\ At("dispatch")
    /\ currentProcess # NULL
    /\ spc' = "top"
    /\ UNCHANGED <<outsideScheduler, schedulerSem, pgSchedulerSem, msgVars, stopped,
                   remainingTime, sigchld, schedulerStage, handlerVars, currentProcess,
                   readyQueue, pcbVars, remainingQuantum, noMoreProcesses, counterVars>>

(* The end of the loop body with none: an idle tick, and, after the last   *)
(* process, the end of the scheduler: its SIGINT handler frees what it     *)
(* holds and exits.                                                        *)
EndIdleTick ==
    /\ At("dispatch")
    /\ currentProcess = NULL
    /\ NoneReady
    /\ readyQueue' = <<>>
    /\ idleTime' = idleTime + 1
    /\ \/ /\ noMoreProcesses
          /\ spc' = "done"
          /\ schedulerStage' = "zombie"
          /\ sigchld' = TRUE
       \/ /\ ~noMoreProcesses
          /\ spc' = "top"
          /\ UNCHANGED <<schedulerStage, sigchld>>
    /\ UNCHANGED <<outsideScheduler, schedulerSem, pgSchedulerSem, msgVars, stopped,
                   remainingTime, handlerVars, currentProcess, pcbVars,
                   remainingQuantum, noMoreProcesses, totalTime, sumWait>>

runScheduler ==
    \/ BeginTick \/ handleProcessExit \/ fetchProcessFromQueue
    \/ ReceiveProcess \/ ReceiveMark
    \/ ExpireQuantum \/ SwitchProcess \/ KeepProcess
    \/ Dispatch \/ EndBusyTick \/ EndIdleTick

schedulerClkHandler == EnterClkHandler \/ ReinstallClkHandler \/ KilledByTick
=============================================================================
