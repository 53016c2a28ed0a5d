--------------------------- MODULE ProcessGenerator ---------------------------
(***************************************************************************)
(* The process generator: the loop of runProcessGenerator, its SIGUSR2     *)
(* handler pgClkHandler and its SIGCHLD handler checkChildProcess, which   *)
(* interrupts the loop anywhere, the allocator's code included.            *)
(***************************************************************************)
EXTENDS KernelIPC, Memory

VARIABLES
    pgc,           \* where runProcessGenerator is
    pgCurrentClk,
    processIndex,  \* the next entry of processesArray (from 1)
    waitList,      \* processes that arrived and do not fit yet
    waitLeft,      \* iterations left of the for loop over waitList
    pdata,         \* the process the for loop is on, or NULL
    pgNoMore,      \* the generator's own noMoreProcesses
    reaping,       \* checkChildProcess is running
    pgCleared      \* pgClearResources ran: the shared objects are gone

loopVars == <<processIndex, waitList, waitLeft, pdata, pgNoMore>>
generatorVars == <<pgc, pgCurrentClk, loopVars, held, reaping, pgCleared>>

(* What the generator's steps never touch.                                 *)
outsideGenerator == <<clk, schedulerSem, stopped, remainingTime>>

GeneratorInit ==
    /\ pgc = "down"
    /\ pgCurrentClk = -1
    /\ processIndex = 1
    /\ waitList = <<>>
    /\ waitLeft = 0
    /\ pdata = NULL
    /\ pgNoMore = FALSE
    /\ reaping = FALSE
    /\ pgCleared = FALSE
    /\ MemoryInit

GeneratorTypeOK ==
    /\ pgc \in {"down", "downscheduler", "arrive", "scan", "fork", "allocate",
                "send", "end", "wait", "exited"}
    /\ pgCurrentClk \in Int
    /\ processIndex \in 1..(processCount + 1)
    /\ waitList \in Seq(Entries)
    /\ waitLeft \in Int
    /\ pdata \in Entries \cup {NULL}
    /\ MemoryTypeOK

-----------------------------------------------------------------------------
(* Signal handlers.                                                        *)

pgClkHandler ==
    /\ pgc # "exited"
    /\ PG \in usr2
    /\ usr2' = usr2 \ {PG}
    /\ pgCurrentClk' = clk
    /\ pgSem' = pgSem + 1
    /\ UNCHANGED <<outsideGenerator, clkAlive, pgSchedulerSem, msgVars, stage, sigchld,
                   schedulerStage, pgc, loopVars, held, reaping, pgCleared>>

EnterCheckChild ==
    /\ pgc # "exited"
    /\ ~reaping
    /\ sigchld
    /\ sigchld' = FALSE
    /\ reaping' = TRUE
    /\ UNCHANGED <<outsideGenerator, clkAlive, pgSem, pgSchedulerSem, msgVars, stage,
                   usr2, schedulerStage, pgc, pgCurrentClk, loopVars, held, pgCleared>>

(* Mutant: the handler reaps one child per signal.                         *)
OnlyOnce == FALSE

(* The handler's loop calls waitpid again.                                 *)
WaitsAgain == TRUE

(* waitpid returned a process: free its memory, tell the scheduler.        *)
ReapProcess(p) ==
    /\ pgc # "exited"
    /\ reaping
    /\ stage[p] = "zombie"
    /\ stage' = [stage EXCEPT ![p] = "reaped"]
    /\ freeMemory(p)
    /\ termQueue' = Append(termQueue, p)
    /\ reaping' = WaitsAgain
    /\ UNCHANGED <<outsideGenerator, clkAlive, pgSem, pgSchedulerSem, pcbQueue, sigVars,
                   schedulerStage, pgc, pgCurrentClk, loopVars, pgCleared>>

pgClearResources ==
    /\ destroyMemory
    /\ pgCleared' = TRUE
    /\ pgc' = "exited"

(* waitpid returned the scheduler: stop the clock, pgClearResources, exit. *)
ReapScheduler ==
    /\ pgc # "exited"
    /\ reaping
    /\ schedulerStage = "zombie"
    /\ schedulerStage' = "reaped"
    /\ clkAlive' = FALSE
    /\ pgClearResources
    /\ UNCHANGED <<outsideGenerator, pgSem, pgSchedulerSem, msgVars, stage, sigVars,
                   pgCurrentClk, loopVars, reaping>>

(* waitpid has nothing left.  The handler is installed without SA_RESTART: *)
(* a waitpid it interrupted in the main loop fails with EINTR, and the     *)
(* loop goes round again.                                                  *)
LeaveCheckChild ==
    /\ pgc # "exited"
    /\ reaping
    /\ \A p \in Procs : stage[p] # "zombie"
    /\ schedulerStage # "zombie"
    /\ reaping' = FALSE
    /\ \/ pgc' = pgc
       \/ pgc = "wait" /\ pgc' = "down"
    /\ UNCHANGED <<outsideGenerator, clkAlive, pgSem, pgSchedulerSem, msgVars, stage,
                   sigVars, schedulerStage, pgCurrentClk, loopVars, held, pgCleared>>

checkChildProcess ==
    \/ EnterCheckChild
    \/ \E p \in Procs : ReapProcess(p)
    \/ ReapScheduler
    \/ LeaveCheckChild

-----------------------------------------------------------------------------
(* runProcessGenerator.                                                    *)

AtLoop(pc) == ~reaping /\ pgc = pc

(* Mutant: the round starts without the scheduler's request.               *)
AskNobody == "arrive"

(* The second wait is only for as long as there are messages to send.      *)
AfterTick == IF pgNoMore THEN "arrive" ELSE "downscheduler"

(* down(pgSemid)                                                           *)
DownTick ==
    /\ AtLoop("down")
    /\ pgSem > 0
    /\ pgSem' = pgSem - 1
    /\ pgc' = AfterTick
    /\ UNCHANGED <<outsideGenerator, clkAlive, pgSchedulerSem, msgVars, stage, sigVars,
                   schedulerStage, pgCurrentClk, loopVars, held, reaping, pgCleared>>

(* down(pgSchedulerSemid)                                                  *)
DownScheduler ==
    /\ AtLoop("downscheduler")
    /\ pgSchedulerSem > 0
    /\ pgSchedulerSem' = pgSchedulerSem - 1
    /\ pgc' = "arrive"
    /\ UNCHANGED <<outsideGenerator, clkAlive, pgSem, msgVars, stage, sigVars,
                   schedulerStage, pgCurrentClk, loopVars, held, reaping, pgCleared>>

(* Mutant: an entry arrives only when none is waiting.                     *)
ArrivesAlone ==
    /\ processIndex <= processCount
    /\ processesArray[processIndex].arriveTime = pgCurrentClk
    /\ waitList = <<>>

ArrivesNow ==
    /\ processIndex <= processCount
    /\ processesArray[processIndex].arriveTime = pgCurrentClk

(* One iteration of the while loop over the entries that arrive now.       *)
Arrive ==
    /\ AtLoop("arrive")
    /\ ArrivesNow
    /\ waitList' = Append(waitList, processIndex)
    /\ processIndex' = processIndex + 1
    /\ UNCHANGED <<outsideGenerator, clkAlive, pgSem, pgSchedulerSem, msgVars, stage,
                   sigVars, schedulerStage, pgc, pgCurrentClk, waitLeft, pdata,
                   pgNoMore, held, reaping, pgCleared>>

(* Mutant: the last entry of the list is not looked at.                    *)
waitCountLess == Len(waitList) - 1

waitCount == Len(waitList)

NoArrival ==
    /\ AtLoop("arrive")
    /\ ~ArrivesNow
    /\ waitLeft' = waitCount
    /\ pgc' = "scan"
    /\ UNCHANGED <<outsideGenerator, clkAlive, pgSem, pgSchedulerSem, msgVars, stage,
                   sigVars, schedulerStage, pgCurrentClk, processIndex, waitList, pdata,
                   pgNoMore, held, reaping, pgCleared>>

(* Mutant: an entry that does not fit is dropped.                          *)
DropHead == Tail(waitList)

Requeue == Append(Tail(waitList), Head(waitList))

(* One iteration of the for loop: the head of waitList is admitted when    *)
(* the allocator has room for it, or goes to the back of the list.         *)
Scan ==
    /\ AtLoop("scan")
    /\ waitLeft > 0
    /\ waitLeft' = waitLeft - 1
    /\ LET p == Head(waitList) IN
         \/ /\ canAllocate(processesArray[p].memsize)
            /\ pdata' = p
            /\ waitList' = Tail(waitList)
            /\ pgc' = "fork"
         \/ /\ ~canAllocate(processesArray[p].memsize)
            /\ waitList' = Requeue
            /\ UNCHANGED <<pdata, pgc>>
    /\ UNCHANGED <<outsideGenerator, clkAlive, pgSem, pgSchedulerSem, msgVars, stage,
                   sigVars, schedulerStage, pgCurrentClk, processIndex, pgNoMore, held,
                   reaping, pgCleared>>

forkProcess ==
    /\ AtLoop("fork")
    /\ stage' = [stage EXCEPT ![pdata] = "forked"]
    /\ pgc' = "allocate"
    /\ UNCHANGED <<outsideGenerator, clkAlive, pgSem, pgSchedulerSem, msgVars, sigVars,
                   schedulerStage, pgCurrentClk, loopVars, held, reaping, pgCleared>>

Allocate ==
    /\ AtLoop("allocate")
    /\ allocateMemory(pdata, processesArray[pdata].memsize)
    /\ pgc' = "send"
    /\ UNCHANGED <<outsideGenerator, clkAlive, pgSem, pgSchedulerSem, msgVars, stage,
                   sigVars, schedulerStage, pgCurrentClk, loopVars, reaping, pgCleared>>

sendProcesstoScheduler(m) == pcbQueue' = Append(pcbQueue, m)

SendProcess ==
    /\ AtLoop("send")
    /\ sendProcesstoScheduler(pdata)
    /\ pdata' = NULL
    /\ pgc' = "scan"
    /\ UNCHANGED <<outsideGenerator, clkAlive, pgSem, pgSchedulerSem, termQueue, stage,
                   sigVars, schedulerStage, pgCurrentClk, processIndex, waitList,
                   waitLeft, pgNoMore, held, reaping, pgCleared>>

EndScan ==
    /\ AtLoop("scan")
    /\ waitLeft <= 0
    /\ pgc' = "end"
    /\ UNCHANGED <<outsideGenerator, clkAlive, pgSem, pgSchedulerSem, msgVars, stage,
                   sigVars, schedulerStage, pgCurrentClk, loopVars, held, reaping,
                   pgCleared>>

(* Mutant: the waiting list is forgotten.                                  *)
AllArrived == processIndex > processCount

AllSent == processIndex > processCount /\ waitList = <<>>

(* The end of the loop body: a mark for the scheduler, and, once there is  *)
(* nothing more to send, the wait for the scheduler's exit.                *)
EndRound ==
    /\ AtLoop("end")
    /\ \/ /\ AllSent
          /\ ~pgNoMore
          /\ sendProcesstoScheduler(EndOfInput)
          /\ pgNoMore' = TRUE
          /\ pgc' = "wait"
       \/ /\ ~AllSent
          /\ ~pgNoMore
          /\ sendProcesstoScheduler(EndOfTick)
          /\ pgc' = "down"
          /\ UNCHANGED pgNoMore
       \/ /\ pgNoMore
          /\ pgc' = "wait"
          /\ UNCHANGED <<pcbQueue, pgNoMore>>
    /\ UNCHANGED <<outsideGenerator, clkAlive, pgSem, pgSchedulerSem, termQueue, stage,
                   sigVars, schedulerStage, pgCurrentClk, processIndex, waitList,
                   waitLeft, pdata, held, reaping, pgCleared>>

(* waitpid(schedulerPID) in the main loop reaps the scheduler before the   *)
(* SIGCHLD handler does: main returns without pgClearResources.            *)
WaitScheduler ==
    /\ AtLoop("wait")
    /\ schedulerStage = "zombie"
    /\ schedulerStage' = "reaped"
    /\ pgc' = "exited"
    /\ UNCHANGED <<outsideGenerator, clkAlive, pgSem, pgSchedulerSem, msgVars, stage,
                   sigVars, pgCurrentClk, loopVars, held, reaping, pgCleared>>

runProcessGenerator ==
    \/ DownTick \/ DownScheduler
    \/ Arrive \/ NoArrival
    \/ Scan \/ forkProcess \/ Allocate \/ SendProcess \/ EndScan
    \/ EndRound \/ WaitScheduler
=============================================================================
