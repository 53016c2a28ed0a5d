------------------------------ MODULE KernelIPC ------------------------------
(***************************************************************************)
(* What the processes of one Kernalyze run share: the arguments of the    *)
(* run, the clock word, the three semaphores, the message queue, the      *)
(* remaining-time words, and what the operating system keeps for them     *)
(* (pending signals, stopped processes, exit status).                     *)
(*                                                                         *)
(* A process of the input file is named by its index in processesArray;   *)
(* the index stands for its entry, its pid and its PCB.                    *)
(***************************************************************************)
EXTENDS Defs, Sequences, FiniteSets

CONSTANTS
    Workloads,       \* the input files: sequences of process entries
    SchedulerTypes,  \* the values -s may take in this instance
    Quanta,          \* the values -q may take (-1: not given)
    MaxClk,          \* bound of the model: the clock stops counting there
    Overrun          \* TRUE: a tick may come before the last one is served

PG        == -1      \* the process generator, as the target of a signal
Scheduler == -2      \* the scheduler, as the target of a signal
EndOfTick  == -1     \* id of the message "no more processes for this clk"
EndOfInput == -2     \* id of the message "no more processes at all"
Marks == {EndOfTick, EndOfInput}

ProcessData == [id : Nat, arriveTime : Nat, runningTime : Nat,
                priority : Nat, memsize : Nat \ {0}]

(* Every file has an entry, and its entries have distinct ids: ftok keeps  *)
(* the low 8 bits of the id, the heap key the id below 10000.              *)
ASSUME ConstantsAssumption ==
    /\ MaxProcs \in Nat \ {0}
    /\ MaxClk \in Nat
    /\ TotalMemory \in Nat \ {0}
    /\ Overrun \in BOOLEAN
    /\ SchedulerTypes \subseteq {RR, SRTN, HPF}
    /\ Quanta \subseteq Int

ASSUME WorkloadsAssumption ==
    \A w \in Workloads :
        /\ w \in Seq(ProcessData)
        /\ Len(w) \in Procs
        /\ \A i, j \in DOMAIN w : i # j => w[i].id % 256 # w[j].id % 256

VARIABLES
    processesArray,    \* the parsed input file
    schedulerType,     \* -s
    schedulerQuantum,  \* -q
    clk,               \* the word of shared memory segment SHKEY
    clkAlive,          \* the clock process runs
    schedulerSem,      \* SCHEDULER_SEMAPHORE
    pgSem,             \* PG_SEMAPHORE
    pgSchedulerSem,    \* PG_SCHEDULER_SEMAPHORE
    pcbQueue,          \* messages of type MSG_TYPE_PCB
    termQueue,         \* messages of type MSG_TYPE_TERMINATION
    remainingTime,     \* the remaining-time word of each process
    stage,             \* how far each child has come in its life
    stopped,           \* children stopped by SIGSTOP
    schedulerStage,    \* "alive", "zombie" or "reaped"
    usr2,              \* who has a SIGUSR2 pending
    sigchld            \* the generator has a SIGCHLD pending

argVars  == <<processesArray, schedulerType, schedulerQuantum>>
clkWord  == <<clk, clkAlive>>
semVars  == <<schedulerSem, pgSem, pgSchedulerSem>>
msgVars  == <<pcbQueue, termQueue>>
procVars == <<stage, stopped, remainingTime>>
sigVars  == <<usr2, sigchld>>

processCount == Len(processesArray)

Entries == 1..processCount

(* A child before fork, with the generator's SIGUSR2 handler inherited,    *)
(* with SIGUSR2 ignored, past its own SIGSTOP, running ./process, dead,    *)
(* and waited for.                                                         *)
Stages == {"none", "forked", "armed", "parked", "execed", "zombie", "reaped"}

(* -s is required, -q is required for rr only and must be positive.        *)
ParseCommandLineArgs ==
    /\ schedulerType \in SchedulerTypes
    /\ schedulerQuantum \in {q \in Quanta : q > 0 \/ (q = -1 /\ schedulerType # RR)}

ReadProcessesFile == processesArray \in Workloads

KernelInit ==
    /\ ParseCommandLineArgs
    /\ ReadProcessesFile
    /\ clk = -1
    /\ clkAlive = TRUE
    /\ schedulerSem = 0
    /\ pgSem = 0
    /\ pgSchedulerSem = 0
    /\ pcbQueue = <<>>
    /\ termQueue = <<>>
    /\ remainingTime = [p \in Procs |-> 0]
    /\ stage = [p \in Procs |-> "none"]
    /\ stopped = {}
    /\ schedulerStage = "alive"
    /\ usr2 = {}
    /\ sigchld = FALSE

KernelTypeOK ==
    /\ processesArray \in Workloads
    /\ schedulerType \in {RR, SRTN, HPF}
    /\ schedulerQuantum \in Int
    /\ clk \in Int
    /\ schedulerSem \in Nat
    /\ pgSem \in Nat
    /\ pgSchedulerSem \in Nat
    /\ pcbQueue \in Seq(Entries \cup Marks)
    /\ termQueue \in Seq(Procs)
    /\ remainingTime \in [Procs -> Int]
    /\ stage \in [Procs -> Stages]
    /\ stopped \subseteq Procs
    /\ schedulerStage \in {"alive", "zombie", "reaped"}
    /\ usr2 \subseteq Procs \cup {PG, Scheduler}
=============================================================================
