------------------------------ MODULE Lifecycle ------------------------------
(***************************************************************************)
(* How a run begins and how it is ended: main and its two forks, the       *)
(* initialisations of clock and scheduler, Ctrl-C, and the cleanup that    *)
(* every process does in its handlers.  What happens between (Kernalyze)   *)
(* is abstracted to the main loops being reached, to one child that is     *)
(* stopped and continued, and to the first tick.                           *)
(*                                                                         *)
(* A step is a system call that others can see the effect of.  A pending   *)
(* SIGINT that is not blocked is delivered before the next step.           *)
(***************************************************************************)
EXTENDS Integers, Sequences, FiniteSets

CONSTANTS
    MaxInterrupts,   \* how often Ctrl-C is pressed
    MaxCrashes       \* how many of clock and scheduler die by themselves

Generator == "generator"
Scheduler == "scheduler"
Clock     == "clock"
Child     == "child"

Children  == {Scheduler, Clock, Child}
Processes == {Generator} \cup Children

(* Where createScheduler, createClk and forkProcess leave a new process,   *)
(* with the generator's signal handlers and a copy of its variables.       *)
Forked == "forked"

GeneratorSems == {"pgSem", "pgSchedulerSem"}
NoTick == -1

VARIABLES
    life,          \* of each process: "none", "alive", "zombie" or "gone"
    stack,         \* the generator's functions, innermost first
    at,            \* where the others are
    childStopped,
    known,         \* the clkPID, schedulerPID and pgMsgqid that are not -1
    pgCleared,
    returned,      \* main has returned
    exists,        \* kernel objects
    sigint,        \* who has a SIGINT pending
    sigchld,
    interrupts,    \* how often Ctrl-C has been pressed
    crashed,       \* who has died by itself
    clkWord,
    firstTick      \* what getClk gives at the first tick

generatorVars == <<stack, known, pgCleared, returned>>
tickVars      == <<clkWord, firstTick>>
userVars      == <<interrupts, crashed>>
vars == <<life, at, childStopped, exists, sigint, sigchld, generatorVars,
          tickVars, userVars>>

Frame(function, line) == [function |-> function, line |-> line]

(* An earlier run may have left its clock segment behind.                  *)
Init ==
    /\ life = [p \in Processes |-> IF p = Generator THEN "alive" ELSE "none"]
    /\ stack = <<Frame("main", "semaphores")>>
    /\ at = [p \in Children |-> Forked]
    /\ childStopped = FALSE
    /\ known = {}
    /\ pgCleared = FALSE
    /\ returned = FALSE
    /\ exists \in {{}, {"clkWord"}}
    /\ sigint = {}
    /\ sigchld = FALSE
    /\ interrupts = 0
    /\ crashed = {}
    /\ clkWord = 1
    /\ firstTick = NoTick

Alive(p) == life[p] = "alive"

(* What kill does to a process that may have ended.                        *)
Signalled(targets) == sigint \cup {p \in targets : Alive(p)}

Ends(p) ==
    /\ life' = [life EXCEPT ![p] = IF Alive(Generator) THEN "zombie" ELSE "gone"]
    /\ sigchld' = TRUE

-----------------------------------------------------------------------------
(* The generator: main.                                                    *)

Top == Head(stack)

Runs(function, line) ==
    /\ Alive(Generator)
    /\ Generator \notin sigint
    /\ Top = Frame(function, line)

Goto(line) == stack' = <<[Top EXCEPT !.line = line]>> \o Tail(stack)

(* Mutant: without the test of pgCleared.                                  *)
CallClearAgain(line) ==
    /\ pgCleared' = TRUE
    /\ stack' = <<Frame("pgClearResources", "objects"), [Top EXCEPT !.line = line]>>
                \o Tail(stack)

(* pgClearResources called, by raise(SIGINT) too: it returns at once when  *)
(* it has been called before.                                              *)
CallClear(line) ==
    IF pgCleared THEN Goto(line) /\ UNCHANGED pgCleared
    ELSE /\ pgCleared' = TRUE
         /\ stack' = <<Frame("pgClearResources", "objects"), [Top EXCEPT !.line = line]>>
                     \o Tail(stack)

InitSemaphores ==
    /\ Runs("main", "semaphores")
    /\ Goto("handlers")
    /\ exists' = exists \cup GeneratorSems
    /\ UNCHANGED <<life, at, childStopped, known, pgCleared, returned, sigint, sigchld,
                   tickVars, userVars>>

InstallHandlers ==
    /\ Runs("main", "handlers")
    /\ Goto("arguments")
    /\ UNCHANGED <<life, at, childStopped, known, pgCleared, returned, exists, sigint,
                   sigchld, tickVars, userVars>>

(* parseCommandLineArgs, readProcessesFile.                                *)
ReadInput(line, next) ==
    /\ Runs("main", line)
    /\ Goto(next)
    /\ UNCHANGED <<life, at, childStopped, known, pgCleared, returned, exists, sigint,
                   sigchld, tickVars, userVars>>

(* A call of main fails, or there is nothing to simulate: raise(SIGINT).   *)
RaiseInMain ==
    /\ \E line \in {"semaphores", "handlers", "arguments", "createScheduler", "createClk",
                    "file", "msgget"} : Runs("main", line)
    /\ sigint' = sigint \cup {Generator}
    /\ UNCHANGED <<life, at, childStopped, generatorVars, exists, sigchld, tickVars, userVars>>

(* createScheduler, createClk: fork, and later the assignment of its       *)
(* result.                                                                 *)
Fork(p, line, next) ==
    /\ Runs("main", line)
    /\ Goto(next)
    /\ life' = [life EXCEPT ![p] = "alive"]
    /\ UNCHANGED <<at, childStopped, known, pgCleared, returned, exists, sigint, sigchld,
                   tickVars, userVars>>

Assign(p, line, next) ==
    /\ Runs("main", line)
    /\ Goto(next)
    /\ known' = known \cup {p}
    /\ UNCHANGED <<life, at, childStopped, pgCleared, returned, exists, sigint, sigchld,
                   tickVars, userVars>>

(* Mutant: its id is kept in a variable of main.                           *)
CreateQueueLocally ==
    /\ Runs("main", "msgget")
    /\ Goto("syncClk")
    /\ exists' = exists \cup {"queue"}
    /\ UNCHANGED <<life, at, childStopped, known, pgCleared, returned, sigint, sigchld,
                   tickVars, userVars>>

CreateQueue ==
    /\ Runs("main", "msgget")
    /\ Goto("syncClk")
    /\ known' = known \cup {"queue"}
    /\ exists' = exists \cup {"queue"}
    /\ UNCHANGED <<life, at, childStopped, pgCleared, returned, sigint, sigchld,
                   tickVars, userVars>>

SyncGenerator ==
    /\ Runs("main", "syncClk")
    /\ "clkWord" \in exists
    /\ Goto("loop")
    /\ UNCHANGED <<life, at, childStopped, known, pgCleared, returned, exists, sigint,
                   sigchld, tickVars, userVars>>

(* In its loop the generator forks, finds its semaphore removed, or has    *)
(* sent everything and waits for the scheduler.                            *)
Loop ==
    /\ Runs("main", "loop")
    /\ \/ /\ life[Child] = "none" /\ firstTick # NoTick
          /\ life' = [life EXCEPT ![Child] = "alive"]
          /\ UNCHANGED <<stack, pgCleared>>
       \/ "pgSem" \notin exists /\ CallClear("loop") /\ UNCHANGED life
       \/ firstTick # NoTick /\ Goto("waitpid") /\ UNCHANGED <<life, pgCleared>>
    /\ UNCHANGED <<at, childStopped, known, returned, exists, sigint, sigchld,
                   tickVars, userVars>>

ReturnFromMain ==
    /\ Runs("main", "waitpid")
    /\ life[Scheduler] = "zombie"
    /\ life' = [life EXCEPT ![Scheduler] = "gone", ![Generator] = "gone"]
    /\ returned' = TRUE
    /\ UNCHANGED <<at, childStopped, stack, known, pgCleared, exists, sigint, sigchld,
                   tickVars, userVars>>

main ==
    \/ InitSemaphores
    \/ InstallHandlers
    \/ ReadInput("arguments", "createScheduler")
    \/ Fork(Scheduler, "createScheduler", "schedulerPID")
    \/ Assign(Scheduler, "schedulerPID", "createClk")
    \/ Fork(Clock, "createClk", "clkPID")
    \/ Assign(Clock, "clkPID", "file")
    \/ ReadInput("file", "msgget")
    \/ RaiseInMain
    \/ CreateQueue
    \/ SyncGenerator
    \/ Loop
    \/ ReturnFromMain

-----------------------------------------------------------------------------
(* The generator: pgClearResources.                                        *)

(* Mutant: the clock is left to end by itself.                             *)
RemoveAndSkipClock ==
    /\ Runs("pgClearResources", "objects")
    /\ Goto("killScheduler")
    /\ exists' = exists \ (GeneratorSems \cup (known \cap {"queue"}))
    /\ UNCHANGED <<life, at, childStopped, known, pgCleared, returned, sigint, sigchld,
                   tickVars, userVars>>

RemoveObjects ==
    /\ Runs("pgClearResources", "objects")
    /\ Goto("killClock")
    /\ exists' = exists \ (GeneratorSems \cup (known \cap {"queue"}))
    /\ UNCHANGED <<life, at, childStopped, known, pgCleared, returned, sigint, sigchld,
                   tickVars, userVars>>

(* One of the two: kill if its pid is known, then waitpid.                 *)
KillIfKnown(function, p, line, wait, next) ==
    /\ Runs(function, line)
    /\ \/ p \in known /\ Goto(wait) /\ sigint' = Signalled({p})
       \/ p \notin known /\ Goto(next) /\ UNCHANGED sigint
    /\ UNCHANGED <<life, at, childStopped, known, pgCleared, returned, exists, sigchld,
                   tickVars, userVars>>

(* waitpid reads the variable again: when the SIGCHLD handler has set it   *)
(* to -1 since, it waits for any child.                                    *)
Awaited(p) == IF p \in known THEN {p} ELSE Children

Unreaped(targets) == {p \in targets : life[p] \in {"alive", "zombie"}}

(* What waitpid does: one zombie is reaped, or there is no such child.     *)
Waited(targets) ==
    \/ \E p \in targets : life[p] = "zombie" /\ life' = [life EXCEPT ![p] = "gone"]
    \/ Unreaped(targets) = {} /\ UNCHANGED life

WaitThen(p, line, next) ==
    /\ Runs("pgClearResources", line)
    /\ Waited(Awaited(p))
    /\ Goto(next)
    /\ UNCHANGED <<at, childStopped, known, pgCleared, returned, exists, sigint, sigchld,
                   tickVars, userVars>>

ExitGenerator ==
    /\ Runs("pgClearResources", "exit")
    /\ life' = [life EXCEPT ![Generator] = "gone"]
    /\ UNCHANGED <<at, childStopped, generatorVars, exists, sigint, sigchld,
                   tickVars, userVars>>

pgClearResources ==
    \/ RemoveObjects
    \/ KillIfKnown("pgClearResources", Clock, "killClock", "waitClock", "killScheduler")
    \/ WaitThen(Clock, "waitClock", "killScheduler")
    \/ KillIfKnown("pgClearResources", Scheduler, "killScheduler", "waitScheduler", "exit")
    \/ WaitThen(Scheduler, "waitScheduler", "exit")
    \/ ExitGenerator

-----------------------------------------------------------------------------
(* The generator: signals, and checkChildProcess.                          *)

(* Until its handler is installed SIGINT kills.                            *)
InterruptGenerator ==
    /\ Alive(Generator)
    /\ Generator \in sigint
    /\ sigint' = sigint \ {Generator}
    /\ IF Top.line \in {"semaphores", "handlers"}
       THEN life' = [life EXCEPT ![Generator] = "gone"] /\ UNCHANGED <<stack, pgCleared>>
       ELSE CallClear(Top.line) /\ UNCHANGED life
    /\ UNCHANGED <<at, childStopped, known, returned, exists, sigchld, tickVars, userVars>>

(* SIGCHLD is blocked only in its own handler.                             *)
EnterCheckChild ==
    /\ Alive(Generator)
    /\ sigchld
    /\ \A i \in DOMAIN stack : stack[i].function # "checkChildProcess"
    /\ sigchld' = FALSE
    /\ stack' = <<Frame("checkChildProcess", "poll")>> \o stack
    /\ UNCHANGED <<life, at, childStopped, known, pgCleared, returned, exists, sigint,
                   tickVars, userVars>>

(* Whom the end of p makes the handler stop.                               *)
Other(p) == (IF p = Clock THEN {Scheduler} ELSE {Clock}) \cap known

(* Mutant: the handler only reaps.                                         *)
ReapOnly(p) ==
    /\ Runs("checkChildProcess", "poll")
    /\ life[p] = "zombie"
    /\ life' = [life EXCEPT ![p] = "gone"]
    /\ UNCHANGED <<at, childStopped, generatorVars, exists, sigint, sigchld,
                   tickVars, userVars>>

(* waitpid(-1, WNOHANG) finds p.  Clock and scheduler are followed by the  *)
(* other of them and by the cleanup; for a child a message is sent.        *)
Reap(p) ==
    /\ Runs("checkChildProcess", "poll")
    /\ life[p] = "zombie"
    /\ life' = [life EXCEPT ![p] = "gone"]
    /\ IF p \in known \cap {Clock, Scheduler}
       THEN IF Other(p) = {} THEN CallClear("poll")
            ELSE Goto(IF p = Clock THEN "killScheduler" ELSE "killClock") /\ UNCHANGED pgCleared
       ELSE IF "queue" \in known \cap exists THEN UNCHANGED <<stack, pgCleared>>
            ELSE CallClear("poll")
    /\ UNCHANGED <<at, childStopped, known, returned, exists, sigint, sigchld,
                   tickVars, userVars>>

WaitAndForget(p, line) ==
    /\ Runs("checkChildProcess", line)
    /\ Waited({p})
    /\ known' = known \ {p}
    /\ CallClear("poll")
    /\ UNCHANGED <<at, childStopped, returned, exists, sigint, sigchld, tickVars, userVars>>

(* No zombie is left.  A waitpid the signal interrupted fails with EINTR:  *)
(* pgClearResources takes that for an answer, the loop starts over.        *)
LeaveCheckChild ==
    LET Resumed == Head(Tail(stack))
        After == CASE Resumed.line = "waitClock" -> "killScheduler"
                   [] Resumed.line = "waitScheduler" -> "exit"
                   [] Resumed.line = "waitpid" -> "loop"
                   [] OTHER -> Resumed.line
    IN  /\ Runs("checkChildProcess", "poll")
        /\ \A p \in Children : life[p] # "zombie"
        /\ \E line \in {Resumed.line, After} :
              stack' = <<[Resumed EXCEPT !.line = line]>> \o Tail(Tail(stack))
        /\ UNCHANGED <<life, at, childStopped, known, pgCleared, returned, exists, sigint,
                       sigchld, tickVars, userVars>>

checkChildProcess ==
    \/ EnterCheckChild
    \/ \E p \in Children : Reap(p)
    \/ KillIfKnown("checkChildProcess", Scheduler, "killScheduler", "waitScheduler", "poll")
    \/ KillIfKnown("checkChildProcess", Clock, "killClock", "waitClock", "poll")
    \/ WaitAndForget(Scheduler, "waitScheduler")
    \/ WaitAndForget(Clock, "waitClock")
    \/ LeaveCheckChild

generator == main \/ pgClearResources \/ InterruptGenerator \/ checkChildProcess

-----------------------------------------------------------------------------
(* The other processes.                                                    *)

Does(p, line, next) ==
    /\ Alive(p) /\ p \notin sigint
    /\ at[p] = line
    /\ at' = [at EXCEPT ![p] = next]
    /\ UNCHANGED <<life, childStopped, generatorVars, sigint, sigchld, userVars>>

(* The generator's pgClearResources, inherited, with the values of its     *)
(* variables at the fork: their children are not p's, so waitpid fails.    *)
InheritedClear(p, copied) ==
    /\ exists' = exists \ (GeneratorSems \cup (copied \cap {"queue"}))
    /\ sigint' = Signalled(copied \ {"queue"}) \ {p}
    /\ Ends(p)
    /\ UNCHANGED <<at, childStopped, generatorVars, tickVars, userVars>>

Dies(p) ==
    /\ sigint' = sigint \ {p}
    /\ Ends(p)
    /\ UNCHANGED <<at, childStopped, generatorVars, tickVars, userVars>>

(* initScheduler.                                                          *)
InitScheduler ==
    \/ /\ Does(Scheduler, Forked, "handlers")
       /\ exists' = exists \cup {"schedulerSem"}
       /\ UNCHANGED tickVars
    \/ Does(Scheduler, "handlers", "createList") /\ UNCHANGED <<exists, tickVars>>
    \/ Does(Scheduler, "createList", "msgget") /\ UNCHANGED <<exists, tickVars>>
    \/ /\ Does(Scheduler, "msgget", "syncClk")
       /\ exists' = exists \cup {"queue"}
       /\ UNCHANGED tickVars
    \/ /\ Does(Scheduler, "syncClk", "loop")
       /\ "clkWord" \in exists
       /\ UNCHANGED <<exists, tickVars>>

(* Its loop makes the segment of the child, stops and continues it.        *)
FetchChild ==
    /\ Does(Scheduler, "loop", "loop")
    /\ life[Child] # "none"
    /\ exists' = exists \cup {"remainingTime"}
    /\ UNCHANGED tickVars

SwitchChild ==
    /\ Alive(Scheduler) /\ Scheduler \notin sigint /\ at[Scheduler] = "loop"
    /\ Alive(Child) /\ "remainingTime" \in exists
    /\ childStopped' \in BOOLEAN
    /\ UNCHANGED <<life, at, generatorVars, exists, sigint, sigchld, tickVars, userVars>>

(* A call of initScheduler fails, or the loop ends because all is done or  *)
(* an object it needs is gone.                                             *)
RaiseInScheduler ==
    /\ Alive(Scheduler) /\ Scheduler \notin sigint
    /\ \/ at[Scheduler] \in {Forked, "msgget"}
       \/ /\ at[Scheduler] = "loop"
          /\ \/ life[Child] \in {"none", "gone"} /\ stack[Len(stack)].line = "waitpid"
             \/ ~({"queue", "pgSchedulerSem"} \subseteq exists)
    /\ sigint' = sigint \cup {Scheduler}
    /\ UNCHANGED <<life, at, childStopped, generatorVars, exists, sigchld, tickVars, userVars>>

(* The handler is the generator's at first, then schedulerClearResources,  *)
(* which fails on a table that does not exist yet, and after one delivery  *)
(* the default action, which ends the cleanup in the middle.               *)
InterruptScheduler ==
    /\ Alive(Scheduler) /\ Scheduler \in sigint
    /\ \/ at[Scheduler] \in {Forked, "handlers"} /\ InheritedClear(Scheduler, {})
       \/ /\ at[Scheduler] = "createList"
          /\ exists' = exists \ {"schedulerSem"}
          /\ Dies(Scheduler)
       \/ /\ at[Scheduler] \in {"msgget", "syncClk", "loop"}
          /\ at' = [at EXCEPT ![Scheduler] = "clearing"]
          /\ exists' = exists \ {"schedulerSem"}
          /\ sigint' = sigint \ {Scheduler}
          /\ UNCHANGED <<life, childStopped, generatorVars, sigchld, tickVars, userVars>>
       \/ at[Scheduler] = "clearing" /\ Dies(Scheduler) /\ UNCHANGED exists

ExitScheduler ==
    /\ Alive(Scheduler) /\ Scheduler \notin sigint /\ at[Scheduler] = "clearing"
    /\ exists' = exists \ {"remainingTime"}
    /\ Dies(Scheduler)

(* A new segment is zero.                                                  *)
GetSegment ==
    /\ Does(Clock, "shmget", "initialise")
    /\ exists' = exists \cup {"clkWord"}
    /\ clkWord' = IF "clkWord" \in exists THEN clkWord ELSE 0
    /\ UNCHANGED firstTick

(* Mutant: the word is left as it is.                                      *)
KeepWord == Does(Clock, "initialise", "ticking") /\ UNCHANGED <<exists, tickVars>>

InitWord ==
    /\ Does(Clock, "initialise", "ticking")
    /\ clkWord' = -1
    /\ UNCHANGED <<exists, firstTick>>

(* shmid is assigned from "initialise" on.                                 *)
initClk ==
    \/ Does(Clock, Forked, "shmget") /\ UNCHANGED <<exists, tickVars>>
    \/ GetSegment
    \/ InitWord

(* A second after initClk, when the others are in their loops.             *)
FirstTick ==
    /\ Does(Clock, "ticking", "ticking")
    /\ firstTick = NoTick
    /\ stack = <<Frame("main", "loop")>> /\ at[Scheduler] = "loop"
    /\ Alive(Generator) /\ Alive(Scheduler)
    /\ clkWord' = clkWord + 1
    /\ firstTick' = clkWord'
    /\ UNCHANGED exists

(* shmget or shmat fails.                                                  *)
FailInit ==
    /\ Alive(Clock) /\ Clock \notin sigint
    /\ at[Clock] \in {"shmget", "initialise"}
    /\ Dies(Clock) /\ UNCHANGED exists

InterruptClock ==
    /\ Alive(Clock) /\ Clock \in sigint
    /\ \/ at[Clock] = Forked /\ InheritedClear(Clock, {Scheduler})
       \/ at[Clock] = "shmget" /\ Dies(Clock) /\ UNCHANGED exists
       \/ /\ at[Clock] \in {"initialise", "ticking"}
          /\ exists' = exists \ {"clkWord"}
          /\ Dies(Clock)

(* The child stops itself, is continued, and calls execv, which can fail;  *)
(* a simulated process ends when its time is over.                         *)
StopItself ==
    /\ Alive(Child) /\ Child \notin sigint /\ at[Child] = Forked
    /\ at' = [at EXCEPT ![Child] = "stopped"]
    /\ childStopped' = TRUE
    /\ UNCHANGED <<life, generatorVars, exists, sigint, sigchld, tickVars, userVars>>

RunChild ==
    /\ Alive(Child) /\ Child \notin sigint /\ ~childStopped
    /\ \/ Does(Child, "stopped", "process") /\ UNCHANGED <<exists, tickVars>>
       \/ at[Child] = "stopped" /\ InheritedClear(Child, {Clock, Scheduler, "queue"})
       \/ at[Child] = "process" /\ Dies(Child) /\ UNCHANGED exists

InterruptChild ==
    /\ Alive(Child) /\ Child \in sigint /\ ~childStopped
    /\ \/ at[Child] # "process" /\ InheritedClear(Child, {Clock, Scheduler, "queue"})
       \/ at[Child] = "process" /\ Dies(Child) /\ UNCHANGED exists

scheduler == InitScheduler \/ FetchChild \/ SwitchChild \/ RaiseInScheduler
                \/ InterruptScheduler \/ ExitScheduler
clock     == initClk \/ FailInit \/ FirstTick \/ InterruptClock
child     == StopItself \/ RunChild \/ InterruptChild

-----------------------------------------------------------------------------
(* What comes from outside.                                                *)

(* The terminal signals the whole group.                                   *)
CtrlC ==
    /\ interrupts < MaxInterrupts
    /\ Alive(Generator)
    /\ interrupts' = interrupts + 1
    /\ sigint' = Signalled(Processes)
    /\ UNCHANGED <<life, at, childStopped, generatorVars, exists, sigchld, tickVars, crashed>>

(* Clock or scheduler is killed; the scheduler by a second tick, for one.  *)
Crash(p) ==
    /\ Alive(p) /\ p \notin sigint
    /\ Cardinality(crashed) < MaxCrashes
    /\ firstTick # NoTick
    /\ crashed' = crashed \cup {p}
    /\ Ends(p)
    /\ UNCHANGED <<at, childStopped, generatorVars, exists, sigint, tickVars, interrupts>>

Next ==
    \/ generator
    \/ scheduler
    \/ clock
    \/ child
    \/ CtrlC
    \/ \E p \in {Scheduler, Clock} : Crash(p)

(* Each process runs, and its signals are delivered.  Nothing is assumed   *)
(* of the child, which may be stopped, nor of the user.                    *)
Spec ==
    /\ Init
    /\ [][Next]_vars
    /\ WF_vars(generator) /\ WF_vars(scheduler) /\ WF_vars(clock)

(* The same beside a clock that an earlier run has left behind: its word   *)
(* has the same key.                                                       *)
OrphanTick ==
    /\ "clkWord" \in exists
    /\ clkWord < 1
    /\ clkWord' = clkWord + 1
    /\ UNCHANGED <<life, at, childStopped, generatorVars, exists, sigint, sigchld,
                   firstTick, userVars>>

OrphanSpec == Init /\ exists # {} /\ [][Next \/ OrphanTick]_vars

-----------------------------------------------------------------------------
(* Properties.                                                             *)

System == {Generator, Scheduler, Clock}

Running(function) == {i \in DOMAIN stack : stack[i].function = function}

Once(function) == \A i, j \in Running(function) : i = j

(* SIGINT, the end of a child and raise can each call pgClearResources,    *)
(* also in the middle of each other.  It is entered once, so nothing is    *)
(* freed or removed twice, and what it interrupted never goes on.          *)
CleanupOnce ==
    /\ pgCleared <=> Running("pgClearResources") # {}
    /\ Once("pgClearResources") /\ Once("checkChildProcess")
    /\ stack[Len(stack)].function = "main"

Ending == \E p \in System : p \in sigint \/ life[p] \in {"zombie", "gone"}

AllEnded == \A p \in System : ~Alive(p)

(* The generator's cleanup waits for any child, because its SIGCHLD handler *)
(* has set the pid to -1 between kill and waitpid, and the only child left *)
(* is a simulated process that nobody will continue or count down.         *)
Stuck ==
    /\ Top.function = "pgClearResources"
    /\ \/ Top.line = "waitClock" /\ Clock \notin known
       \/ Top.line = "waitScheduler" /\ Scheduler \notin known
    /\ Alive(Child)

(* The scheduler has failed after the fork of the clock and before main    *)
(* has assigned clkPID: the cleanup knows of no clock.                     *)
Forgotten(p) ==
    /\ p = Clock
    /\ stack[Len(stack)].line = "clkPID"
    /\ life[Scheduler] = "gone"

(* Whoever of the three ends first, and whenever Ctrl-C comes, startup     *)
(* included, all three end, unless the generator hangs in the one way that *)
(* Stuck describes, or leaves the clock behind: forgotten, or by returning *)
(* from main.                                                              *)
EveryoneEnds == Ending ~> (AllEnded \/ returned \/ Stuck \/ Forgotten(Clock))

(* When the generator has ended by its cleanup, which a SIGCHLD can push   *)
(* past a waitpid by EINTR, both others have ended or are about to, but    *)
(* for a clock that is forgotten.                                          *)
NoOrphan ==
    life[Generator] = "gone" /\ ~returned =>
        \A p \in {Scheduler, Clock} :
            Alive(p) => p \in sigint \/ at[p] = "clearing" \/ Forgotten(p)

(* A run that got to its first tick and was ended by signals leaves no     *)
(* queue, no semaphore of the generator and no clock word behind, although *)
(* up to four processes remove them and signal each other meanwhile.       *)
CleanEnd ==
    AllEnded /\ ~returned /\ crashed = {} /\ firstTick # NoTick =>
        exists \cap ({"queue", "clkWord"} \cup GeneratorSems) = {}

(* The first time the system sees is 0, as the counters of the scheduler   *)
(* assume (scheduler.c:29), also when an earlier run has left its clock    *)
(* word behind and everybody has attached to that before it was reset.     *)
FirstTickIsZero == firstTick \in {NoTick, 0}

(* process_generator.c:214: "Clean up message queue if it exists".         *)
QueueCleaned ==
    AllEnded /\ ~returned /\ crashed = {} => "queue" \notin exists
=============================================================================
