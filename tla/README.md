# Kernalyze in TLA+

A TLA+ development of Kernalyze, the operating system simulator in `src/`: a
process generator, a clock, a scheduler and one child per simulated process,
four kinds of Unix processes that share semaphores, a message queue, shared
memory words and signals. Four models, each with its own runs:

- `Kernalyze`: the simulation from the first tick to the end, four kinds of
  processes composed; all its safety properties are also proved, for every value of the constants;
- `Lifecycle`: how a run starts up and how it is ended, by Ctrl-C, errors and crashes;
  its safety properties are proved too;
- `BuddyTree`: the allocator as the tree it is, shown to implement the allocator
  `Kernalyze` uses; its properties and that refinement are proved too;
- `ReadyStore`: PCBs, list, ring and heap as they are laid out in memory, shown to
  implement the ordered queue `Kernalyze` uses; its properties are proved too.

    tlc -workers 2 -config timely.cfg MCKernalyze
    tlc -workers 2 -config lifecycle.cfg Lifecycle
    for m in Kernalyze Admission Queue Time Lifecycle Loop Store Buddy; do
        tlapm ${m}Proofs.tla
    done

## 1. The system

| Component | Code | State | Operations |
|---|---|---|---|
| Clock | `clk.c` | the clock word (shm 300) | `initClk`, `runClk` (sleep, increment, `killpg(SIGUSR2)`), `getClk`, `syncClk`, `_cleanup` |
| Process generator | `process_generator.c` | arguments, parsed file, `waitList`, `processIndex`, `pgCurrentClk`, two semaphores | `runProcessGenerator`, `forkProcess`, `sendProcesstoScheduler`, handlers `pgClkHandler` (SIGUSR2), `checkChildProcess` (SIGCHLD), `pgClearResources` (SIGINT) |
| Memory allocator | `memory_allocator.c` | the buddy tree | `allocateMemory`, `canAllocate`, `freeMemory` |
| Scheduler | `scheduler.c` | `currentProcess`, ready queue, PCBs, quantum, counters | `runScheduler`, `fetchProcessFromQueue`, `schedule`, `resumeProcess`, `stopProcess`, `handleProcessExit`, `pushToReadyQueue`, handler `schedulerClkHandler` (SIGUSR2) |
| Simulated process | child part of `forkProcess`, `process.c` | its position, stopped or not | stop itself, exec, spin on its remaining-time word, exit |
| Shared objects | `semaphore.c`, `defs.h`, the kernel | three semaphores, message queue with two types, remaining-time words, pending signals | `up`, `down`, `msgsnd`, `msgrcv` |
| Data structures | `minheap.c`, `vector.c`, `circularQueue.c`, `list.c` | ready queue, waiting list, PCB table | insert, extract, enqueue, dequeue, remove |
| Startup | `main`, `createScheduler`, `createClk`, `initScheduler`, `initClk`, `syncClk` | who knows whose pid, which objects exist | fork, install handlers, create objects |
| Shutdown | `pgClearResources`, `checkChildProcess`, `schedulerClearResources`, `_cleanup` | the same | remove objects, kill, wait; each a signal handler |
| Loggers, test generator | `logger.c`, `console_logger.c`, `test_generator.c` | - | output only |

How they interact, once a second: the clock increments its word and signals the
group. Each of generator and scheduler turns the signal into an `up` of its own
semaphore (`pgSem`, `schedulerSem`), which its main loop takes with `down`. The
scheduler counts down the remaining-time word of the current process, waits for
its exit when that reaches zero, and then asks the generator for this tick's
arrivals (`up(pgSchedulerSem)`, then `msgrcv` until a mark: -1, end of tick, or
-2, end of input). The generator puts arrivals on `waitList`, forks and sends
those that fit into memory, and ends the round with a mark. It then preempts or
dispatches with SIGSTOP and SIGCONT. A child whose word is zero exits; SIGCHLD
makes the generator free its memory and send the termination message the
scheduler waits for. When the scheduler exits, the generator ends the run.

What is hard here: the SIGCHLD handler runs in the middle of any line of the
loop, allocator included; the children pass through three kinds of SIGUSR2
disposition and stop themselves at a moment the scheduler does not know; pending
signals merge; two loops are paired only by counting semaphores; one `waitpid`
in the loop and one in the handler compete for the same exit status; and nothing
checks whom a termination message is about. At the end, SIGINT, SIGCHLD and
`raise` call the same cleanup in the middle of each other, the generator kills
those who are killing it, and freshly forked children run its handlers. In the
data structures, sizes are kept twice and pointers outlive what they point at
unless every sequence of calls keeps them in step. The list is in `PROJECT.json` under
`hazards`, each at its line.

What makes each part correct:

- clock: a tick reaches everyone who is there; it stops with the system;
- scheduler: one process runs, in the order of the policy; none is lost from the
  queue; times and counters add up; it ends exactly when all is done;
- generator: an entry is admitted once, when its time has come and it fits; all
  its messages are received in the tick they belong to; it ends after the scheduler;
- allocator: blocks do not overlap, each child holds one while it lives, and the
  tree is never changed by two activities at once;
- process: it executes only while it is the current one, and exits exactly when
  its work is done;
- data structures: ring and heap hand out entries as an ordered queue would, the
  PCB table leads to every PCB, nothing is used after it is freed;
- startup: the first time anyone sees is 0; shutdown: whoever ends first, all end,
  each cleans up once, and no kernel object of the run remains.

## 2. Modules

| Module | Models | Uses |
|---|---|---|
| `Defs` | the sizes and policies of `defs.h` | |
| `KernelIPC` | arguments and parsed file, shared objects, what the kernel keeps per process | `Defs` |
| `Clk` | `runClk` | `KernelIPC` |
| `Process` | a child from fork to exit | `KernelIPC` |
| `Memory` | the allocator at the level of blocks | `Defs` |
| `Scheduler` | `scheduler.c` | `KernelIPC` |
| `ProcessGenerator` | `process_generator.c` after `syncClk` | `KernelIPC`, `Memory` |
| `Kernalyze` | the composition, fairness, all properties, the strengthenings of the proof | all of these |
| `JobService` | abstract: what is promised of jobs | |
| `MCKernalyze` | input files for TLC | `Kernalyze` |
| `KernalyzeProofs` | theorems: rendezvous, who executes, the refinement | `Kernalyze` |
| `AdmissionProofs` | theorems: the blocks, the way of an entry into the scheduler, what is done at the end | `KernalyzeProofs` |
| `QueueProofs` | theorems: the ready queue and the policies; queue and allocator are used as `ReadyQueue` and `Memory` say | `AdmissionProofs`, `LoopProofs` |
| `TimeProofs` | theorems: counters, times, arrivals | `QueueProofs` |
| `Loops` | loops inside one operation | |
| `LoopProofs` | lemmas: the rule for loops, sequences | `Loops` |
| `BuddyTree` | `memory_allocator.c`: the tree | `Defs`, `Loops`; implements `Memory` |
| `BuddyProofs` | theorems: the tree and what `Memory` promises of it | `BuddyTree`, `LoopProofs` |
| `Nodes` | linked nodes on the C heap | `Defs`, `Loops` |
| `CircularQueue`, `PcbList` | `circularQueue.c`, `list.c` | `Nodes` |
| `MinHeap` | `minheap.c` and `vector.c` | `Loops` |
| `ReadyQueue` | abstract: a queue ordered by a key | |
| `ReadyStore` | the functions of `scheduler.c` that change its data | the three above; implements `ReadyQueue` |
| `StoreProofs` | lemmas: list, ring, heap, one call at a time; theorems: the data of the scheduler | `ReadyStore`, `LoopProofs` |
| `Lifecycle` | startup, the SIGINT and SIGCHLD handlers, failing calls, crashes | |
| `LifecycleProofs` | theorems: startup and cleanup | `Lifecycle` |

A process of the input file is its index in `processesArray`; the index is also
its pid and its PCB. This uses that pids of live children differ and that ids
differ in their low eight bits (assumption `WorkloadsAssumption`), which is what
`ftok` in `scheduler.c:254` and `process.c:16` needs.

**Steps.** An action is a maximal piece of code between two points where another
process, or a signal handler, can make a difference: `spc` and `pgc` name those
points.

| `spc` | in `scheduler.c` | | `pgc` | in `process_generator.c` |
|---|---|---|---|---|
| `top` | 96, `down(schedulerSemid)` | | `down` | 344 |
| `finish` | 321 called from 112 | | `downscheduler` | 345 |
| `fetch` | 116 / 140 | | `arrive` | 348 |
| `receive` | 213 | | `scan` | 355 |
| `quantum` | 118 | | `fork` | 359 |
| `switch` | 123 | | `allocate` | 360 |
| `dispatch` | 144 | | `send` | 361 |
| `finishresumed` | 321 called from 131 / 151 | | `end` | 368 |
| `done` | 177 | | `wait` | 379 |

The generator's handlers are enabled at each of these points (variable `reaping`
while `checkChildProcess` runs; the loop then stands still). The scheduler's
handler is entered anywhere; it is two actions because System V `signal()`, which
that file gets by defining `_POSIX_SOURCE`, resets the disposition on entry and
line 55 installs it again: between the two a second tick is fatal (`KilledByTick`).
`process_generator.c` gets the BSD `signal()`, whose handlers stay; its SIGCHLD handler is installed by `sigaction` without
`SA_RESTART`, hence the EINTR of `LeaveCheckChild`.

**Ready queue.** A sequence in the order in which `schedule` would take entries
out. `pushToReadyQueue` inserts by the key *at that moment*, as the heap does; that
ring and heap behave like this is what `ReadyStore` is checked for and `StoreProofs` proves.
**Memory.** `held[p]` is the block of `p`. Frees merge buddies as far up as they
go, so a free region of the size asked for always lies in one free leaf, and the
left-first descent reaches the lowest; that is what `BuddyTree` is checked for and `BuddyProofs` proves. **Kernel.** `usr2` is the set of processes
with a pending SIGUSR2 (a pending signal is not queued twice), `sigchld` the same
for the generator's SIGCHLD, `stopped` the children under SIGSTOP. Sending
SIGCONT to a child that is not stopped does nothing - also when the child is
about to stop itself.

**Tree.** In `BuddyTree` a pointer to a block is the range of memory the block stands
for - `start`, `end` and `allocationSize` never change while a block lives, and no
two blocks of a tree have the same range - and the tree is a function from pointers to the other
fields, `left`, `right` and `parent` included; it is empty after `destroyMemory`. The
recursions are loops of `Loops`: `freeMemoryHelper` calls itself last, and so does
`allocateHelper` on the way down from a free leaf (`Descend`); for the rest of the search `todo`
holds the blocks that the open calls still have to call it for. `nextPowerOfTwo`
halves the highest bit of the word as often as the code shifts it.

**Store.** In `Nodes` an address is a number and a structure is a function from
addresses to nodes, so a freed node leaves the domain and a use of it is a TLC error.
The heap is a vector of slots 0, 1, ... with its capacity; `heap_insert` doubles it
when it is full. An action of `ReadyStore` is one call from the loop.

**Lifecycle.** The generator is a stack of frames, `[function, line]`: a handler is a
frame pushed upon whatever runs, and leaving it goes on below, after a `waitpid`
possibly behind it (EINTR). `pgClearResources` never returns. A line names the call
that comes next:

| `main` | line | `pgClearResources`, `checkChildProcess` | lines |
|---|---|---|---|
| `semaphores`, `handlers`, `arguments` | 41-61 | `objects` | 210-219 |
| `createScheduler`, `schedulerPID` | 71: fork, assignment | `killClock`, `waitClock` | 222-226, 309-315 |
| `createClk`, `clkPID` | 72: fork, assignment | `killScheduler`, `waitScheduler` | 228-232, 283-295 |
| `file`, `msgget`, `syncClk` | 73-88 | `exit` | 243 |
| `loop`, `waitpid` | 92, 379 | `poll` | 276 |

`at` is the same for the others, where `Forked` means: still with the generator's
handlers and copies of its variables. `known` holds the variables `clkPID`,
`schedulerPID`, `pgMsgqid` that are not -1. `exists` holds the kernel objects.

## 3. What is checked

| Run | Instance | Shows |
|---|---|---|
| `timely` | 36 files of 2-3 entries (`TimelyWorkloads`), RR / SRTN / HPF, quantum none, 1, 2; memory 4; 9 ticks; ~145,000 states | 14 invariants, the action property `ChoiceObeysPolicy`, refinement of `JobService`, with fairness `Completion` |
| `overrun_safety` | 2 files of 2 entries, RR, quantum 1; ticks at any moment, 3 ticks; ~2.6 million states | nine of these invariants and the refinement, without any assumption on speed |
| `overrun_liveness` | 2 files of 1-2 entries (`ShortWorkloads`), RR, quantum 1; ticks at any moment, 3 ticks, with fairness; ~705,000 states | `GeneratorFollows` |
| `buddy_tree` | memory of 8, three holders, requests of 1 to 9, 16-bit words; ~7,800 states | `TreeWhole`, `ImplementsMemory`, `ProbeTruthful` |
| `ready_store` | four PCBs, all policies, work up to 2, priorities 1 and 2, a vector of 2 at first; ~63,000 states | `QueueWhole`, `PcbsTracked`, `SegmentsRemoved`, `ImplementsReadyQueue` |
| `lifecycle` | Ctrl-C twice, one crash, one child; ~255,000 states | `CleanupOnce`, `NoOrphan`, `CleanEnd`, `FirstTickIsZero`, `EveryoneEnds` |
| `orphan_clock` | a clock left by an earlier run, no Ctrl-C | violated: finding 5 |
| `queue_left_behind` | no Ctrl-C, no crash | violated: finding 6 |
| `running_is_stopped` | 2 files (`FewWorkloads`), HPF | violated: finding 1 |
| `clock_left_running` | " | violated: finding 2 |
| `srtn_with_quantum` | ", SRTN, quantum 2 | violated: finding 3 |
| `overrun_arrival` | ", ticks at any moment | violated: finding 4 |

The invariants of the simulation, in the order of the hazards they are about:

- `Rendezvous` - the tick protocol between the two loops: one request, one round,
  its messages, its mark as the last of them. Also that an EINTR, a doubled
  `up(pgSem)` by a freshly forked child, or a tick that comes early never shifts
  the generator by a round.
- `AllocatorExclusion` - no child is a zombie while the loop is in the allocator,
  or between a probe and the allocation it promised, so the handler has nothing
  to free there. This is not by masking (nothing masks SIGCHLD): it holds because
  a child exits only while the scheduler waits for that exit, and then no round is open.
- `OneProcessRuns`, `TerminationIsExpected` - stop and continue keep at most the
  current process unstopped, and the unchecked termination message is always its.
- `ReadyQueueExact` - READY processes are in the queue once, in order, and nothing
  else is: no pointer to a freed PCB stays behind.
- `NothingLostOrDuplicated`, `MemoryOwnership`, `NoneFits` - an entry is in one
  place; a block belongs to one living child; what is left waiting did not fit.
- `WorkAccounting`, `TimesAgree` - counters and times.
- `EndsWhenAllDone`, `NoMissedArrival` - the promises of the README: everybody is
  served, and in time.
- `PolicyObeyed`, `ChoiceObeysPolicy` - by the policy. Of round robin the first says
  that whoever waits has been served for whole quanta, and that whoever runs will have
  been when the rest of its quantum is over; the second that a process gives way only
  with work left and at the end of a full quantum, to the first of the ring, and goes
  on then only if nobody else is ready. A quantum that ends early or late breaks both.
- `Completion`, `GeneratorFollows` - everybody is served and all programs end, unless
  a SIGCONT was lost; and when the scheduler ends, the generator notices. The second
  is checked with ticks at any moment, where the scheduler is also killed by a second
  tick in the window of its handler: before its request, while it waits for messages
  or for an exit, or with one SIGCHLD for the exit of a child and its own.
- `ImplementsService` - seen from outside, through the states in the PCBs and the
  remaining-time words, this is `JobService`: one job at a time, finished once,
  with exactly the service it asked for.

Of the data:

- `TreeWhole`, `ProbeTruthful` - no sequence of calls leaves two free buddies apart,
  and a probe changes nothing and tells the truth about the memory.
- `ImplementsMemory` - the tree gives the lowest aligned block that is free, as
  `Memory` says; this makes the abstraction in the composition sound. `nextPowerOfTwo`
  is in there too: it is computed on words, `Memory` states it as a bound.
- `QueueWhole`, `PcbsTracked`, `SegmentsRemoved` - links, sizes, table, queue and
  current process agree after every sequence of calls, and the cleanup reaches all.
- `ImplementsReadyQueue` - ring and heap are a queue ordered by key, first in first
  out among equal keys, and `schedule` skips nothing that should run.

Of a run's beginning and end:

- `CleanupOnce` - however the handlers nest, the cleanup is entered once.
- `NoOrphan`, `EveryoneEnds` - whoever ends first, and at whatever line Ctrl-C comes,
  all three end. Two exceptions are named in the module: `Stuck`, where `waitpid`
  reads a pid that the SIGCHLD handler has set to -1 meanwhile and so waits for a
  simulated child that nobody will continue; and `Forgotten`, a clock forked but not
  yet in `clkPID` when the scheduler's end starts the cleanup. The third way out is
  finding 2.
- `CleanEnd` - no queue, semaphore or clock word survives, though up to four processes
  remove them. It is stated for runs that reached a tick and saw no crash: before
  that finding 6 leaves the queue, and a killed clock leaves its word.
- `FirstTickIsZero` - also with a word left by an earlier run, to which everybody has
  attached too early; only a clock still counting in it breaks this (finding 5).

**Bounds.** `MaxProcs` is 3 and the files have every combination that matters for
two processes (arrival together, apart, running times 0 to 3, priority against
order, sizes that fit together, exclude each other or leave a hole) plus files of
three for queues of two and a waiting list, one of their entries with id 9999, the
largest for which the heap key keeps remaining time or priority in front of the id. Memory of 4 has three levels, enough
for a split, a merge and a refusal with memory free in pieces. `MaxClk` lets every
file of the timely runs end (their total work is at most 6, the last arrival at 2);
in the overrun runs it is 3, which already lets two ticks pile up behind any step,
and the files of `overrun_liveness` come to an end within that, so that the scheduler
ends in both ways.
`MaxClk` is a bound of the model: the clock stops counting. TLC reports a stop as
deadlock, and the program does stop when the simulation is over, so the runs say
`CHECK_DEADLOCK FALSE`; a stop that is not the end is what `Completion` and
`EveryoneEnds` are for. (`buddy_tree` has it checked: its functions can always be
called.)

Memory of 8 is four levels: merges over two levels with a sibling that is split,
and, with three holders, every pattern of free and held halves that decides whether
a merge stops. `InitialCapacity` is 2 where the code has 10, so that four entries
make the vector grow and shrink below again; a ring of four visits empty, one
node and many. Two Ctrl-C are what it takes to interrupt the interrupted cleanup; a
third meets the same dispositions. One simulated child stands for any number: they
do not interact with the cleanup except by their existence and their SIGCHLD.

**Timely and overrun.** With `Overrun = FALSE` the clock counts only when every
other process is blocked (`Quiescent`): a second is long compared with what a tick
causes, as the README of the repository assumes. `NoMissedArrival`
and the times depend on it. With `Overrun = TRUE` a tick may come between any two
steps.

**Fairness.** Weak fairness of the clock and of every process's own steps (the
operating system runs whoever can run) and of each signal's delivery. No fairness
of choices inside a process: which child the handler reaps first, or whether a
`waitpid` was already entered when SIGCHLD came, stays open. `Lifecycle` assumes it of
generator, scheduler and clock, each with the delivery of its signals, and nothing
of the child, which may be stopped for ever, or of the user. It also
takes two things as given: an unblocked pending SIGINT is delivered before the next
step of its process (the kernel does so on the way back to user mode), and the
clock's first tick, a second after its start, finds the others in their loops. `Completion` assumes
that the scheduler is not `Hung`, the state in which finding 1 leaves it.

## 4. Findings

1. `running_is_stopped`. `process_generator.c:404`: the child stops *itself*; sent
   in the same tick, the scheduler's SIGCONT can come first. The child then stops for
   good in state RUNNING, and the scheduler waits for its exit for ever.
2. `clock_left_running`. `process_generator.c:379`: when the loop's `waitpid` reaps
   the scheduler, `main` returns without `pgClearResources`; the clock goes on.
3. `srtn_with_quantum`. `scheduler.c:118`: the quantum also delays SRTN's preemption.
4. `overrun_arrival`. `process_generator.c:349`: equality with a clock value that
   may be skipped; the file's remaining entries never arrive.
5. `orphan_clock`. `clk.c:38`: the clock word has a fixed key, so the clock that
   finding 2 leaves behind goes on counting in the next run's word.
6. `queue_left_behind`. `process_generator.c:215`: the cleanup removes the queue if
   `main` has called `msgget`, but the scheduler may have created it first; with an
   empty file the queue outlives the run.

## 5. What is proved

Eight proof modules. Those about the simulation assume `ConstantsAssumption` and
`WorkloadsAssumption` (any number of processes, any files, policies, quanta and
memory size, both values of `Overrun`, any bound of the clock); `LifecycleProofs`
assumes nothing, also not of its bounds on interrupts and crashes; `StoreProofs` assumes
`StoreAssumption` and `CapacityAssumption` (any number of processes, any bound of
work and priority, any first capacity of the vector but zero); `BuddyProofs` assumes
`SizesAssumption` (any number of processes, any memory that is a power of two, as 1024 is, and
requests that rounding up does not make overflow an `int`). A further hypothesis
is part of the theorem and named in the last column. Proved are all invariants and
action properties that the passing runs check, and the refinements of `JobService`,
`ReadyQueue` and `Memory`.

| Theorem | States: `Spec =>` | Hypothesis |
|---|---|---|
| *`KernalyzeProofs`* | | |
| `TypeCorrect` | `[]TypeOK` | |
| `RendezvousHolds` | `[]Rendezvous` | |
| `InvInductive` | `[]Inv`, the inductive invariant | |
| `OneProcessRunsHolds` | `[]OneProcessRuns` | |
| `TerminationIsExpectedHolds` | `[]TerminationIsExpected` | |
| `AllocatorExclusionHolds` | `[]AllocatorExclusion` | |
| `ServiceImplemented` | `ImplementsService`, that is `Service!Spec` | |
| *`AdmissionProofs`* | | |
| `MemoryOwnershipHolds` | `[]MemoryOwnership` | |
| `NoneFitsHolds` | `[]NoneFits` | |
| `ExitsLastHolds` | `[]ExitsLast` | |
| `NothingLostOrDuplicatedHolds` | `[]NothingLostOrDuplicated` | |
| `EndsWhenAllDoneHolds` | `[]EndsWhenAllDone` | |
| *`QueueProofs`* | | |
| `ReadyQueueExactHolds` | `[]ReadyQueueExact` | |
| `PolicyObeyedHolds` | `[]PolicyObeyed` | `IdsFitKey` |
| `ChoiceObeysPolicyHolds` | `ChoiceObeysPolicy` | `IdsFitKey` |
| `ReadyQueueImplemented` | `Queue!Spec` | |
| `AllocatorUsed` | `MemorySpec /\ [][AllocatorCall]_held` | |
| *`TimeProofs`* | | |
| `WorkAccountingHolds` | `[]WorkAccounting` | |
| `TimesAgreeHolds` | `[]TimesAgree` | `Overrun = FALSE` |
| `NoMissedArrivalHolds` | `[]NoMissedArrival` | `Overrun = FALSE`, `SortedFiles` |
| *`LifecycleProofs`* | | |
| `CleanupOnceHolds` | `[]CleanupOnce` | |
| `NoOrphanHolds` | `[]NoOrphan` | |
| `CleanEndHolds` | `[]CleanEnd` | |
| `FirstTickIsZeroHolds` | `[]FirstTickIsZero` | |
| *`StoreProofs`* | | |
| `HeapExtractHolds` | of `heap_extract_min`, not of a `Spec`: it takes a cell of least priority and leaves the others a heap | |
| `StoreInvariant` | `[]StoreInv`, the inductive invariant | |
| `QueueIsWhole` | `[]QueueWhole` | |
| `PcbsAreTracked` | `[]PcbsTracked` | |
| `SegmentsAreRemoved` | `[]SegmentsRemoved` | |
| `QueueIsOrdered` | `ImplementsReadyQueue` | `IdsFitKey` |
| *`BuddyProofs`* | | |
| `TreeIsWhole` | `[]TreeWhole` | |
| `ProbeIsTruthful` | `ProbeTruthful` | |
| `TreeImplementsMemory` | `ImplementsMemory`, that is `MemorySpec` of what the processes hold | |

The hypotheses are what the code relies on, and each is needed; TLC finds each property
violated without it:

- `IdsFitKey`: ids are below 10000. `scheduler.c:384` makes the heap key
  `first * 10000 + id`; from 10000 on an id outweighs a unit of remaining time or of
  priority, and the wrong process goes first. Nothing checks this when the file is
  read. The order of the queue by that key needs no such hypothesis in the simulation,
  where equal keys go in the order of insertion; a heap does not keep that order, so
  `QueueIsOrdered` says it of processes below 10000, whose keys all differ. Keys are unbounded
  integers here: the key of an `int` overflows from a remaining time of 214748 on, which
  no theorem is about.
- `Overrun = FALSE`: a tick finds everybody at rest (see "Timely and overrun"). Finding 4
  is what happens otherwise; the waiting times are then off by the ticks in between.
  `WorkAccounting` and the order of the queue do not need it.
- `SortedFiles`: entries come in order of arrival, as the test generator writes them.
  `process_generator.c:349` compares the clock with the next entry only.

### The simulation

The inductive invariant `Inv` has four parts, proved in this order, each step
lemma using the parts before it:

1. `TypeInv` = `TypeOK` and `LoopsWellPlaced`: where the loops hold a process, and
   that the `for` loop over `waitList` never runs past its end. Without the latter
   `Head(waitList)` in `Scan` has no type.
2. `RendezvousInv` = `Rendezvous` and `LastRound`: once the last mark is sent nothing
   waits and nothing is admitted, so the rounds the generator still makes on ticks are empty.
3. `OnTheWay`: an entry before its PCB is in one place - not arrived, waiting, being
   admitted, or in one message. Needed to know that a received message is never
   about the current process, whose remaining-time word it would overwrite.
4. `OnTheProcessor`: the current process has work left unless the scheduler is
   waiting for its exit; only then can it be a zombie, and nobody else ever is; with
   `OneProcessRuns` and `TerminationIsExpected`. These hold each other up: a child
   exits only when unstopped, so it is current; its word is zero, so the scheduler
   waits; so it is reaped and its message sent exactly once.

`AllocatorExclusion` follows from 2 and 4: a zombie means that the scheduler waits
for an exit, then its request is not open, then the generator is not in a round
that admits anybody. The refinement adds `ServiceInv` to `Inv`: RUNNING is the state
of the current process only, no word is negative, and a process whose exit is
awaited is owed nothing. Each step of the scheduler is then one step of `JobService`
(`BeginTick` is `Serve`, `SwitchProcess`, `KeepProcess` and `Dispatch` are `Start`,
`ExpireQuantum` is `Preempt`, `ReceiveProcess` is `Admit`, `handleProcessExit` is
`Finish`) or a stutter, and every other step is a stutter.

The other modules build on `Inv`, each with inductive invariants of its own:

- `MemoryInv`: blocks do not overlap, only a child between its allocation and its
  reaping has one, and it is large enough. That is not inductive: the allocation
  needs `Promised`, that the answer of `canAllocate` is still true when
  `allocateMemory` is called, and it is, since nothing is allocated in between.
  `NoneFits` needs `Scanned`, that what the scan has put back still does not fit;
  a free in between would break it, and none comes because nobody exits in a round
  (parts 2 and 4 of `Inv`).
- `AdmissionInv`: `Somewhere`, that an entry past `processIndex` is waiting, being
  admitted, in a message or in a PCB, and `AdmittedOnce`, that one being admitted is
  in no other of these places. `OnTheWay` adds that it is there once.
- `DoneInv`: a `FINISHED` process is reaped with nothing left to run, a `READY` one
  is in the queue (`ReadyKept`). The step into `done` uses all of these: with the
  last mark received and queue and current process empty, an entry has a PCB
  (`AdmissionInv`), which is neither `READY` nor `RUNNING`, hence `FINISHED`, hence
  reaped, hence without a block (`MemoryInv`).
- `QueueInv`: only `READY` processes are queued, none twice, in order of key. The
  key of a queued process must not change, and does not: the only words written are
  that of the current process, which is not `READY` when it is served, and that of a
  process received, which has no PCB before (`OnTheWay`). With `ReadyKept` it
  is `ReadyQueueExact`. It also says that `schedule` skips nothing: what it takes is the first.
- `PolicyInv`: `HPFKeeps`, that HPF never gets to `switch`; `QuantumCounts`, what is
  left of the quantum at each point of the loop; `ShortestChosen`, what SRTN has decided
  stays right until the next decision, although the current process is served
  and newcomers are queued in between, because a decision is made behind both.
- `QuantaInv`: `QuantaCounted`, that the service of a waiting process, and that of the
  current one with what is left of its quantum, is a multiple of the quantum, wherever in
  the loop; `RunningIsLast`, that a process whose quantum is over is at the end of the
  ring, so that it goes on only if the ring has nobody else.
- `AccountInv`: `totalTime - idleTime` is the number of pairs process and
  tick of service, plus one for the tick the scheduler is in, wherever in the loop it is.
- `TimelyInv`, for `Overrun = FALSE`: what a second is enough for. A tick finds the
  disposition of the handler restored, the last tick served, the current process
  parked at its own SIGSTOP or past it; the rounds that the generator still has to
  make are as many as the scheduler's requests to come (`RoundsPaired`), so the clock values
  the two have read never part by more than the tick under way (`ClockInv`).
- `TimesInv`: the waiting time in the PCB of the current process is what
  `resumeProcess` would compute now, less the ticks counted but not yet taken from
  the semaphore. That makes up for a clock read by the handler before the loop has
  lowered the word, and is why turnaround = waiting + running at the end.
- `NextNotLate`: the arrival time of the next entry is not before the generator's clock, and
  beyond it once a round has passed the entry by. It needs that every tick gives
  a round, hence `RoundsPaired`, and breaks when the scheduler hangs.

Two theorems tie the composition to the models of its data. `ReadyQueueImplemented` is a refinement: the queue with its keys is that of `ReadyQueue`, the item taken
out is the current process, and none while `spc = "switch"`, between the push of
an expired process (`PutBack`) and the choice of the next (`Take`). `PushInserts`
shows that `pushToReadyQueue` puts a process at the one place the abstract queue
allows. `AllocatorUsed` says that every step is a call `MemorySpec` allows, and, in
`AllocatorCall`, that each allocation is for one without a block and succeeds; the
cleanup after the scheduler's end destroys the tree. That
ring and heap keep these promises is proved of `ReadyStore`, and that the tree does
of `BuddyTree`, next.

### The data of the scheduler

An operation of `ReadyStore` is one step, with loops inside: following links, sifting
in the heap, doubling the vector. A loop is `Iterate` of `Loops`, a function on
the rounds. That such a loop has a run, and that what one round hands on to the next
holds at its end, is proved in `LoopProofs` from the least counterexample
(`LeastNumber`, `RunExists`, `RunStays`, `LoopRuns`); the proofs about a loop give
the set `T[k]` of what is possible after `k` rounds.

The first half of `StoreProofs` says of each structure what it holds, and what each call does to that:

- `Linked`: the addresses of a chain in order, all different, each node pointing at the
  next. `ListHolds` and `RingHolds` are the list of PCBs and the ring with its front, rear and
  size; each call moves, adds or removes one address of the chain, and reaches the end of it.
- `HeapHolds`: which cells are in the slots, none twice, and that no cell is less than its
  parent. `Rising` and `Sinking` are the loop invariants of the two sifts: the
  order holds but at one place, whose parent and children are in order with each other.
  Without the last conjunct a swap could break the order one level below.

`StoreInv` says that the four pieces of data agree: the table leads to exactly the PCBs,
the queue holds the `READY` ones but the current process, once each, and the
remaining-time segments are those of processes with a PCB. Parts of it are no induction: that
`handleProcessExit` frees nothing the queue points at needs that the current
process is not in the queue, which needs that no process is queued twice.

For `QueueIsOrdered` the entries of the abstract queue are a function of the structure:
for the ring the order of the chain, for the heap the cells sorted by key. `InLine` says
that `e` is such an order, `EntriesAre` that it is the one the refinement mapping
gives (unique, since keys differ). An insertion is then `PutIn` at the `Place` of
its key, an extraction takes off the first, and each action of the scheduler is one
of `Add`, `PutBackAndTake`, `Take`, `Leave`, `Clear`, or a stutter.

### The tree of the allocator

`TreeIInv` is inductive: as long as there is a tree, it is a `WholeTree`, that is

- `Shape`: ranges are powers of two in size and lie at multiples of it, a block is a leaf or
  split into two halves that know it (`Divided`), and two blocks are apart or one is in a half of
  the other (`Nested`). Without the last, a merge could take away a block whose
  descendants stay behind.
- `NoneTwoFree`: no block has two free halves.
- `OneEach`: a process holds one block or none, and nobody else holds any.

`NoneTwoFree` does not hold inside a call. Between the calls of
`freeMemoryHelper` it is `Climbing`: two free halves of one block are the block it
stands at and the sibling. Each merge doubles that block, so the climb ends
(`ClimbEnds`). The same is true between the splits of a descent, and `Descending` adds
that the climb from there would lead back to the tree the descent began with. This
is why `canAllocate` leaves no trace: marking and unmarking the leaf that is found
cancel, and the climb undoes the splits one by one. For the search `Line` says that the blocks still to
be visited are side by side up to the end of the memory; no block that would do starts before
the first of them, and each call makes the set of blocks passed (`Before`) larger, so
`allocateHelper` ends with the lowest block that is large enough or has seen them all.

That the tree implements `Memory` needs that free memory is free in one piece
(`FreeIsWhole`): a range of the right size and place that nobody holds is inside one free
leaf. Take the smallest block the range is in. If it is a leaf it is free. Otherwise
the range is not in a half of it, so it is all of it; of the blocks in it that are split the
smallest has two leaves, both free, against `NoneTwoFree`.

### Startup and shutdown

`LifecycleInv` is inductive for any number of interrupts and crashes:

- `StackInv`: `main` is at the bottom, handler and cleanup at most once each above it,
  and `pgCleared` is set exactly when the cleanup is on the stack. The lemmas
  `GotoStep`, `CallClearStep`, `EnterStep` and `LeaveStep` say what each kind of step does to
  the stack, so that no other proof looks into it.
- `LineInv`, `LifeInv`, `StartInv`, `TickInv`: which lines a function can be at, how far
  the others are when `main` is at a line, and that a tick has come only when all were
  in their loops.
- `CheckInv`, `KnownInv`: each of the two children is in the variable that holds its
  pid, or not yet assigned to it, or already dealt with by a handler.
- `SealInv`: the cleanup is past a process only when that process is told to end, has
  ended, or is the `Forgotten` clock. `NoOrphan` is this at the end of the cleanup.
- `SweepInv`: what the cleanup has removed is not created again. It is what `CleanEnd` needs
  beside the scheduler's and the clock's own cleanups.

### Only model-checked

- Liveness: `Completion`, `GeneratorFollows`, `EveryoneEnds`. The prover does not reason about
  fairness.

## 6. What is not modelled

- The order in which the parts are tied: `Kernalyze` starts where `Lifecycle` reaches
  the loops, and `Lifecycle` knows of the simulation only that a child exists, is
  stopped and continued. An interrupt that comes with allocator or queue in the
  middle of a change frees them as they are; that `free` is not async-signal-safe
  inside `malloc` is outside both.
- Failing calls after the loops are reached, other than those that an earlier cleanup
  makes fail; of those before, a failing `getSemaphore` in `initScheduler`
  (`scheduler.c:60`) and the `shmctl(0, ...)` of a clock interrupted before it has its
  segment (`clk.c:27`); failing `malloc` and `realloc`; reuse of process numbers.
- The overflow of keys, and the segments that a scheduler killed in its cleanup leaves
  behind (`scheduler.c:397`).
- `comparePCB` (`defs.h:62`) returns a 64-bit difference of pointers as an `int`; the models
  compare for equality, so two PCBs a multiple of 4 GiB apart are not told from each
  other in the program and are in the model.
- What becomes of `currentProcess` when `schedule` finds nothing right after a push
  (`scheduler.c:133`): `ReadyStore` sets it to NULL where the code and `Scheduler` keep
  it. `QueueInv` and `StoreInv` show that this does not happen.
- A full message queue (`msgsnd` blocks; interrupted, it is taken for an error).
- Entries larger than the memory, which wait for ever, or of size 0, on which
  `allocateHelper` does not end; ids of 10000 and more in TLC's files (heap key) or equal modulo 256
  (`ftok`); a file not sorted by arrival, or with blank or malformed lines, which
  are counted (`process_generator.c:182`) and not parsed.
- Functions nothing calls: `peek`, `shiftQueue`, `vector_pop`, `vector_insert`,
  `vector_remove`, `findInList`, `destroyClk`.
- Log files, console output, floating point averages, the test generator: they only
  write, and no decision reads what they write.

## 7. Plan

1. A bounded message queue with the EINTR of a blocked `msgsnd`.
2. Process numbers as values of their own, with reuse, and ids that collide in `ftok`.
3. Files in any order and entries that never fit, with a `Completion` that says what
   they cost.
