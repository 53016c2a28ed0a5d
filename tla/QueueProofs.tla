----------------------------- MODULE QueueProofs -----------------------------
(***************************************************************************)
(* Proofs about the ready queue and the policies: the queue holds just the *)
(* READY processes, once each and in order, and what runs is what the      *)
(* policy says, for every file, quantum and interleaving.  And proofs that *)
(* the composition uses its queue and its allocator as ReadyQueue and      *)
(* Memory describe them, the specifications that ReadyStore and the tree   *)
(* of BuddyTree implement.                                                 *)
(***************************************************************************)
EXTENDS AdmissionProofs, LoopProofs

(* HeapKey multiplies by 10000 and adds the id: it orders by its first     *)
(* part only while ids are smaller than that.                              *)
IdsFitKey == \A w \in Workloads : \A p \in DOMAIN w : w[p].id < 10000

Key(p) == HeapKey(p, remainingTime[p])

LEMMA KeyIsInt ==
    ASSUME Inv, NEW p \in Entries, NEW r \in Int
    PROVE  HeapKey(p, r) \in Int
  <1>1. processesArray[p].id \in Int /\ processesArray[p].priority \in Int
    BY WorkloadFacts DEF ProcessData, Inv, TypeInv, TypeOK, KernelTypeOK
  <1> QED
    BY <1>1 DEF HeapKey

(* Where pushToReadyQueue puts a process.                                  *)
LEMMA PushShape ==
    ASSUME readyQueue \in Seq(Entries), NEW p \in Entries, NEW r, pushToReadyQueue(p, r)
    PROVE  \E i \in 0..Len(readyQueue) :
             /\ DOMAIN readyQueue' = 1..(Len(readyQueue) + 1)
             /\ \A k \in DOMAIN readyQueue' :
                  readyQueue'[k] = IF k <= i THEN readyQueue[k]
                                   ELSE IF k = i + 1 THEN p ELSE readyQueue[k - 1]
             /\ \A j \in 1..Len(readyQueue) : j > i <=> Precedes(p, r, readyQueue[j])
  <1>1. PICK i \in 0..Len(readyQueue) :
          /\ \A j \in 1..Len(readyQueue) : j > i <=> Precedes(p, r, readyQueue[j])
          /\ readyQueue' = SubSeq(readyQueue, 1, i) \o <<p>>
                             \o SubSeq(readyQueue, i + 1, Len(readyQueue))
    BY DEF pushToReadyQueue
  <1>2. /\ DOMAIN readyQueue' = 1..(Len(readyQueue) + 1)
        /\ \A k \in DOMAIN readyQueue' :
             readyQueue'[k] = IF k <= i THEN readyQueue[k]
                              ELSE IF k = i + 1 THEN p ELSE readyQueue[k - 1]
    <2>1. readyQueue' = PutIn(readyQueue, i, p)
      BY <1>1 DEF PutIn
    <2>2. readyQueue \in Seq(Entries) /\ p \in Entries /\ i \in 0..Len(readyQueue)
      BY <1>1
    <2>3. /\ PutIn(readyQueue, i, p) \in Seq(Entries)
          /\ DOMAIN PutIn(readyQueue, i, p) = 1..(Len(readyQueue) + 1)
          /\ \A k \in DOMAIN PutIn(readyQueue, i, p) :
               PutIn(readyQueue, i, p)[k] = IF k <= i THEN readyQueue[k]
                                            ELSE IF k = i + 1 THEN p ELSE readyQueue[k - 1]
      BY <2>2, InsertedShape
    <2> QED
      BY <2>1, <2>3, Zenon
  <1> QED
    BY <1>1, <1>2

LEMMA AfterShape ==
    ASSUME readyQueue \in Seq(Entries), NEW i \in DOMAIN readyQueue
    PROVE  /\ DOMAIN AfterEntry(i) = 1..(Len(readyQueue) - i)
           /\ \A k \in DOMAIN AfterEntry(i) :
                i + k \in DOMAIN readyQueue /\ AfterEntry(i)[k] = readyQueue[i + k]
  <1>1. /\ Len(readyQueue) \in Nat /\ i \in 1..Len(readyQueue)
        /\ DOMAIN readyQueue = 1..Len(readyQueue)
    OBVIOUS
  <1>2. /\ Len(AfterEntry(i)) = Len(readyQueue) - i
        /\ AfterEntry(i) \in Seq(Entries)
        /\ \A k \in 1..(Len(readyQueue) - i) : AfterEntry(i)[k] = readyQueue[i + k]
    BY DEF AfterEntry
  <1> QED
    BY <1>1, <1>2

-----------------------------------------------------------------------------
(* The inductive invariant of the queue.                                   *)

OnlyReady == \A i \in DOMAIN readyQueue : pcbState[readyQueue[i]] = "READY"

NoRepetition == \A i, j \in DOMAIN readyQueue : readyQueue[i] = readyQueue[j] => i = j

KeyOrder ==
    schedulerType # RR =>
        \A i, j \in DOMAIN readyQueue : i < j => Key(readyQueue[i]) <= Key(readyQueue[j])

QueueInv == OnlyReady /\ NoRepetition /\ KeyOrder

LEMMA QueueInvInit == Init => QueueInv
  BY DEF Init, SchedulerInit, QueueInv, OnlyReady, NoRepetition, KeyOrder

(* A process that is not queued is pushed.                                 *)
LEMMA QueueInvPush ==
    ASSUME Inv, QueueInv, NEW p \in Entries, NEW r \in Int, pushToReadyQueue(p, r),
           pcbState[p] # "READY", UNCHANGED argVars,
           remainingTime' = [remainingTime EXCEPT ![p] = r]
    PROVE  QueueInv'
  <1>1. PICK i \in 0..Len(readyQueue) :
             /\ DOMAIN readyQueue' = 1..(Len(readyQueue) + 1)
             /\ \A k \in DOMAIN readyQueue' :
                  readyQueue'[k] = IF k <= i THEN readyQueue[k]
                                   ELSE IF k = i + 1 THEN p ELSE readyQueue[k - 1]
             /\ \A j \in 1..Len(readyQueue) : j > i <=> Precedes(p, r, readyQueue[j])
    BY PushShape, EndContext
  <1>2. \A k \in DOMAIN readyQueue :
          readyQueue[k] \in Entries /\ readyQueue[k] \in Procs /\ readyQueue[k] # p
    BY EndContext DEF QueueInv, OnlyReady
  (* Where an entry of the new queue was.                                  *)
  <1> DEFINE Old(k) == IF k <= i THEN k ELSE k - 1
  <1>3. \A k \in DOMAIN readyQueue' :
          /\ k \in Int
          /\ k # i + 1 => Old(k) \in DOMAIN readyQueue /\ readyQueue'[k] = readyQueue[Old(k)]
          /\ k = i + 1 => readyQueue'[k] = p
    BY <1>1, EndContext
  <1>4. pcbState' = [pcbState EXCEPT ![p] = "READY"]
    BY DEF pushToReadyQueue
  <1>5. p \in Procs
    BY EndContext
  <1>6. OnlyReady'
    BY <1>2, <1>3, <1>4, <1>5, EndContext DEF QueueInv, OnlyReady
  <1>7. NoRepetition'
    <2>1. \A k, l \in DOMAIN readyQueue' :
            k # i + 1 /\ l # i + 1 /\ Old(k) = Old(l) => k = l
      BY <1>3
    <2> QED
      BY <1>2, <1>3, <2>1 DEF QueueInv, NoRepetition
  <1>8. KeyOrder'
    <2> SUFFICES ASSUME schedulerType # RR,
                        NEW k \in DOMAIN readyQueue', NEW l \in DOMAIN readyQueue', k < l
                 PROVE  Key(readyQueue[k])' <= Key(readyQueue[l])'
      BY DEF KeyOrder, argVars
    <2>1. \A q \in Procs : q # p => Key(q)' = Key(q)
      BY EndContext DEF Key, HeapKey, argVars
    <2>2. Key(p)' = HeapKey(p, r)
      BY <1>5, EndContext DEF Key, HeapKey, argVars
    <2>3. HeapKey(p, r) \in Int /\ \A j \in DOMAIN readyQueue : Key(readyQueue[j]) \in Int
      BY <1>2, KeyIsInt, EndContext DEF Key
    <2>4. ASSUME NEW j \in DOMAIN readyQueue
          PROVE  /\ j > i => HeapKey(p, r) < Key(readyQueue[j])
                 /\ ~(j > i) => Key(readyQueue[j]) <= HeapKey(p, r)
      <3>1. j > i <=> HeapKey(p, r) < Key(readyQueue[j])
        <4>1. j \in 1..Len(readyQueue)
          BY EndContext
        <4>2. j > i <=> Precedes(p, r, readyQueue[j])
          BY <1>1, <4>1
        <4> QED
          BY <4>2 DEF Precedes, Key
      <3> QED
        BY <2>3, <3>1
    <2>5. CASE k = i + 1
      <3>1. Old(l) \in DOMAIN readyQueue /\ Old(l) > i /\ readyQueue'[l] = readyQueue[Old(l)]
        BY <1>3, <2>5
      <3> QED
        BY <1>2, <1>3, <2>1, <2>2, <2>3, <2>4, <2>5, <3>1
    <2>6. CASE l = i + 1
      <3>1. Old(k) \in DOMAIN readyQueue /\ ~(Old(k) > i) /\ readyQueue'[k] = readyQueue[Old(k)]
        BY <1>3, <2>6
      <3> QED
        BY <1>2, <1>3, <2>1, <2>2, <2>4, <2>6, <3>1
    <2>7. CASE k # i + 1 /\ l # i + 1
      <3>1. Old(k) < Old(l)
        BY <1>3, <2>7
      <3>2. Key(readyQueue[Old(k)]) <= Key(readyQueue[Old(l)])
        BY <1>3, <2>7, <3>1 DEF QueueInv, KeyOrder
      <3> QED
        BY <1>2, <1>3, <2>1, <2>7, <3>2
    <2> QED
      BY <2>5, <2>6, <2>7
  <1> QED
    BY <1>6, <1>7, <1>8 DEF QueueInv

(* What schedule() hands out is the first of the queue.                    *)
LEMMA FirstIsFirst ==
    ASSUME QueueInv, readyQueue \in Seq(Entries), NEW i \in DOMAIN readyQueue, FirstReady(i)
    PROVE  i = 1
  <1>1. i > 1 => 1 \in 1..(i - 1) /\ 1 \in DOMAIN readyQueue
    OBVIOUS
  <1> QED
    BY <1>1 DEF FirstReady, QueueInv, OnlyReady

(* It is taken out.                                                        *)
LEMMA QueueInvTake ==
    ASSUME Inv, QueueInv, NEW i \in DOMAIN readyQueue, readyQueue' = AfterEntry(i),
           UNCHANGED argVars, remainingTime' = remainingTime,
           \A p \in Procs : pcbState[p] = "READY" /\ p # readyQueue[i] => pcbState'[p] = "READY"
    PROVE  QueueInv'
  <1>1. \A k \in DOMAIN readyQueue' :
          /\ k \in Int /\ i + k \in DOMAIN readyQueue /\ i + k # i
          /\ readyQueue'[k] = readyQueue[i + k]
    BY AfterShape, EndContext
  <1>2. i \in Int
    BY EndContext
  <1>3. OnlyReady'
    BY <1>1, EndContext DEF QueueInv, OnlyReady, NoRepetition
  <1>4. NoRepetition'
    <2>1. \A k, l \in DOMAIN readyQueue' : i + k = i + l => k = l
      BY <1>1, <1>2
    <2> QED
      BY <1>1, <2>1 DEF QueueInv, NoRepetition
  <1>5. KeyOrder'
    <2>1. \A k, l \in DOMAIN readyQueue' : k < l => i + k < i + l
      BY <1>1, <1>2
    <2>2. \A p : Key(p)' = Key(p)
      BY DEF Key, HeapKey, argVars
    <2> QED
      BY <1>1, <2>1, <2>2 DEF QueueInv, KeyOrder, argVars
  <1> QED
    BY <1>3, <1>4, <1>5 DEF QueueInv

LEMMA QueueInvScheduler ==
    ASSUME Inv, ServiceInv, QueueInv, UNCHANGED argVars, SchedulerRun
    PROVE  QueueInv'
  <1> USE DEF SchedulerRun
  <1>1. ASSUME UNCHANGED <<readyQueue, pcbState, remainingTime>> PROVE QueueInv'
    BY <1>1 DEF QueueInv, OnlyReady, NoRepetition, KeyOrder, Key, HeapKey, argVars
  <1>2. CASE BeginTick /\ currentProcess # NULL
    <2>1. /\ spc = "top" /\ UNCHANGED <<readyQueue, pcbState>>
          /\ remainingTime' = [remainingTime EXCEPT ![currentProcess] = @ - 1]
      BY <1>2 DEF BeginTick, At, pcbVars
    <2>2. \A i \in DOMAIN readyQueue :
            readyQueue[i] # currentProcess /\ readyQueue[i] \in Procs
      BY <1>2, <2>1, EndContext DEF QueueInv, OnlyReady, ServiceInv
    <2>3. \A q \in Procs : q # currentProcess => Key(q)' = Key(q)
      BY <2>1, EndContext DEF Key, HeapKey, argVars
    <2> QED
      BY <2>1, <2>2, <2>3 DEF QueueInv, OnlyReady, NoRepetition, KeyOrder, argVars
  <1>3. CASE ReceiveProcess
    <2>1. PICK q : /\ q = Head(pcbQueue) /\ q \notin Marks /\ pcbQueue # <<>>
                   /\ pushToReadyQueue(q, Work(q))
                   /\ remainingTime' = [remainingTime EXCEPT ![q] = Work(q)]
      BY <1>3 DEF ReceiveProcess
    <2>2. q \in Entries /\ 1 \in DOMAIN pcbQueue /\ q = pcbQueue[1]
      BY <2>1, EndContext
    <2>3. pcbState[q] = "none"
      BY <2>1, <2>2 DEF Inv, OnTheWay, MessagesFresh
    <2>4. Work(q) \in Int
      BY <2>2, WorkloadFacts DEF Work, ProcessData, Inv, TypeInv, TypeOK, KernelTypeOK
    <2> QED
      BY <2>1, <2>2, <2>3, <2>4, QueueInvPush
  <1>4. CASE ExpireQuantum
    <2>1. CASE UNCHANGED <<readyQueue, pcbState>>
      BY <1>1, <1>4, <2>1 DEF ExpireQuantum
    <2>2. CASE /\ currentProcess # NULL
               /\ pushToReadyQueue(currentProcess, remainingTime[currentProcess])
      <3>1. spc = "quantum" /\ remainingTime' = remainingTime
        BY <1>4 DEF ExpireQuantum, At
      <3>2. currentProcess \in Entries /\ currentProcess \in Procs
        BY <2>2, EndContext
      <3>3. pcbState[currentProcess] # "READY"
        BY <2>2, <3>1 DEF ServiceInv
      <3>4. remainingTime' = [remainingTime EXCEPT ![currentProcess]
                                                     = remainingTime[currentProcess]]
        BY <3>1, <3>2, EndContext
      <3>5. remainingTime[currentProcess] \in Int
        BY <3>2, EndContext
      <3> QED
        BY <2>2, <3>2, <3>3, <3>4, <3>5, QueueInvPush
    <2> QED
      BY <1>4, <2>1, <2>2 DEF ExpireQuantum
  <1>5. CASE SwitchProcess
    <2>1. PICK i \in DOMAIN readyQueue :
            /\ readyQueue' = AfterEntry(i) /\ remainingTime' = remainingTime
            /\ pcbState' = [pcbState EXCEPT ![currentProcess] = "READY",
                                            ![readyQueue[i]] = "RUNNING"]
      BY <1>5 DEF SwitchProcess
    <2>2. \A p \in Procs : pcbState[p] = "READY" /\ p # readyQueue[i] => pcbState'[p] = "READY"
      BY <2>1, EndContext
    <2> QED
      BY <2>1, <2>2, QueueInvTake
  <1>6. CASE KeepProcess
    <2>1. CASE readyQueue' = <<>>
      BY <2>1 DEF QueueInv, OnlyReady, NoRepetition, KeyOrder
    <2>2. ASSUME NEW i \in DOMAIN readyQueue, readyQueue[i] = currentProcess,
                 readyQueue' = AfterEntry(i)
          PROVE  QueueInv'
      <3>1. /\ remainingTime' = remainingTime
            /\ pcbState' = [pcbState EXCEPT ![currentProcess] = "RUNNING"]
        BY <1>6 DEF KeepProcess
      <3>2. \A p \in Procs : pcbState[p] = "READY" /\ p # readyQueue[i] => pcbState'[p] = "READY"
        BY <2>2, <3>1, EndContext
      <3> QED
        BY <2>2, <3>1, <3>2, QueueInvTake
    <2> QED
      BY <1>6, <2>1, <2>2 DEF KeepProcess
  <1>7. CASE Dispatch
    <2>1. PICK i \in DOMAIN readyQueue :
            /\ readyQueue' = AfterEntry(i) /\ remainingTime' = remainingTime
            /\ pcbState' = [pcbState EXCEPT ![readyQueue[i]] = "RUNNING"]
      BY <1>7 DEF Dispatch
    <2>2. \A p \in Procs : pcbState[p] = "READY" /\ p # readyQueue[i] => pcbState'[p] = "READY"
      BY <2>1, EndContext
    <2> QED
      BY <2>1, <2>2, QueueInvTake
  <1>8. CASE handleProcessExit
    <2>1. /\ Finishing /\ currentProcess # NULL
          /\ UNCHANGED <<readyQueue, remainingTime>>
          /\ pcbState' = [pcbState EXCEPT ![currentProcess] = "FINISHED"]
      BY <1>8 DEF handleProcessExit, Finishing, At, Inv, TypeInv, LoopsWellPlaced
    <2>2. \A i \in DOMAIN readyQueue : readyQueue[i] # currentProcess
      BY <2>1 DEF QueueInv, OnlyReady, ServiceInv, Finishing
    <2>3. OnlyReady'
      BY <2>1, <2>2, EndContext DEF QueueInv, OnlyReady
    <2> QED
      BY <2>1, <2>3 DEF QueueInv, NoRepetition, KeyOrder, Key, HeapKey, argVars
  <1>9. CASE EndIdleTick
    BY <1>9 DEF EndIdleTick, QueueInv, OnlyReady, NoRepetition, KeyOrder
  <1>10. CASE \/ BeginTick /\ currentProcess = NULL
              \/ fetchProcessFromQueue \/ ReceiveMark \/ EndBusyTick
    BY <1>1, <1>10 DEF BeginTick, fetchProcessFromQueue, ReceiveMark, EndBusyTick, pcbVars
  <1> QED
    BY <1>2, <1>3, <1>4, <1>5, <1>6, <1>7, <1>8, <1>9, <1>10 DEF runScheduler

(* Nobody but the scheduler's loop touches what the queue is about.        *)
LEMMA SchedulerOnly ==
    ASSUME [Next]_vars, ~SchedulerRun
    PROVE  /\ UNCHANGED <<spc, currentProcess, readyQueue, pcbVars, remainingQuantum,
                          noMoreProcesses, counterVars, remainingTime>>
  <1>1. remainingTime' = remainingTime
    BY DEF Next, vars, Tick, IncrementClk, Signal, SignalGroup, outsideClk, ProcessRun,
           ProcessStep, InheritedClkHandler, IgnoreClk, Park, Exec, Terminate,
           SchedulerSignal, schedulerClkHandler, EnterClkHandler, ReinstallClkHandler,
           KilledByTick, GeneratorSignal, pgClkHandler, checkChildProcess, EnterCheckChild,
           ReapProcess, ReapScheduler, LeaveCheckChild, GeneratorRun, runProcessGenerator,
           DownTick, DownScheduler, Arrive, NoArrival, Scan, forkProcess, Allocate,
           SendProcess, EndScan, EndRound, WaitScheduler, outsideGenerator, procVars
  <1> QED
    BY <1>1
       DEF Next, vars, Tick, IncrementClk, Signal, SignalGroup, outsideClk, ProcessRun,
           SchedulerSignal, schedulerClkHandler, EnterClkHandler, ReinstallClkHandler,
           KilledByTick, GeneratorSignal, GeneratorRun, schedulerVars

LEMMA QueueInvHolds == Spec => []QueueInv
  <1>1. Init => QueueInv
    BY QueueInvInit
  <1>2. ASSUME Inv, ServiceInv, QueueInv, [Next]_vars PROVE QueueInv'
    <2>1. UNCHANGED argVars
      BY <1>2, ArgumentsFixed
    <2>2. CASE ~SchedulerRun
      <3>1. UNCHANGED <<readyQueue, pcbState, remainingTime>>
        BY <1>2, <2>2, SchedulerOnly DEF pcbVars
      <3> QED
        BY <1>2, <2>1, <3>1
           DEF QueueInv, OnlyReady, NoRepetition, KeyOrder, Key, HeapKey, argVars
    <2> QED
      BY <1>2, <2>1, <2>2, QueueInvScheduler
  <1> QED
    BY <1>1, <1>2, InvInductive, ServiceInvHolds, PTL DEF Spec

LEMMA ReadyKeptHolds == Spec => []ReadyKept
  <1>1. Init => ReadyKept
    BY EndInvInit
  <1>2. Inv /\ ServiceInv /\ ReadyKept /\ [Next]_vars => ReadyKept'
    BY ReadyKeptStep
  <1> QED
    BY <1>1, <1>2, InvInductive, ServiceInvHolds, PTL DEF Spec

(* Every READY process is in the ready queue exactly once, whatever else   *)
(* the queue has been through; only they are there; and heap or ring would *)
(* hand them out in the order of the policy.                               *)
THEOREM ReadyQueueExactHolds == Spec => []ReadyQueueExact
  <1>1. ASSUME Inv, ServiceInv, ReadyKept, QueueInv PROVE ReadyQueueExact
    <2>1. \A i \in DOMAIN readyQueue : readyQueue[i] \in Ready
      BY <1>1, EndContext DEF Ready, QueueInv, OnlyReady
    <2>2. ASSUME NEW p \in Ready PROVE Occurrences(readyQueue, p) = 1
      <3>1. In(readyQueue, p)
        BY <1>1 DEF Ready, ReadyKept
      <3>2. \A i, j \in DOMAIN readyQueue :
              readyQueue[i] = p /\ readyQueue[j] = p => i = j
        BY <1>1 DEF QueueInv, NoRepetition
      <3> QED
        BY <3>1, <3>2, OccursOnce
    <2>3. ASSUME schedulerType # RR, NEW i \in DOMAIN readyQueue,
                 NEW j \in DOMAIN readyQueue, i < j
          PROVE  ~Precedes(readyQueue[j], remainingTime[readyQueue[j]], readyQueue[i])
      <3>1. /\ Key(readyQueue[i]) <= Key(readyQueue[j])
            /\ readyQueue[i] \in Entries /\ readyQueue[j] \in Entries
        BY <1>1, <2>3, EndContext DEF QueueInv, KeyOrder
      <3>2. Key(readyQueue[i]) \in Int /\ Key(readyQueue[j]) \in Int
        BY <1>1, <3>1, KeyIsInt, EndContext DEF Key
      <3> QED
        BY <3>1, <3>2 DEF Precedes, Key
    <2> QED
      BY <1>1, <2>1, <2>2, <2>3 DEF ReadyQueueExact, ServiceInv
  <1> QED
    BY <1>1, InvInductive, ServiceInvHolds, ReadyKeptHolds, QueueInvHolds, PTL

-----------------------------------------------------------------------------
(* The policies.                                                           *)

(* rr has a positive quantum.                                              *)
QuantumGiven == schedulerType = RR => schedulerQuantum > 0

(* hpf never preempts.                                                     *)
HPFKeeps == schedulerType = HPF => spc # "switch"

(* A tick of service is a tick less of the quantum, and a process gets a   *)
(* new quantum before it goes on.                                          *)
QuantumCounts ==
    currentProcess # NULL =>
        /\ remainingQuantum <= schedulerQuantum
        /\ spc \in {"finish", "fetch", "receive", "quantum"} =>
             remainingQuantum <= schedulerQuantum - 1
        /\ schedulerType = RR /\ spc \in {"switch", "dispatch", "top"} => remainingQuantum > 0

(* What srtn has decided, if it can decide at each tick.                   *)
ShortestChosen ==
    schedulerType = SRTN /\ schedulerQuantum <= 1 /\ currentProcess # NULL
      /\ spc \in {"dispatch", "top"} =>
        \A p \in Ready : remainingTime[currentProcess] <= remainingTime[p]

PolicyInv ==
    QuantumGiven /\ HPFKeeps /\ QuantumCounts /\ WorkConserving /\ ShortestChosen

LEMMA PolicyInvInit == Init => PolicyInv
  BY DEF Init, KernelInit, ParseCommandLineArgs, SchedulerInit, PolicyInv, QuantumGiven,
         HPFKeeps, QuantumCounts, WorkConserving, ShortestChosen, Ready, RR, HPF

(* The first of the queue has the least key of all that are READY.         *)
LEMMA FirstIsLeast ==
    ASSUME Inv, QueueInv, ReadyKept, NEW i \in DOMAIN readyQueue, FirstReady(i),
           schedulerType # RR, NEW p \in Ready
    PROVE  Key(readyQueue[i]) <= Key(p)
  <1>1. i = 1
    BY FirstIsFirst, EndContext
  <1>2. PICK j \in DOMAIN readyQueue : readyQueue[j] = p
    BY DEF Ready, ReadyKept, In
  <1>3. j = 1 \/ 1 < j
    BY <1>2, EndContext
  <1>4. readyQueue[i] \in Entries /\ readyQueue[i] \in Procs
    BY EndContext
  <1>5. Key(readyQueue[i]) \in Int
    BY <1>4, KeyIsInt, EndContext DEF Key
  <1> QED
    BY <1>1, <1>2, <1>3, <1>5 DEF QueueInv, KeyOrder

LEMMA SmallIds ==
    ASSUME IdsFitKey, Inv, NEW p \in Entries
    PROVE  /\ processesArray[p].id \in Nat /\ processesArray[p].id < 10000
           /\ processesArray[p].priority \in Int
  <1>1. processesArray \in Workloads /\ p \in DOMAIN processesArray
    BY WorkloadsAssumption DEF Inv, TypeInv, TypeOK, KernelTypeOK, Entries, processCount
  <1>2. processesArray[p].id \in Nat /\ processesArray[p].priority \in Nat
    BY WorkloadFacts DEF ProcessData, Inv, TypeInv, TypeOK, KernelTypeOK
  <1>3. processesArray[p].id < 10000
    BY <1>1 DEF IdsFitKey
  <1> QED
    BY <1>2, <1>3

(* Keys compare remaining times first.                                     *)
LEMMA FirstIsShortest ==
    ASSUME IdsFitKey, Inv, QueueInv, ReadyKept, NEW i \in DOMAIN readyQueue, FirstReady(i),
           schedulerType = SRTN, NEW p \in Ready
    PROVE  remainingTime[readyQueue[i]] <= remainingTime[p]
  <1>1. readyQueue[i] \in Entries /\ readyQueue[i] \in Procs
    BY EndContext
  <1>2. p \in Entries /\ p \in Procs
    BY EndContext DEF Ready, ReadyKept, In
  <1>3. Key(readyQueue[i]) <= Key(p)
    BY FirstIsLeast DEF RR, SRTN
  <1>4. /\ processesArray[readyQueue[i]].id \in Nat /\ processesArray[readyQueue[i]].id < 10000
        /\ processesArray[p].id \in Nat /\ processesArray[p].id < 10000
    BY <1>1, <1>2, SmallIds
  <1>5. remainingTime[readyQueue[i]] \in Int /\ remainingTime[p] \in Int
    BY <1>1, <1>2, EndContext
  <1>6. /\ Key(readyQueue[i]) = remainingTime[readyQueue[i]] * 10000
                                  + processesArray[readyQueue[i]].id
        /\ Key(p) = remainingTime[p] * 10000 + processesArray[p].id
    BY DEF Key, HeapKey
  <1> QED
    BY <1>3, <1>4, <1>5, <1>6

(* Or priorities.                                                          *)
LEMMA FirstIsHighest ==
    ASSUME IdsFitKey, Inv, QueueInv, ReadyKept, NEW i \in DOMAIN readyQueue, FirstReady(i),
           schedulerType = HPF, NEW p \in Ready
    PROVE  processesArray[readyQueue[i]].priority <= processesArray[p].priority
  <1>1. readyQueue[i] \in Entries /\ readyQueue[i] \in Procs
    BY EndContext
  <1>2. p \in Entries /\ p \in Procs
    BY EndContext DEF Ready, ReadyKept, In
  <1>3. Key(readyQueue[i]) <= Key(p)
    BY FirstIsLeast DEF RR, HPF
  <1>4. /\ processesArray[readyQueue[i]].id \in Nat /\ processesArray[readyQueue[i]].id < 10000
        /\ processesArray[p].id \in Nat /\ processesArray[p].id < 10000
        /\ processesArray[readyQueue[i]].priority \in Int
        /\ processesArray[p].priority \in Int
    BY <1>1, <1>2, SmallIds
  <1>5. /\ Key(readyQueue[i]) = processesArray[readyQueue[i]].priority * 10000
                                  + processesArray[readyQueue[i]].id
        /\ Key(p) = processesArray[p].priority * 10000 + processesArray[p].id
    BY DEF Key, HeapKey, SRTN, HPF
  <1> QED
    BY <1>3, <1>4, <1>5

(* What schedule() takes out runs next: the others were READY before.      *)
LEMMA PolicyInvStart ==
    ASSUME IdsFitKey, Inv, QueueInv, ReadyKept, PolicyInv,
           NEW i \in DOMAIN readyQueue, FirstReady(i), currentProcess' = readyQueue[i],
           \A p \in Procs : pcbState'[p] = "READY" => pcbState[p] = "READY",
           UNCHANGED <<argVars, remainingTime>>,
           spc' \in {"finishresumed", "dispatch"},
           remainingQuantum' <= schedulerQuantum,
           schedulerType = RR => remainingQuantum' > 0
    PROVE  PolicyInv'
  <1>1. readyQueue[i] # NULL
    BY EndContext
  <1>2. QuantumGiven' /\ HPFKeeps' /\ WorkConserving'
    BY <1>1 DEF PolicyInv, QuantumGiven, HPFKeeps, WorkConserving, argVars
  <1>3. QuantumCounts'
    BY <1>1 DEF QuantumCounts, argVars
  <1>4. ShortestChosen'
    BY FirstIsShortest DEF ShortestChosen, Ready, argVars
  <1> QED
    BY <1>2, <1>3, <1>4 DEF PolicyInv

LEMMA PolicyInvScheduler ==
    ASSUME IdsFitKey, Inv, ServiceInv, QueueInv, ReadyKept, PolicyInv,
           UNCHANGED argVars, SchedulerRun
    PROVE  PolicyInv'
  <1> USE DEF SchedulerRun, At
  <1>0. /\ remainingQuantum \in Int /\ schedulerQuantum \in Int
        /\ QuantumGiven'
    BY DEF Inv, TypeInv, TypeOK, KernelTypeOK, SchedulerTypeOK, PolicyInv, QuantumGiven, argVars
  (* Steps that leave spc in the middle of the loop body.                  *)
  <1>1. ASSUME spc' \in {"finish", "fetch", "receive", "quantum"},
               UNCHANGED currentProcess,
               currentProcess # NULL => remainingQuantum' <= schedulerQuantum - 1
        PROVE  PolicyInv'
    <2>1. remainingQuantum' \in Int
      BY <1>0 DEF runScheduler, BeginTick, handleProcessExit, fetchProcessFromQueue,
                  ReceiveProcess, ReceiveMark, ExpireQuantum, SwitchProcess, KeepProcess,
                  Dispatch, EndBusyTick, EndIdleTick
    <2>2. currentProcess # NULL => remainingQuantum' <= schedulerQuantum
      BY <1>0, <1>1, <2>1
    <2>3. QuantumCounts'
      BY <1>1, <2>1, <2>2 DEF QuantumCounts, argVars
    <2> QED
      BY <1>0, <1>1, <2>3 DEF PolicyInv, HPFKeeps, WorkConserving, ShortestChosen
  <1>2. CASE BeginTick
    BY <1>0, <1>1, <1>2 DEF BeginTick, PolicyInv, QuantumCounts
  <1>3. CASE fetchProcessFromQueue \/ ReceiveProcess \/ ReceiveMark
    BY <1>1, <1>3
       DEF fetchProcessFromQueue, ReceiveProcess, ReceiveMark, PolicyInv, QuantumCounts
  <1>4. CASE handleProcessExit
    BY <1>0, <1>4
       DEF handleProcessExit, PolicyInv, HPFKeeps, QuantumCounts, WorkConserving, ShortestChosen
  <1>5. CASE ExpireQuantum
    <2>1. CASE /\ currentProcess # NULL /\ schedulerType # HPF
               /\ remainingQuantum' = schedulerQuantum /\ spc' = "switch"
      <3>1. currentProcess' = currentProcess
        BY <1>5 DEF ExpireQuantum
      <3>2. QuantumCounts'
        BY <1>0, <2>1 DEF QuantumCounts, QuantumGiven, PolicyInv, argVars
      <3> QED
        BY <1>0, <2>1, <3>2 DEF PolicyInv, HPFKeeps, WorkConserving, ShortestChosen, argVars
    <2>2. CASE /\ currentProcess = NULL \/ schedulerType = HPF \/ ~QuantumOver
               /\ spc' = "dispatch"
               /\ UNCHANGED remainingQuantum
      <3>1. spc = "quantum" /\ currentProcess' = currentProcess
        BY <1>5 DEF ExpireQuantum
      <3>2. QuantumCounts'
        BY <1>0, <2>2, <3>1 DEF QuantumOver, QuantumCounts, PolicyInv, argVars, RR, HPF
      <3>3. ShortestChosen'
        BY <1>0, <2>2, <3>1
           DEF QuantumOver, QuantumCounts, ShortestChosen, PolicyInv, argVars, SRTN, HPF
      <3> QED
        BY <1>0, <2>2, <3>2, <3>3 DEF PolicyInv, HPFKeeps, WorkConserving
    <2> QED
      BY <1>5, <2>1, <2>2 DEF ExpireQuantum
  <1>6. CASE SwitchProcess
    <2>1. PICK i \in DOMAIN readyQueue :
            /\ FirstReady(i) /\ currentProcess' = readyQueue[i]
            /\ pcbState' = [pcbState EXCEPT ![currentProcess] = "READY",
                                            ![readyQueue[i]] = "RUNNING"]
            /\ UNCHANGED <<remainingTime, remainingQuantum>>
            /\ spc' \in {"finishresumed", "dispatch"}
      BY <1>6 DEF SwitchProcess
    <2>2. spc = "switch" /\ currentProcess # NULL
      BY <1>6 DEF SwitchProcess, Inv, TypeInv, LoopsWellPlaced
    <2>3. \A p \in Procs : pcbState'[p] = "READY" => pcbState[p] = "READY"
      BY <2>1, <2>2, EndContext DEF ServiceInv
    <2>4. /\ remainingQuantum <= schedulerQuantum
          /\ schedulerType = RR => remainingQuantum > 0
      BY <2>2 DEF PolicyInv, QuantumCounts
    <2> QED
      BY <2>1, <2>3, <2>4, PolicyInvStart
  <1>7. CASE KeepProcess
    <2>1. /\ spc = "switch" /\ currentProcess # NULL
          /\ pcbState' = [pcbState EXCEPT ![currentProcess] = "RUNNING"]
          /\ UNCHANGED <<currentProcess, remainingTime, remainingQuantum>>
          /\ spc' = "dispatch"
      BY <1>7 DEF KeepProcess, Inv, TypeInv, LoopsWellPlaced
    <2>2. currentProcess \in Procs /\ pcbState[currentProcess] = "READY"
      BY <2>1, EndContext DEF ServiceInv
    <2>3. ~NoneReady
      BY <2>2 DEF NoneReady, ReadyKept, In
    <2>4. PICK i \in DOMAIN readyQueue : FirstReady(i) /\ readyQueue[i] = currentProcess
      BY <1>7, <2>3 DEF KeepProcess
    <2>5. \A p \in Procs : pcbState'[p] = "READY" => pcbState[p] = "READY"
      BY <2>1, <2>2, EndContext
    <2>6. /\ remainingQuantum <= schedulerQuantum
          /\ schedulerType = RR => remainingQuantum > 0
      BY <2>1 DEF PolicyInv, QuantumCounts
    <2> QED
      BY <2>1, <2>4, <2>5, <2>6, PolicyInvStart
  <1>8. CASE Dispatch
    <2>1. PICK i \in DOMAIN readyQueue :
            /\ FirstReady(i) /\ currentProcess' = readyQueue[i]
            /\ pcbState' = [pcbState EXCEPT ![readyQueue[i]] = "RUNNING"]
            /\ remainingTime' = remainingTime
            /\ remainingQuantum' = schedulerQuantum
            /\ spc' \in {"finishresumed", "dispatch"}
      BY <1>8 DEF Dispatch
    <2>2. \A p \in Procs : pcbState'[p] = "READY" => pcbState[p] = "READY"
      BY <2>1, EndContext
    <2>3. /\ remainingQuantum' <= schedulerQuantum
          /\ schedulerType = RR => remainingQuantum' > 0
      BY <1>0, <2>1 DEF PolicyInv, QuantumGiven
    <2> QED
      BY <2>1, <2>2, <2>3, PolicyInvStart
  <1>9. CASE EndBusyTick
    BY <1>0, <1>9
       DEF EndBusyTick, pcbVars, PolicyInv, HPFKeeps, QuantumCounts, WorkConserving,
           ShortestChosen, Ready, argVars
  <1>10. CASE EndIdleTick
    <2>1. /\ NoneReady /\ currentProcess' = NULL /\ pcbState' = pcbState
          /\ spc' \in {"done", "top"}
      BY <1>10 DEF EndIdleTick, pcbVars
    <2>2. Ready = {}
      BY <2>1 DEF Ready, ReadyKept, NoneReady, In
    <2> QED
      BY <1>0, <2>1, <2>2
         DEF PolicyInv, HPFKeeps, QuantumCounts, WorkConserving, ShortestChosen, Ready
  <1> QED
    BY <1>2, <1>3, <1>4, <1>5, <1>6, <1>7, <1>8, <1>9, <1>10 DEF runScheduler

LEMMA PolicyInvHolds ==
    ASSUME IdsFitKey
    PROVE  Spec => []PolicyInv
  <1>1. Init => PolicyInv
    BY PolicyInvInit
  <1>2. ASSUME Inv, ServiceInv, QueueInv, ReadyKept, PolicyInv, [Next]_vars PROVE PolicyInv'
    <2>1. UNCHANGED argVars
      BY <1>2, ArgumentsFixed
    <2>2. CASE ~SchedulerRun
      <3>1. UNCHANGED <<spc, currentProcess, pcbState, remainingTime, remainingQuantum>>
        BY <1>2, <2>2, SchedulerOnly DEF pcbVars
      <3> QED
        BY <1>2, <2>1, <3>1
           DEF PolicyInv, QuantumGiven, HPFKeeps, QuantumCounts, WorkConserving,
               ShortestChosen, Ready, argVars
    <2> QED
      BY <1>2, <2>1, <2>2, PolicyInvScheduler
  <1> QED
    BY <1>1, <1>2, InvInductive, ServiceInvHolds, ReadyKeptHolds, QueueInvHolds, PTL DEF Spec

-----------------------------------------------------------------------------
(* Round robin serves by the quantum.                                      *)

InQuanta(n) == \E k \in Nat : n = k * schedulerQuantum

(* Who waits has been served for whole quanta; who runs will have been     *)
(* when the rest of its quantum is over.                                   *)
QuantaCounted ==
    schedulerType = RR =>
        /\ \A p \in Ready : InQuanta(ServiceHad(p))
        /\ currentProcess # NULL =>
             /\ remainingQuantum >= 0
             /\ IF spc = "switch"
                THEN ServiceHad(currentProcess) > 0 /\ remainingQuantum = schedulerQuantum
                ELSE /\ InQuanta(ServiceHad(currentProcess) + remainingQuantum)
                     /\ ServiceHad(currentProcess) + remainingQuantum > 0

(* A process whose quantum is over goes to the end of the ring.            *)
RunningIsLast ==
    schedulerType = RR /\ spc = "switch" =>
        Len(readyQueue) > 0 /\ readyQueue[Len(readyQueue)] = currentProcess

QuantaInv == QuantaCounted /\ RunningIsLast

LEMMA QuantaInvInit == Init => QuantaInv
  BY DEF Init, KernelInit, SchedulerInit, QuantaInv, QuantaCounted, RunningIsLast, Ready

LEMMA OneMoreQuantum ==
    ASSUME schedulerQuantum \in Nat, NEW n \in Int, InQuanta(n)
    PROVE  InQuanta(n + schedulerQuantum) /\ n >= 0
  <1>1. PICK k \in Nat : n = k * schedulerQuantum
    BY DEF InQuanta
  <1>2. k + 1 \in Nat /\ n + schedulerQuantum = (k + 1) * schedulerQuantum
    BY <1>1
  <1>3. n >= 0
    BY <1>1
  <1> QED
    BY <1>2, <1>3 DEF InQuanta

LEMMA QuantaNoMoreThanUnits ==
    ASSUME NEW k \in Nat, NEW q \in Nat \ {0}
    PROVE  k <= k * q
  <1>1. k * (q - 1) >= 0
    OBVIOUS
  <1>2. k * (q - 1) = k * q - k
    OBVIOUS
  <1>3. k * q \in Int
    OBVIOUS
  <1> QED
    BY <1>1, <1>2, <1>3

LEMMA ServiceIsInt ==
    ASSUME Inv, NEW p \in Entries
    PROVE  ServiceHad(p) \in Int /\ Work(p) \in Nat
  <1>1. Work(p) \in Nat
    BY WorkloadFacts DEF Work, ProcessData, Inv, TypeInv, TypeOK, KernelTypeOK
  <1> QED
    BY <1>1, EndContext DEF ServiceHad

LEMMA ReadyAreEntries ==
    ASSUME Inv, ReadyKept, NEW p \in Ready
    PROVE  p \in Entries
  BY EndContext DEF Ready, ReadyKept, In

(* What is taken out of the ring gets a new quantum.                       *)
LEMMA QuantaCountedStart ==
    ASSUME Inv, ReadyKept, QuantaCounted, schedulerType = RR,
           schedulerQuantum \in Nat \ {0},
           currentProcess' \in Ready,
           \A p \in Procs : pcbState'[p] = "READY" => pcbState[p] = "READY",
           UNCHANGED <<argVars, remainingTime>>,
           spc' \in {"finishresumed", "dispatch"},
           remainingQuantum' = schedulerQuantum
    PROVE  QuantaCounted'
  <1>1. \A p : ServiceHad(p)' = ServiceHad(p)
    BY DEF ServiceHad, Work, argVars
  <1>2. \A n : InQuanta(n)' <=> InQuanta(n)
    BY DEF InQuanta, argVars
  <1>3. \A p \in Ready' : InQuanta(ServiceHad(p))'
    BY <1>1, <1>2 DEF QuantaCounted, Ready
  <1>4. currentProcess' \in Entries
    BY ReadyAreEntries
  <1> DEFINE served == ServiceHad(currentProcess')
  <1>5. served \in Int /\ InQuanta(served)
    BY <1>4, ServiceIsInt DEF QuantaCounted
  <1>6. InQuanta(served + schedulerQuantum) /\ served + schedulerQuantum > 0
    BY <1>5, OneMoreQuantum
  <1>7. /\ served = Work(currentProcess') - remainingTime[currentProcess']
        /\ served = ServiceHad(currentProcess)'
    BY DEF ServiceHad, Work, argVars
  <1>8. /\ InQuanta(ServiceHad(currentProcess) + remainingQuantum)'
        /\ (ServiceHad(currentProcess) + remainingQuantum > 0)'
    BY <1>6, <1>7 DEF InQuanta, argVars
  <1> QED
    BY <1>3, <1>8 DEF QuantaCounted

LEMMA RunningIsLastScheduler ==
    ASSUME Inv, RunningIsLast, UNCHANGED argVars, SchedulerRun
    PROVE  RunningIsLast'
  <1> USE DEF SchedulerRun, At
  <1>1. CASE spc' # "switch"
    BY <1>1 DEF RunningIsLast
  <1>2. CASE spc' = "switch" /\ schedulerType = RR
    <2>1. ExpireQuantum
      BY <1>2 DEF runScheduler, BeginTick, handleProcessExit, fetchProcessFromQueue,
                  ReceiveProcess, ReceiveMark, SwitchProcess, KeepProcess, Dispatch,
                  EndBusyTick, EndIdleTick
    <2>2. /\ pushToReadyQueue(currentProcess, remainingTime[currentProcess])
          /\ currentProcess' = currentProcess /\ currentProcess # NULL
      BY <1>2, <2>1 DEF ExpireQuantum
    <2>3. readyQueue \in Seq(Entries) /\ currentProcess \in Entries
      BY <2>2, EndContext
    <2>4. PICK i \in 0..Len(readyQueue) :
             /\ DOMAIN readyQueue' = 1..(Len(readyQueue) + 1)
             /\ \A k \in DOMAIN readyQueue' :
                  readyQueue'[k] = IF k <= i THEN readyQueue[k]
                                   ELSE IF k = i + 1 THEN currentProcess ELSE readyQueue[k - 1]
             /\ \A j \in 1..Len(readyQueue) :
                  j > i <=> Precedes(currentProcess, remainingTime[currentProcess],
                                     readyQueue[j])
      BY <2>2, <2>3, PushShape
    <2>5. \A j \in 1..Len(readyQueue) : ~(j > i)
      BY <1>2, <2>4 DEF Precedes
    <2>6. Len(readyQueue) \in Nat
      BY <2>3, LenProperties
    <2>7. i = Len(readyQueue)
      BY <2>4, <2>5, <2>6
    <2>8. readyQueue'[Len(readyQueue) + 1] = currentProcess
      BY <2>4, <2>6, <2>7
    <2>9. Len(readyQueue') = Len(readyQueue) + 1
      <3>1. readyQueue' \in Seq(Entries)
        BY <2>2, <2>3, QueuePush, EndContext
      <3>2. Len(readyQueue') \in Nat /\ DOMAIN readyQueue' = 1..Len(readyQueue')
        BY <3>1, LenProperties
      <3> QED
        BY <2>4, <2>6, <3>2
    <2> QED
      BY <2>2, <2>6, <2>8, <2>9 DEF RunningIsLast
  <1>3. CASE schedulerType # RR
    BY <1>3 DEF RunningIsLast, argVars
  <1> QED
    BY <1>1, <1>2, <1>3

LEMMA QuantaCountedScheduler ==
    ASSUME IdsFitKey, Inv, ServiceInv, QueueInv, ReadyKept, PolicyInv, QuantaCounted,
           UNCHANGED argVars, SchedulerRun
    PROVE  QuantaCounted'
  <1> SUFFICES ASSUME schedulerType = RR PROVE QuantaCounted'
    BY DEF QuantaCounted, argVars
  <1> USE DEF SchedulerRun, At
  <1>0. /\ remainingQuantum \in Int /\ schedulerQuantum \in Nat \ {0}
        /\ schedulerQuantum' = schedulerQuantum
    BY DEF Inv, TypeInv, TypeOK, KernelTypeOK, SchedulerTypeOK, PolicyInv, QuantumGiven, argVars
  <1>1. ASSUME UNCHANGED <<pcbState, currentProcess, remainingTime, remainingQuantum>>,
               spc # "switch", spc' # "switch"
        PROVE  QuantaCounted'
    BY <1>1 DEF QuantaCounted, Ready, InQuanta, ServiceHad, Work, argVars
  <1>2. CASE fetchProcessFromQueue \/ ReceiveMark \/ EndBusyTick
    BY <1>1, <1>2 DEF fetchProcessFromQueue, ReceiveMark, EndBusyTick, pcbVars
  <1>3. CASE BeginTick
    <2>1. CASE currentProcess = NULL
      BY <1>3, <2>1 DEF BeginTick, pcbVars, QuantaCounted, Ready, InQuanta, ServiceHad, Work,
                        argVars
    <2>2. CASE currentProcess # NULL
      <3>1. /\ spc = "top" /\ spc' \in {"finish", "fetch"}
            /\ UNCHANGED <<pcbState, currentProcess>>
            /\ remainingTime' = [remainingTime EXCEPT ![currentProcess] = @ - 1]
            /\ remainingQuantum' = remainingQuantum - 1
        BY <1>3, <2>2 DEF BeginTick, pcbVars
      <3>2. currentProcess \in Entries /\ currentProcess \in Procs /\ currentProcess \notin Ready
        BY <2>2, <3>1, EndContext DEF ServiceInv, Ready
      <3>3. \A p \in Ready : ServiceHad(p)' = ServiceHad(p)
        BY <3>1, <3>2, EndContext DEF Ready, ServiceHad, Work, argVars
      <3>4. \A p \in Ready' : InQuanta(ServiceHad(p))'
        BY <1>0, <3>1, <3>3 DEF QuantaCounted, Ready, InQuanta
      <3>5. remainingQuantum > 0
        BY <2>2, <3>1 DEF PolicyInv, QuantumCounts
      <3>6. ServiceHad(currentProcess)' = ServiceHad(currentProcess) + 1
        <4>1. Work(currentProcess) \in Nat /\ remainingTime[currentProcess] \in Int
          BY <3>2, ServiceIsInt, EndContext
        <4>2. remainingTime'[currentProcess'] = remainingTime[currentProcess] - 1
          BY <3>1, <3>2, EndContext
        <4>3. ServiceHad(currentProcess)'
                = Work(currentProcess) - (remainingTime[currentProcess] - 1)
          BY <3>1, <4>2 DEF ServiceHad, Work, argVars
        <4> QED
          BY <4>1, <4>3 DEF ServiceHad
      <3>7. (ServiceHad(currentProcess) + remainingQuantum)'
              = ServiceHad(currentProcess) + remainingQuantum
        BY <1>0, <3>1, <3>2, <3>6, ServiceIsInt
      <3>8. /\ InQuanta(ServiceHad(currentProcess) + remainingQuantum)
            /\ ServiceHad(currentProcess) + remainingQuantum > 0
        BY <2>2, <3>1 DEF QuantaCounted
      <3>9. remainingQuantum' >= 0
        BY <1>0, <3>1, <3>5
      <3>10. /\ InQuanta(ServiceHad(currentProcess) + remainingQuantum)'
             /\ (ServiceHad(currentProcess) + remainingQuantum > 0)'
        BY <1>0, <3>7, <3>8 DEF InQuanta
      <3> QED
        BY <3>1, <3>4, <3>9, <3>10 DEF QuantaCounted
    <2> QED
      BY <2>1, <2>2
  <1>4. CASE handleProcessExit
    <2>1. /\ currentProcess' = NULL /\ remainingTime' = remainingTime
          /\ pcbState' = [pcbState EXCEPT ![currentProcess] = "FINISHED"]
      BY <1>4 DEF handleProcessExit
    <2>2. \A p \in Procs : pcbState'[p] = "READY" => pcbState[p] = "READY"
      BY <2>1, EndContext
    <2> QED
      BY <1>0, <2>1, <2>2 DEF QuantaCounted, Ready, InQuanta, ServiceHad, Work, argVars
  <1>5. CASE ReceiveProcess
    <2>1. PICK q : /\ q = Head(pcbQueue) /\ q \notin Marks /\ pcbQueue # <<>>
                   /\ pcbState' = [pcbState EXCEPT ![q] = "READY"]
                   /\ remainingTime' = [remainingTime EXCEPT ![q] = Work(q)]
      BY <1>5 DEF ReceiveProcess, pushToReadyQueue
    <2>2. q \in Entries /\ q \in Procs /\ 1 \in DOMAIN pcbQueue /\ q = pcbQueue[1]
      BY <2>1, EndContext
    <2>3. pcbState[q] = "none" /\ currentProcess # q
      BY <2>1, <2>2, EndContext DEF Inv, OnTheWay, MessagesFresh, QueuedHavePCB
    <2>4. spc = "receive" /\ spc' = spc /\ UNCHANGED <<currentProcess, remainingQuantum>>
      BY <1>5 DEF ReceiveProcess
    <2>5. \A p \in Procs : p # q => ServiceHad(p)' = ServiceHad(p)
      BY <2>1, EndContext DEF ServiceHad, Work, argVars
    <2>6. ServiceHad(q)' = 0
      <3>1. Work(q) \in Nat /\ remainingTime'[q] = Work(q)
        BY <2>1, <2>2, ServiceIsInt, EndContext
      <3> QED
        BY <3>1 DEF ServiceHad, Work, argVars
    <2>7. ASSUME NEW p \in Ready' PROVE InQuanta(ServiceHad(p))'
      <3>1. CASE p = q
        <4>1. 0 \in Nat /\ 0 = 0 * schedulerQuantum
          BY <1>0
        <4> QED
          BY <1>0, <2>6, <3>1, <4>1 DEF InQuanta
      <3>2. CASE p # q
        <4>1. p \in Ready /\ p \in Procs
          BY <2>1, <2>7, <3>2, EndContext DEF Ready
        <4>2. InQuanta(ServiceHad(p)) /\ ServiceHad(p)' = ServiceHad(p)
          BY <2>5, <3>2, <4>1 DEF QuantaCounted
        <4> QED
          BY <1>0, <4>2 DEF InQuanta
      <3> QED
        BY <3>1, <3>2
    <2>8. currentProcess # NULL => ServiceHad(currentProcess)' = ServiceHad(currentProcess)
      BY <2>3, <2>4, <2>5, EndContext DEF ServiceHad, Work
    <2> QED
      BY <1>0, <2>4, <2>7, <2>8 DEF QuantaCounted, InQuanta
  <1>6. CASE ExpireQuantum
    <2>1. CASE UNCHANGED <<remainingQuantum, pcbState>> /\ spc' = "dispatch"
      BY <1>1, <1>6, <2>1 DEF ExpireQuantum
    <2>2. CASE /\ currentProcess # NULL /\ QuantumOver
               /\ remainingQuantum' = schedulerQuantum /\ spc' = "switch"
               /\ pushToReadyQueue(currentProcess, remainingTime[currentProcess])
      <3>1. /\ spc = "quantum" /\ UNCHANGED <<currentProcess, remainingTime>>
            /\ pcbState' = [pcbState EXCEPT ![currentProcess] = "READY"]
        BY <1>6, <2>2 DEF ExpireQuantum, pushToReadyQueue
      <3>2. \A p : ServiceHad(p)' = ServiceHad(p)
        BY <3>1 DEF ServiceHad, Work, argVars
      <3>3. remainingQuantum = 0
        BY <1>0, <2>2, <3>1 DEF QuantaCounted, QuantumOver
      <3>4. currentProcess \in Entries /\ currentProcess \in Procs
        BY <2>2, EndContext
      <3>5. InQuanta(ServiceHad(currentProcess)) /\ ServiceHad(currentProcess) > 0
        <4>1. ServiceHad(currentProcess) \in Int
          BY <3>4, ServiceIsInt
        <4>2. ServiceHad(currentProcess) + remainingQuantum = ServiceHad(currentProcess)
          BY <3>3, <4>1
        <4> QED
          BY <2>2, <3>1, <4>2 DEF QuantaCounted
      <3>6. ASSUME NEW p \in Ready' PROVE InQuanta(ServiceHad(p))
        <4>1. p \in Ready \/ p = currentProcess
          BY <3>1, <3>6, EndContext DEF Ready
        <4> QED
          BY <3>5, <4>1 DEF QuantaCounted
      <3>7. \A p \in Ready' : InQuanta(ServiceHad(p))'
        BY <1>0, <3>2, <3>6 DEF InQuanta
      <3>8. (ServiceHad(currentProcess) > 0)'
        BY <3>1, <3>5 DEF ServiceHad, Work, argVars
      <3> QED
        BY <1>0, <2>2, <3>1, <3>7, <3>8 DEF QuantaCounted
    <2> QED
      BY <1>6, <2>1, <2>2 DEF ExpireQuantum
  <1>7. CASE SwitchProcess
    <2>1. PICK i \in DOMAIN readyQueue :
            /\ FirstReady(i) /\ currentProcess' = readyQueue[i]
            /\ pcbState' = [pcbState EXCEPT ![currentProcess] = "READY",
                                            ![readyQueue[i]] = "RUNNING"]
            /\ UNCHANGED <<remainingTime, remainingQuantum>>
            /\ spc' \in {"finishresumed", "dispatch"}
      BY <1>7 DEF SwitchProcess
    <2>2. spc = "switch" /\ currentProcess # NULL
      BY <1>7 DEF SwitchProcess, Inv, TypeInv, LoopsWellPlaced
    <2>3. \A p \in Procs : pcbState'[p] = "READY" => pcbState[p] = "READY"
      BY <2>1, <2>2, EndContext DEF ServiceInv
    <2>4. currentProcess' \in Ready
      BY <2>1, EndContext DEF FirstReady, Ready
    <2>5. remainingQuantum' = schedulerQuantum
      BY <2>1, <2>2 DEF QuantaCounted
    <2> QED
      BY <1>0, <2>1, <2>3, <2>4, <2>5, QuantaCountedStart
  <1>8. CASE KeepProcess
    <2>1. /\ spc = "switch" /\ currentProcess # NULL
          /\ pcbState' = [pcbState EXCEPT ![currentProcess] = "RUNNING"]
          /\ UNCHANGED <<currentProcess, remainingTime, remainingQuantum>>
          /\ spc' = "dispatch"
      BY <1>8 DEF KeepProcess, Inv, TypeInv, LoopsWellPlaced
    <2>2. currentProcess' \in Ready
      BY <2>1, EndContext DEF ServiceInv, Ready
    <2>3. \A p \in Procs : pcbState'[p] = "READY" => pcbState[p] = "READY"
      BY <2>1, EndContext
    <2>4. remainingQuantum' = schedulerQuantum
      BY <2>1 DEF QuantaCounted
    <2> QED
      BY <1>0, <2>1, <2>2, <2>3, <2>4, QuantaCountedStart
  <1>9. CASE Dispatch
    <2>1. PICK i \in DOMAIN readyQueue :
            /\ FirstReady(i) /\ currentProcess' = readyQueue[i]
            /\ pcbState' = [pcbState EXCEPT ![readyQueue[i]] = "RUNNING"]
            /\ remainingTime' = remainingTime
            /\ remainingQuantum' = schedulerQuantum
            /\ spc' \in {"finishresumed", "dispatch"}
      BY <1>9 DEF Dispatch
    <2>2. \A p \in Procs : pcbState'[p] = "READY" => pcbState[p] = "READY"
      BY <2>1, EndContext
    <2>3. currentProcess' \in Ready
      BY <2>1, EndContext DEF FirstReady, Ready
    <2> QED
      BY <1>0, <2>1, <2>2, <2>3, QuantaCountedStart
  <1>10. CASE EndIdleTick
    BY <1>1, <1>10 DEF EndIdleTick, pcbVars
  <1> QED
    BY <1>2, <1>3, <1>4, <1>5, <1>6, <1>7, <1>8, <1>9, <1>10 DEF runScheduler

LEMMA QuantaInvHolds ==
    ASSUME IdsFitKey
    PROVE  Spec => []QuantaInv
  <1>1. Init => QuantaInv
    BY QuantaInvInit
  <1>2. ASSUME Inv, ServiceInv, QueueInv, ReadyKept, PolicyInv, QuantaInv, [Next]_vars
        PROVE  QuantaInv'
    <2>1. UNCHANGED argVars
      BY <1>2, ArgumentsFixed
    <2>2. CASE ~SchedulerRun
      <3>1. UNCHANGED <<spc, currentProcess, readyQueue, pcbState, remainingTime,
                        remainingQuantum>>
        BY <1>2, <2>2, SchedulerOnly DEF pcbVars
      <3> QED
        BY <1>2, <2>1, <3>1
           DEF QuantaInv, QuantaCounted, RunningIsLast, InQuanta, ServiceHad, Work, Ready,
               argVars
    <2>3. CASE SchedulerRun
      BY <1>2, <2>1, <2>3, QuantaCountedScheduler, RunningIsLastScheduler DEF QuantaInv
    <2> QED
      BY <2>2, <2>3
  <1> QED
    BY <1>1, <1>2, InvInductive, ServiceInvHolds, ReadyKeptHolds, QueueInvHolds,
       PolicyInvHolds, PTL DEF Spec

(* Who has been served for whole quanta has had no more of them than ticks *)
(* of work.                                                                *)
LEMMA WholeQuantaServed ==
    ASSUME Inv, ServiceInv, NEW p \in Entries, InQuanta(ServiceHad(p)),
           schedulerQuantum \in Nat \ {0}
    PROVE  WholeQuanta(p, ServiceHad(p))
  <1>1. PICK k \in Nat : ServiceHad(p) = k * schedulerQuantum
    BY DEF InQuanta
  <1>2. k <= k * schedulerQuantum
    BY QuantaNoMoreThanUnits
  <1>3. ServiceHad(p) <= Work(p)
    <2>1. remainingTime[p] \in Int /\ remainingTime[p] >= 0 /\ Work(p) \in Nat
      BY EndContext, ServiceIsInt DEF ServiceInv
    <2> QED
      BY <2>1 DEF ServiceHad
  <1>4. k \in 0..Work(p)
    BY <1>1, <1>2, <1>3, ServiceIsInt
  <1> QED
    BY <1>1, <1>4 DEF WholeQuanta

(* The quantum that a process is in is one of those it has work for.       *)
LEMMA WholeQuantaAtEnd ==
    ASSUME Inv, ServiceInv, PolicyInv, QuantaCounted, schedulerType = RR,
           schedulerQuantum \in Nat \ {0}, spc = "top", currentProcess # NULL
    PROVE  \E k \in 1..Work(currentProcess) :
             ServiceHad(currentProcess) + remainingQuantum = k * schedulerQuantum
  <1> DEFINE had == ServiceHad(currentProcess)
             work == Work(currentProcess)
             q == schedulerQuantum
  <1>1. /\ had \in Int /\ work \in Nat /\ remainingQuantum \in Int
        /\ remainingTime[currentProcess] \in Int
    BY EndContext, ServiceIsInt DEF Inv, TypeInv, TypeOK, SchedulerTypeOK
  <1>2. had = work - remainingTime[currentProcess]
    BY DEF ServiceHad
  <1>3. remainingTime[currentProcess] > 0
    BY DEF Inv, OnTheProcessor, Finishing
  <1>4. remainingQuantum <= q /\ remainingQuantum > 0
    BY DEF PolicyInv, QuantumCounts
  <1>5. PICK k \in Nat : had + remainingQuantum = k * q
    BY DEF QuantaCounted, InQuanta
  <1>6. k # 0
    <2>1. had + remainingQuantum > 0
      BY DEF QuantaCounted
    <2>2. 0 * q = 0
      OBVIOUS
    <2> QED
      BY <1>5, <2>1, <2>2
  <1>7. k - 1 \in Nat /\ k - 1 <= (k - 1) * q
    <2>1. k - 1 \in Nat
      BY <1>6
    <2> QED
      BY <2>1, QuantaNoMoreThanUnits
  <1>8. (k - 1) * q = k * q - q
    OBVIOUS
  <1>9. k * q \in Int
    OBVIOUS
  <1>10. had <= work - 1
    BY <1>1, <1>2, <1>3
  <1> HIDE DEF had, work
  <1>11. k - 1 <= had
    BY <1>1, <1>4, <1>5, <1>7, <1>8, <1>9
  <1>12. k \in 1..work
    BY <1>1, <1>6, <1>10, <1>11
  <1> QED
    BY <1>5, <1>12 DEF had, work

LEMMA QuantaAreWholeHolds ==
    ASSUME Inv, ServiceInv, ReadyKept, PolicyInv, QuantaCounted
    PROVE  QuantaAreWhole
  <1> SUFFICES ASSUME schedulerType = RR PROVE QuantaAreWhole
    BY DEF QuantaAreWhole
  <1>1. schedulerQuantum \in Nat \ {0} /\ remainingQuantum \in Int
    BY DEF Inv, TypeInv, TypeOK, KernelTypeOK, SchedulerTypeOK, PolicyInv, QuantumGiven
  <1>2. \A p \in Ready : WholeQuanta(p, ServiceHad(p))
    BY <1>1, ReadyAreEntries, WholeQuantaServed DEF QuantaCounted
  <1>3. ASSUME spc = "top", currentProcess # NULL
        PROVE  /\ remainingQuantum \in 1..schedulerQuantum
               /\ \E k \in 1..Work(currentProcess) :
                    ServiceHad(currentProcess) + remainingQuantum = k * schedulerQuantum
    <2>1. remainingQuantum \in 1..schedulerQuantum
      BY <1>1, <1>3 DEF PolicyInv, QuantumCounts
    <2> QED
      BY <1>1, <1>3, <2>1, WholeQuantaAtEnd
  <1> QED
    BY <1>2, <1>3 DEF QuantaAreWhole

(* The scheduler never idles past a ready process; with a decision at each *)
(* tick srtn runs one of those with least time left; under rr whoever      *)
(* waits has been served for whole quanta, and the running process will    *)
(* have been at the end of its quantum.                                    *)
THEOREM PolicyObeyedHolds ==
    ASSUME IdsFitKey
    PROVE  Spec => []PolicyObeyed
  <1>1. ASSUME Inv, ServiceInv, ReadyKept, PolicyInv, QuantaInv PROVE PolicyObeyed
    <2>1. schedulerQuantum <= 1 => ShortestRemainingRuns
      BY <1>1 DEF ShortestRemainingRuns, PolicyInv, ShortestChosen
    <2>2. QuantaAreWhole
      BY <1>1, QuantaAreWholeHolds DEF QuantaInv
    <2> QED
      BY <1>1, <2>1, <2>2 DEF PolicyObeyed, PolicyInv
  <1> QED
    BY <1>1, InvInductive, ServiceInvHolds, ReadyKeptHolds, PolicyInvHolds, QuantaInvHolds, PTL

(* What ChoiceObeysPolicy says of a step.                                  *)
ChoiceAllowed ==
    /\ schedulerType = HPF /\ currentProcess # NULL =>
         currentProcess' \in {currentProcess, NULL}
    /\ schedulerType = HPF /\ currentProcess' # currentProcess /\ currentProcess' # NULL =>
         \A p \in Ready :
            processesArray[currentProcess'].priority <= processesArray[p].priority
    /\ schedulerType = RR /\ currentProcess' # currentProcess /\ currentProcess' # NULL =>
         /\ currentProcess' = readyQueue[1]
         /\ currentProcess # NULL =>
              /\ remainingTime[currentProcess] > 0
              /\ ServiceHad(currentProcess) > 0
              /\ WholeQuanta(currentProcess, ServiceHad(currentProcess))
    /\ schedulerType = RR /\ currentProcess' = currentProcess
         /\ spc = "switch" /\ spc' # "switch" =>
         Ready = {currentProcess}

(* A process that gives way has used up its quantum.                       *)
LEMMA GivesWay ==
    ASSUME Inv, ServiceInv, PolicyInv, QuantaCounted, schedulerType = RR, spc = "switch"
    PROVE  /\ remainingTime[currentProcess] > 0
           /\ ServiceHad(currentProcess) > 0
           /\ WholeQuanta(currentProcess, ServiceHad(currentProcess))
  <1>1. currentProcess # NULL /\ currentProcess \in Entries /\ currentProcess \in Procs
    BY EndContext DEF Inv, TypeInv, LoopsWellPlaced
  <1>2. currentProcess \in Ready
    BY <1>1 DEF ServiceInv, Ready
  <1>3. schedulerQuantum \in Nat \ {0}
    BY DEF Inv, TypeInv, TypeOK, KernelTypeOK, PolicyInv, QuantumGiven
  <1>4. WholeQuanta(currentProcess, ServiceHad(currentProcess))
    BY <1>1, <1>2, <1>3, WholeQuantaServed DEF QuantaCounted
  <1>5. remainingTime[currentProcess] > 0
    BY <1>1 DEF Inv, OnTheProcessor, Finishing
  <1> QED
    BY <1>1, <1>4, <1>5 DEF QuantaCounted

(* It is at the end of the ring: if it is also at its head, it is alone.   *)
LEMMA GoesOnAlone ==
    ASSUME Inv, ServiceInv, QueueInv, ReadyKept, RunningIsLast, schedulerType = RR,
           spc = "switch", KeepProcess
    PROVE  Ready = {currentProcess}
  <1>1. currentProcess # NULL /\ currentProcess \in Procs
    BY EndContext DEF Inv, TypeInv, LoopsWellPlaced
  <1>2. currentProcess \in Ready
    BY <1>1 DEF ServiceInv, Ready
  <1>3. ~NoneReady
    BY <1>2 DEF NoneReady, ReadyKept, In, Ready
  <1>4. PICK i \in DOMAIN readyQueue : FirstReady(i) /\ readyQueue[i] = currentProcess
    BY <1>3 DEF KeepProcess
  <1>5. /\ readyQueue \in Seq(Entries)
        /\ Len(readyQueue) \in Nat /\ DOMAIN readyQueue = 1..Len(readyQueue)
    BY EndContext, LenProperties
  <1>6. i = 1
    BY <1>4, <1>5, FirstIsFirst
  <1>7. Len(readyQueue) \in DOMAIN readyQueue /\ readyQueue[Len(readyQueue)] = currentProcess
    BY <1>5 DEF RunningIsLast
  <1>8. Len(readyQueue) = 1
    BY <1>4, <1>6, <1>7 DEF QueueInv, NoRepetition
  <1>9. ASSUME NEW p \in Ready PROVE p = currentProcess
    <2>1. PICK j \in DOMAIN readyQueue : readyQueue[j] = p
      BY <1>9 DEF Ready, ReadyKept, In
    <2>2. j = 1
      BY <1>5, <1>8, <2>1
    <2> QED
      BY <1>4, <1>6, <2>1, <2>2
  <1> QED
    BY <1>2, <1>9

LEMMA ChoiceStep ==
    ASSUME IdsFitKey, Inv, ServiceInv, QueueInv, ReadyKept, PolicyInv, QuantaInv, [Next]_vars
    PROVE  ChoiceAllowed
  <1>1. CASE SwitchProcess \/ Dispatch
    <2>1. PICK i \in DOMAIN readyQueue : FirstReady(i) /\ currentProcess' = readyQueue[i]
      BY <1>1 DEF SwitchProcess, Dispatch
    <2>2. i = 1
      BY <2>1, FirstIsFirst, EndContext
    <2>3. schedulerType = HPF => currentProcess = NULL
      BY <1>1 DEF SwitchProcess, Dispatch, At, PolicyInv, HPFKeeps
    <2>4. schedulerType = HPF =>
            \A p \in Ready :
              processesArray[readyQueue[i]].priority <= processesArray[p].priority
      BY <2>1, FirstIsHighest
    <2>5. currentProcess # NULL => spc = "switch"
      BY <1>1 DEF SwitchProcess, Dispatch, At
    <2>6. ~(currentProcess' = currentProcess /\ spc = "switch")
      BY <1>1 DEF SwitchProcess, Dispatch, At
    <2>7. schedulerType = RR /\ currentProcess # NULL =>
            /\ remainingTime[currentProcess] > 0
            /\ ServiceHad(currentProcess) > 0
            /\ WholeQuanta(currentProcess, ServiceHad(currentProcess))
      BY <2>5, GivesWay DEF QuantaInv
    <2> QED
      BY <2>1, <2>2, <2>3, <2>4, <2>6, <2>7 DEF ChoiceAllowed
  <1>2. CASE KeepProcess
    <2>1. currentProcess' = currentProcess /\ spc = "switch"
      BY <1>2 DEF KeepProcess, At
    <2>2. schedulerType = RR => Ready = {currentProcess}
      BY <1>2, <2>1, GoesOnAlone DEF QuantaInv
    <2> QED
      BY <2>1, <2>2 DEF ChoiceAllowed
  <1>3. CASE ~SchedulerRun
    <2>1. UNCHANGED <<spc, currentProcess>>
      BY <1>3, SchedulerOnly
    <2> QED
      BY <2>1 DEF ChoiceAllowed
  <1>4. CASE SchedulerRun /\ ~SwitchProcess /\ ~Dispatch /\ ~KeepProcess
    <2>1. spc # "switch" /\ currentProcess' \in {currentProcess, NULL}
      BY <1>4
         DEF SchedulerRun, runScheduler, At, BeginTick, handleProcessExit,
             fetchProcessFromQueue, ReceiveProcess, ReceiveMark, ExpireQuantum, EndBusyTick,
             EndIdleTick
    <2> QED
      BY <2>1 DEF ChoiceAllowed
  <1> QED
    BY <1>1, <1>2, <1>3, <1>4

(* hpf never takes the processor from a process and gives it to one of the *)
(* highest priority; rr serves in the order of the ring, takes the         *)
(* processor from a process only after a full quantum and with work left,  *)
(* and leaves it the processor then only if nobody else is ready.          *)
THEOREM ChoiceObeysPolicyHolds ==
    ASSUME IdsFitKey
    PROVE  Spec => ChoiceObeysPolicy
  <1>1. ASSUME Inv, ServiceInv, QueueInv, ReadyKept, PolicyInv, QuantaInv, [Next]_vars
        PROVE  [ChoiceAllowed]_vars
    BY <1>1, ChoiceStep
  <1>2. Spec => [][ChoiceAllowed]_vars
    BY <1>1, InvInductive, ServiceInvHolds, QueueInvHolds, ReadyKeptHolds, PolicyInvHolds,
       QuantaInvHolds, PTL DEF Spec
  <1> QED
    BY <1>2 DEF ChoiceObeysPolicy, ChoiceAllowed

-----------------------------------------------------------------------------
(* The queue of the composition implements ReadyQueue.                     *)

(* The heap orders by HeapKey, the ring by nothing.                        *)
OrderKey(p, remaining) == IF schedulerType = RR THEN 0 ELSE HeapKey(p, remaining)

Keyed(p) == [item |-> p, key |-> OrderKey(p, remainingTime[p])]

KeyedQueue == [i \in DOMAIN readyQueue |-> Keyed(readyQueue[i])]

(* Between the push of an expired process and the choice of the next no    *)
(* process is out of the queue.                                            *)
TakenOut == IF spc = "switch" THEN NULL ELSE currentProcess

Queue == INSTANCE ReadyQueue WITH
    Items <- Procs, NoItem <- NULL, Keys <- Int, queue <- KeyedQueue, chosen <- TakenOut

KeyedEntries == [item : Entries, key : Int]

LEMMA KeyedType ==
    ASSUME Inv, NEW p \in Entries
    PROVE  Keyed(p) \in KeyedEntries
  <1>1. remainingTime[p] \in Int
    BY EndContext
  <1>2. OrderKey(p, remainingTime[p]) \in Int
    BY <1>1, KeyIsInt DEF OrderKey
  <1> QED
    BY <1>2 DEF Keyed, KeyedEntries

LEMMA KeyedShape ==
    ASSUME Inv
    PROVE  /\ KeyedQueue \in Seq(KeyedEntries)
           /\ Len(KeyedQueue) = Len(readyQueue)
           /\ DOMAIN KeyedQueue = 1..Len(readyQueue)
           /\ \A i \in 1..Len(readyQueue) : KeyedQueue[i] = Keyed(readyQueue[i])
  <1>1. /\ Len(readyQueue) \in Nat /\ DOMAIN readyQueue = 1..Len(readyQueue)
        /\ \A i \in 1..Len(readyQueue) : readyQueue[i] \in Entries
    BY EndContext, LenProperties
  <1>2. \A i \in 1..Len(readyQueue) : Keyed(readyQueue[i]) \in KeyedEntries
    BY <1>1, KeyedType
  <1>3. KeyedQueue \in [1..Len(readyQueue) -> KeyedEntries]
    BY <1>1, <1>2 DEF KeyedQueue
  <1>4. KeyedQueue \in Seq(KeyedEntries)
    BY <1>1, <1>3, SeqDef
  <1>5. DOMAIN KeyedQueue = 1..Len(readyQueue) /\ Len(KeyedQueue) \in Nat
    BY <1>3, <1>4, LenProperties
  <1>6. Len(KeyedQueue) = Len(readyQueue)
    <2>1. 1..Len(KeyedQueue) = 1..Len(readyQueue)
      BY <1>4, <1>5, LenProperties
    <2> QED
      BY <1>1, <1>5, <2>1
  <1> QED
    BY <1>1, <1>4, <1>5, <1>6 DEF KeyedQueue

(* Where pushToReadyQueue puts a process is where the abstract queue does: *)
(* behind the entries whose key is not greater.                            *)
LEMMA PushInserts ==
    ASSUME Inv, QueueInv, NEW p \in Entries, NEW r \in Int, pushToReadyQueue(p, r),
           pcbState[p] # "READY", UNCHANGED argVars,
           remainingTime' = [remainingTime EXCEPT ![p] = r]
    PROVE  KeyedQueue' = Queue!Inserted(p, OrderKey(p, r))
  <1> DEFINE n == Len(readyQueue)
             e == [item |-> p, key |-> OrderKey(p, r)]
             place == CHOOSE l \in 0..Len(KeyedQueue) :
                        \A j \in 1..Len(KeyedQueue) :
                          j > l <=> KeyedQueue[j].key > OrderKey(p, r)
  <1>1. PICK i \in 0..n :
             /\ DOMAIN readyQueue' = 1..(n + 1)
             /\ \A k \in DOMAIN readyQueue' :
                  readyQueue'[k] = IF k <= i THEN readyQueue[k]
                                   ELSE IF k = i + 1 THEN p ELSE readyQueue[k - 1]
             /\ \A j \in 1..n : j > i <=> Precedes(p, r, readyQueue[j])
    BY PushShape, EndContext
  <1>2. n \in Nat /\ i \in Nat /\ i <= n /\ \A k \in 1..n : readyQueue[k] \in Entries
    BY <1>1, EndContext, LenProperties
  <1>3. OrderKey(p, r) \in Int
    BY KeyIsInt DEF OrderKey
  <1>4. ASSUME NEW j \in 1..n PROVE j > i <=> KeyedQueue[j].key > OrderKey(p, r)
    <2>1. /\ KeyedQueue[j].key = OrderKey(readyQueue[j], remainingTime[readyQueue[j]])
          /\ OrderKey(readyQueue[j], remainingTime[readyQueue[j]]) \in Int
      BY <1>2, KeyedShape, KeyedType DEF Keyed, KeyedEntries
    <2>2. j > i <=> Precedes(p, r, readyQueue[j])
      BY <1>1
    <2> QED
      BY <1>3, <2>1, <2>2 DEF Precedes, OrderKey
  <1>5. place = i
    <2>1. \A j \in 1..n : j > i <=> KeyedQueue[j].key > OrderKey(p, r)
      BY <1>4
    <2>2. \A l \in 0..n : (\A j \in 1..n : j > l <=> KeyedQueue[j].key > OrderKey(p, r)) => l = i
      <3> SUFFICES ASSUME NEW l \in 0..n, l # i,
                          \A j \in 1..n : j > l <=> KeyedQueue[j].key > OrderKey(p, r)
                   PROVE  FALSE
        OBVIOUS
      <3>1. CASE l < i
        BY <1>2, <2>1, <3>1
      <3>2. CASE l > i
        <4>1. l \in 1..n /\ l > i /\ ~(l > l)
          BY <1>2, <3>2
        <4> QED
          BY <2>1, <4>1
      <3> QED
        BY <1>2, <3>1, <3>2
    <2>3. Len(KeyedQueue) = n
      BY KeyedShape
    <2> QED
      BY <2>1, <2>2, <2>3
  <1>7. Queue!Inserted(p, OrderKey(p, r)) = PutIn(KeyedQueue, i, e)
    <2> HIDE DEF place
    <2> QED
      BY <1>5 DEF Queue!Inserted, PutIn, place
  <1>8. /\ PutIn(KeyedQueue, i, e) \in Seq(KeyedEntries)
        /\ DOMAIN PutIn(KeyedQueue, i, e) = 1..(n + 1)
        /\ \A k \in 1..(n + 1) :
             PutIn(KeyedQueue, i, e)[k] = IF k <= i THEN KeyedQueue[k]
                                          ELSE IF k = i + 1 THEN e ELSE KeyedQueue[k - 1]
    <2>1. e \in KeyedEntries
      BY <1>3 DEF KeyedEntries
    <2>2. KeyedQueue \in Seq(KeyedEntries) /\ i \in 0..Len(KeyedQueue) /\ Len(KeyedQueue) = n
      BY <1>2, KeyedShape
    <2>3. ASSUME NEW q \in Seq(KeyedEntries), NEW x \in KeyedEntries, NEW m \in 0..Len(q)
          PROVE  /\ PutIn(q, m, x) \in Seq(KeyedEntries)
                 /\ DOMAIN PutIn(q, m, x) = 1..(Len(q) + 1)
                 /\ \A k \in 1..(Len(q) + 1) :
                      PutIn(q, m, x)[k] = IF k <= m THEN q[k]
                                          ELSE IF k = m + 1 THEN x ELSE q[k - 1]
      <3>1. /\ PutIn(q, m, x) \in Seq(KeyedEntries)
            /\ DOMAIN PutIn(q, m, x) = 1..(Len(q) + 1)
            /\ \A k \in DOMAIN PutIn(q, m, x) :
                      PutIn(q, m, x)[k] = IF k <= m THEN q[k]
                                          ELSE IF k = m + 1 THEN x ELSE q[k - 1]
        BY InsertedShape
      <3> QED
        BY <3>1
    <2> HIDE DEF e, n
    <2> QED
      BY <2>1, <2>2, <2>3
  (* The entries that were there keep their keys.                          *)
  <1>9. \A q \in Entries : q # p => Keyed(q)' = Keyed(q)
    BY EndContext DEF Keyed, OrderKey, HeapKey, argVars
  <1>10. Keyed(p)' = e
    BY EndContext DEF Keyed, OrderKey, HeapKey, argVars
  <1>11. \A k \in 1..n : readyQueue[k] # p /\ KeyedQueue[k] = Keyed(readyQueue[k])
    <2>1. \A k \in 1..n : KeyedQueue[k] = Keyed(readyQueue[k])
      BY KeyedShape
    <2>2. \A k \in 1..n : readyQueue[k] # p
      BY <1>2, EndContext DEF QueueInv, OnlyReady
    <2> QED
      BY <2>1, <2>2
  <1>12. ASSUME NEW k \in 1..(n + 1)
         PROVE  Keyed(readyQueue[k])' = PutIn(KeyedQueue, i, e)[k]
    <2>1. CASE k <= i
      <3>1. k \in 1..n
        BY <1>2, <2>1
      <3>2. readyQueue'[k] = readyQueue[k] /\ PutIn(KeyedQueue, i, e)[k] = KeyedQueue[k]
        BY <1>1, <1>8, <2>1
      <3> QED
        BY <1>2, <1>9, <1>11, <3>1, <3>2
    <2>2. CASE k = i + 1
      <3>1. ~(k <= i)
        BY <1>2, <2>2
      <3>2. readyQueue'[k] = p /\ PutIn(KeyedQueue, i, e)[k] = e
        BY <1>1, <1>8, <2>2, <3>1
      <3> QED
        BY <1>10, <3>2
    <2>3. CASE k > i + 1
      <3>1. k - 1 \in 1..n /\ ~(k <= i) /\ k # i + 1
        BY <1>2, <2>3
      <3>2. /\ readyQueue'[k] = readyQueue[k - 1]
            /\ PutIn(KeyedQueue, i, e)[k] = KeyedQueue[k - 1]
        BY <1>1, <1>8, <3>1
      <3> QED
        BY <1>2, <1>9, <1>11, <3>1, <3>2
    <2>4. k <= i \/ k = i + 1 \/ k > i + 1
      BY <1>2
    <2> QED
      BY <2>1, <2>2, <2>3, <2>4
  <1>13. KeyedQueue' = PutIn(KeyedQueue, i, e)
    <2>1. KeyedQueue' = [k \in 1..(n + 1) |-> Keyed(readyQueue[k])']
      BY <1>1 DEF KeyedQueue
    <2>2. PutIn(KeyedQueue, i, e) = [k \in 1..(n + 1) |-> PutIn(KeyedQueue, i, e)[k]]
      BY <1>8, LenProperties
    <2> QED
      BY <1>12, <2>1, <2>2
  <1> QED
    BY <1>7, <1>13

(* What schedule() hands out is the head of the abstract queue.            *)
LEMMA ScheduleTakes ==
    ASSUME Inv, QueueInv, NEW i \in DOMAIN readyQueue, FirstReady(i),
           readyQueue' = AfterEntry(i), UNCHANGED argVars, remainingTime' = remainingTime
    PROVE  /\ KeyedQueue # <<>>
           /\ Head(KeyedQueue).item = readyQueue[i]
           /\ KeyedQueue' = Tail(KeyedQueue)
  <1> DEFINE n == Len(readyQueue)
  <1>1. i = 1
    BY FirstIsFirst, EndContext
  <1>2. n \in Nat /\ DOMAIN readyQueue = 1..n /\ n >= 1
    BY EndContext, LenProperties
  <1>3. Len(KeyedQueue) = n /\ KeyedQueue \in Seq(KeyedEntries) /\ KeyedQueue # <<>>
    BY <1>2, KeyedShape, EmptySeq
  <1>4. Head(KeyedQueue) = Keyed(readyQueue[1])
    BY <1>2, <1>3, KeyedShape
  <1>5. /\ Tail(KeyedQueue) \in Seq(KeyedEntries) /\ Len(Tail(KeyedQueue)) = n - 1
        /\ \A k \in 1..(n - 1) : Tail(KeyedQueue)[k] = KeyedQueue[k + 1]
    BY <1>3, HeadTailProperties
  <1>6. /\ DOMAIN readyQueue' = 1..(n - 1)
        /\ \A k \in 1..(n - 1) : readyQueue'[k] = readyQueue[1 + k]
    BY <1>1, AfterShape, EndContext
  <1>7. \A p : Keyed(p)' = Keyed(p)
    BY DEF Keyed, OrderKey, HeapKey, argVars
  <1>8. ASSUME NEW k \in 1..(n - 1) PROVE Keyed(readyQueue[k])' = Tail(KeyedQueue)[k]
    <2>1. k + 1 \in 1..n /\ k + 1 = 1 + k
      BY <1>2
    <2>2. Tail(KeyedQueue)[k] = Keyed(readyQueue[k + 1])
      BY <1>5, <2>1, KeyedShape
    <2>3. readyQueue'[k] = readyQueue[k + 1]
      BY <1>6, <2>1
    <2> QED
      BY <1>7, <2>2, <2>3
  <1>9. KeyedQueue' = Tail(KeyedQueue)
    <2>1. KeyedQueue' = [k \in 1..(n - 1) |-> Keyed(readyQueue[k])']
      BY <1>6 DEF KeyedQueue
    <2>2. Tail(KeyedQueue) = [k \in 1..(n - 1) |-> Tail(KeyedQueue)[k]]
      BY <1>5, LenProperties
    <2> QED
      BY <1>8, <2>1, <2>2
  <1> QED
    BY <1>1, <1>3, <1>4, <1>9 DEF Keyed

LEMMA KeyedFrame ==
    ASSUME UNCHANGED <<readyQueue, remainingTime>>, UNCHANGED argVars
    PROVE  KeyedQueue' = KeyedQueue
  BY DEF KeyedQueue, Keyed, OrderKey, HeapKey, argVars

(* Each step of the scheduler is one operation on the queue, or none.      *)
LEMMA QueueScheduler ==
    ASSUME Inv, ServiceInv, ReadyKept, QueueInv, UNCHANGED argVars, SchedulerRun
    PROVE  [Queue!Next]_(Queue!vars)
  <1> USE DEF SchedulerRun
  <1>1. CASE BeginTick
    <2>1. /\ spc = "top" /\ spc' # "switch" /\ UNCHANGED <<readyQueue, currentProcess>>
          /\ \A p \in Procs : p # currentProcess => remainingTime'[p] = remainingTime[p]
      BY <1>1, EndContext DEF BeginTick, At
    <2>2. \A i \in DOMAIN readyQueue : readyQueue[i] # currentProcess /\ readyQueue[i] \in Procs
      BY <2>1, EndContext DEF QueueInv, OnlyReady, ServiceInv
    <2>3. \A i \in DOMAIN readyQueue : Keyed(readyQueue[i])' = Keyed(readyQueue[i])
      BY <2>1, <2>2 DEF Keyed, OrderKey, HeapKey, argVars
    <2>4. KeyedQueue' = KeyedQueue
      BY <2>1, <2>3 DEF KeyedQueue
    <2>5. TakenOut' = TakenOut
      BY <2>1 DEF TakenOut
    <2> QED
      BY <2>4, <2>5 DEF Queue!vars
  <1>2. CASE handleProcessExit
    <2>1. /\ currentProcess' = NULL /\ UNCHANGED <<readyQueue, remainingTime>>
          /\ spc' # "switch"
      BY <1>2 DEF handleProcessExit
    <2>2. KeyedQueue' = KeyedQueue /\ TakenOut' = NULL
      BY <2>1, KeyedFrame DEF TakenOut
    <2> QED
      BY <2>2 DEF Queue!Next, Queue!Leave
  <1>3. CASE ReceiveProcess
    <2>1. PICK q : /\ q = Head(pcbQueue) /\ q \notin Marks /\ pcbQueue # <<>>
                   /\ pushToReadyQueue(q, Work(q))
                   /\ remainingTime' = [remainingTime EXCEPT ![q] = Work(q)]
      BY <1>3 DEF ReceiveProcess
    <2>2. q \in Entries /\ q \in Procs /\ 1 \in DOMAIN pcbQueue /\ q = pcbQueue[1]
      BY <2>1, EndContext
    <2>3. pcbState[q] # "READY"
      BY <2>1, <2>2 DEF Inv, OnTheWay, MessagesFresh
    <2>4. Work(q) \in Int
      BY <2>2, WorkloadFacts DEF Work, ProcessData, Inv, TypeInv, TypeOK, KernelTypeOK
    <2>5. KeyedQueue' = Queue!Inserted(q, OrderKey(q, Work(q)))
      BY <2>1, <2>2, <2>3, <2>4, PushInserts
    <2>6. OrderKey(q, Work(q)) \in Int
      BY <2>2, <2>4, KeyIsInt DEF OrderKey
    <2>7. TakenOut' = TakenOut
      BY <1>3 DEF ReceiveProcess, TakenOut
    <2> QED
      BY <2>2, <2>5, <2>6, <2>7 DEF Queue!Next, Queue!Add
  <1>4. CASE ExpireQuantum
    <2>1. /\ spc = "quantum" /\ remainingTime' = remainingTime
          /\ currentProcess' = currentProcess
      BY <1>4 DEF ExpireQuantum, At
    <2>2. CASE spc' = "dispatch" /\ UNCHANGED readyQueue
      <3>1. KeyedQueue' = KeyedQueue /\ TakenOut' = TakenOut
        BY <2>1, <2>2, KeyedFrame DEF TakenOut
      <3> QED
        BY <3>1 DEF Queue!vars
    <2>3. CASE /\ currentProcess # NULL /\ spc' = "switch"
               /\ pushToReadyQueue(currentProcess, remainingTime[currentProcess])
      <3>1. currentProcess \in Entries /\ currentProcess \in Procs
        BY <2>3, EndContext
      <3>2. pcbState[currentProcess] # "READY"
        BY <2>1, <2>3 DEF ServiceInv
      <3>3. /\ remainingTime[currentProcess] \in Int
            /\ remainingTime' = [remainingTime EXCEPT ![currentProcess]
                                                      = remainingTime[currentProcess]]
        BY <2>1, <3>1, EndContext
      <3>4. KeyedQueue' = Queue!Inserted(currentProcess,
                                         OrderKey(currentProcess, remainingTime[currentProcess]))
        BY <2>3, <3>1, <3>2, <3>3, PushInserts
      <3>5. OrderKey(currentProcess, remainingTime[currentProcess]) \in Int
        BY <3>1, <3>3, KeyIsInt DEF OrderKey
      <3>6. TakenOut = currentProcess /\ TakenOut' = NULL
        BY <2>1, <2>3 DEF TakenOut
      <3>7. Queue!PutBack(OrderKey(currentProcess, remainingTime[currentProcess]))
        BY <2>3, <3>4, <3>6 DEF Queue!PutBack
      <3> QED
        BY <3>5, <3>7 DEF Queue!Next
    <2> QED
      BY <1>4, <2>2, <2>3 DEF ExpireQuantum
  <1>5. CASE SwitchProcess
    <2>1. PICK i \in DOMAIN readyQueue :
            /\ FirstReady(i)
            /\ readyQueue' = AfterEntry(i) /\ remainingTime' = remainingTime
            /\ currentProcess' = readyQueue[i]
      BY <1>5 DEF SwitchProcess
    <2>2. TakenOut = NULL /\ TakenOut' = readyQueue[i]
      BY <1>5, <2>1 DEF SwitchProcess, At, TakenOut
    <2>3. /\ KeyedQueue # <<>> /\ Head(KeyedQueue).item = readyQueue[i]
          /\ KeyedQueue' = Tail(KeyedQueue)
      BY <2>1, ScheduleTakes
    <2> QED
      BY <2>2, <2>3 DEF Queue!Next, Queue!Take, Queue!TakeFrom
  <1>6. CASE KeepProcess
    <2>1. /\ spc = "switch" /\ spc' = "dispatch" /\ remainingTime' = remainingTime
          /\ currentProcess' = currentProcess
      BY <1>6 DEF KeepProcess, At
    <2>2. ~NoneReady
      <3>1. currentProcess \in Procs /\ pcbState[currentProcess] = "READY"
        BY <2>1, EndContext DEF ServiceInv, Inv, TypeInv, LoopsWellPlaced
      <3> QED
        BY <3>1 DEF ReadyKept, In, NoneReady
    <2>3. PICK i \in DOMAIN readyQueue :
            FirstReady(i) /\ readyQueue[i] = currentProcess /\ readyQueue' = AfterEntry(i)
      BY <1>6, <2>2 DEF KeepProcess
    <2>4. /\ KeyedQueue # <<>> /\ Head(KeyedQueue).item = currentProcess
          /\ KeyedQueue' = Tail(KeyedQueue)
      BY <2>1, <2>3, ScheduleTakes
    <2>5. TakenOut = NULL /\ TakenOut' = currentProcess
      BY <2>1 DEF TakenOut
    <2> QED
      BY <2>4, <2>5 DEF Queue!Next, Queue!Take, Queue!TakeFrom
  <1>7. CASE Dispatch
    <2>1. PICK i \in DOMAIN readyQueue :
            /\ FirstReady(i)
            /\ readyQueue' = AfterEntry(i) /\ remainingTime' = remainingTime
            /\ currentProcess' = readyQueue[i]
      BY <1>7 DEF Dispatch
    <2>2. TakenOut = NULL /\ TakenOut' = readyQueue[i]
      BY <1>7, <2>1 DEF Dispatch, At, TakenOut
    <2>3. /\ KeyedQueue # <<>> /\ Head(KeyedQueue).item = readyQueue[i]
          /\ KeyedQueue' = Tail(KeyedQueue)
      BY <2>1, ScheduleTakes
    <2> QED
      BY <2>2, <2>3 DEF Queue!Next, Queue!Take, Queue!TakeFrom
  <1>8. CASE EndIdleTick
    <2>1. /\ spc = "dispatch" /\ spc' # "switch" /\ NoneReady /\ readyQueue' = <<>>
          /\ UNCHANGED <<remainingTime, currentProcess>>
      BY <1>8 DEF EndIdleTick, At
    <2>2. DOMAIN readyQueue = {}
      BY <2>1 DEF NoneReady, QueueInv, OnlyReady
    <2>3. readyQueue = <<>>
      BY <2>2, EndContext
    <2>4. KeyedQueue' = KeyedQueue /\ TakenOut' = TakenOut
      BY <2>1, <2>3, KeyedFrame DEF TakenOut
    <2> QED
      BY <2>4 DEF Queue!vars
  <1>9. CASE fetchProcessFromQueue \/ ReceiveMark \/ EndBusyTick
    <2>1. /\ UNCHANGED <<readyQueue, remainingTime, currentProcess>>
          /\ spc # "switch" /\ spc' # "switch"
      BY <1>9 DEF fetchProcessFromQueue, ReceiveMark, EndBusyTick, At
    <2>2. KeyedQueue' = KeyedQueue /\ TakenOut' = TakenOut
      BY <2>1, KeyedFrame DEF TakenOut
    <2> QED
      BY <2>2 DEF Queue!vars
  <1> QED
    BY <1>1, <1>2, <1>3, <1>4, <1>5, <1>6, <1>7, <1>8, <1>9 DEF runScheduler

(* The composition uses its ready queue as ReadyQueue allows: it inserts   *)
(* behind what goes first and takes only from the head.  This is the queue *)
(* that ReadyStore shows of the ring and the heap.                         *)
THEOREM ReadyQueueImplemented == Spec => Queue!Spec
  <1>1. Init => Queue!Init
    BY DEF Init, SchedulerInit, Queue!Init, KeyedQueue, TakenOut
  <1>2. ASSUME Inv, ServiceInv, ReadyKept, QueueInv, [Next]_vars
        PROVE  [Queue!Next]_(Queue!vars)
    <2>1. UNCHANGED argVars
      BY <1>2, ArgumentsFixed
    <2>2. CASE ~SchedulerRun
      <3>1. UNCHANGED <<spc, currentProcess, readyQueue, remainingTime>>
        BY <1>2, <2>2, SchedulerOnly
      <3>2. KeyedQueue' = KeyedQueue /\ TakenOut' = TakenOut
        BY <2>1, <3>1, KeyedFrame DEF TakenOut
      <3> QED
        BY <3>2 DEF Queue!vars
    <2> QED
      BY <1>2, <2>1, <2>2, QueueScheduler
  <1> QED
    BY <1>1, <1>2, InvInductive, ServiceInvHolds, ReadyKeptHolds, QueueInvHolds, PTL
       DEF Spec, Queue!Spec

-----------------------------------------------------------------------------
(* The composition keeps to Memory.                                        *)

(* What the composition asks of the allocator: each allocation is for one  *)
(* who has no block, and it succeeds.                                      *)
AllocatorCall ==
    \/ \E p \in Procs : freeMemory(p)
    \/ destroyMemory
    \/ \E p \in Procs, n \in 1..TotalMemory :
          held[p] = NoBlock /\ canAllocate(n) /\ allocateMemory(p, n)

LEMMA AllocatorStep ==
    ASSUME Inv, MemoryInv, [Next]_vars
    PROVE  [AllocatorCall]_held
  <1>0. TypeInv
    BY DEF Inv
  <1>1. CASE ~GeneratorSignal /\ ~GeneratorRun
    BY <1>1
       DEF Next, vars, Tick, IncrementClk, Signal, SignalGroup, outsideClk, ProcessRun,
           SchedulerSignal, SchedulerRun, generatorVars
  <1>2. CASE GeneratorSignal
    <2>1. ASSUME NEW p \in Procs, ReapProcess(p) PROVE AllocatorCall
      BY <2>1 DEF ReapProcess, AllocatorCall
    <2>2. CASE ReapScheduler
      BY <2>2 DEF ReapScheduler, pgClearResources, AllocatorCall
    <2>3. CASE pgClkHandler \/ EnterCheckChild \/ LeaveCheckChild
      BY <2>3 DEF pgClkHandler, EnterCheckChild, LeaveCheckChild
    <2> QED
      BY <1>2, <2>1, <2>2, <2>3 DEF GeneratorSignal, checkChildProcess
  <1>3. CASE Allocate
    <2>1. pgc = "allocate" /\ allocateMemory(pdata, Size(pdata))
      BY <1>3 DEF Allocate, AtLoop, Size
    <2>2. OnlyHolders /\ Promised
      BY <2>1 DEF MemoryInv
    <2>3. pdata \in Entries /\ pdata \in Procs
      BY <1>0, <2>1, MemoryContext
    <2>4. held[pdata] = NoBlock
      BY <2>1, <2>2, <2>3 DEF OnlyHolders, Holds
    <2>5. canAllocate(Size(pdata))
      BY <2>1, <2>2, RoomIsAnswer DEF Promised
    <2>6. Size(pdata) \in 1..TotalMemory
      <3>1. PICK b \in Blocks : RoundedUp(b, Size(pdata))
        BY <2>5 DEF canAllocate, FreeBlocks
      <3>2. b.size \in 1..TotalMemory
        BY <3>1 DEF Blocks
      <3>3. Size(pdata) \in Nat \ {0}
        BY <1>0, <2>3, WorkloadFacts DEF TypeInv, TypeOK, KernelTypeOK, ProcessData, Size
      <3> QED
        BY <3>1, <3>2, <3>3, ConstantsAssumption DEF RoundedUp
    <2> QED
      BY <2>1, <2>3, <2>4, <2>5, <2>6 DEF AllocatorCall
  <1>4. CASE \/ DownTick \/ DownScheduler \/ Arrive \/ NoArrival \/ Scan \/ forkProcess
             \/ SendProcess \/ EndScan \/ EndRound \/ WaitScheduler
    BY <1>4
       DEF DownTick, AfterTick, DownScheduler, Arrive, NoArrival, Scan, forkProcess,
           SendProcess, EndScan, EndRound, WaitScheduler
  <1> QED
    BY <1>1, <1>2, <1>3, <1>4 DEF GeneratorRun, runProcessGenerator

(* The composition calls the allocator as Memory allows, which BuddyTree   *)
(* shows of the tree, and more carefully than it must: nobody is given a   *)
(* second block, of which freeMemory would find one, and no request fails. *)
THEOREM AllocatorUsed == Spec => MemorySpec /\ [][AllocatorCall]_held
  <1>1. Init => MemoryInit
    BY DEF Init, GeneratorInit
  <1>2. Inv /\ MemoryInv /\ [Next]_vars => [AllocatorCall]_held
    BY AllocatorStep
  <1>3. [AllocatorCall]_held => [MemoryNext]_held
    <2>1. \A n : n \in 1..TotalMemory => n \in 1..(TotalMemory + 1)
      BY ConstantsAssumption
    <2> QED
      BY <2>1 DEF AllocatorCall, MemoryNext
  <1> QED
    BY <1>1, <1>2, <1>3, InvInductive, MemoryInvHolds, PTL DEF Spec, MemorySpec
=============================================================================
