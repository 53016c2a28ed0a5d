SPECIFICATION Spec
CONSTANTS
    MaxProcs = 2
    Workloads <- OverrunWorkloads
    SchedulerTypes = {0}
    Quanta = {1}
    TotalMemory = 4
    MaxClk = 3
    Overrun = TRUE
INVARIANTS
    Rendezvous
    AllocatorExclusion
    OneProcessRuns
    TerminationIsExpected
    NothingLostOrDuplicated
    MemoryOwnership
    NoneFits
    WorkAccounting
    EndsWhenAllDone
PROPERTIES
    ImplementsService
CHECK_DEADLOCK FALSE
