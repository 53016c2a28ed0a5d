SPECIFICATION FairSpec
CONSTANTS
    MaxProcs = 3
    Workloads <- TimelyWorkloads
    SchedulerTypes = {0, 1, 2}
    Quanta <- AllQuanta
    TotalMemory = 4
    MaxClk = 9
    Overrun = FALSE
INVARIANTS
    TypeOK
    Rendezvous
    AllocatorExclusion
    OneProcessRuns
    TerminationIsExpected
    ReadyQueueExact
    NothingLostOrDuplicated
    MemoryOwnership
    NoneFits
    WorkAccounting
    TimesAgree
    EndsWhenAllDone
    NoMissedArrival
    PolicyObeyed
PROPERTIES
    ChoiceObeysPolicy
    ImplementsService
    Completion
CHECK_DEADLOCK FALSE
