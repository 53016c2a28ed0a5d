SPECIFICATION Spec
CONSTANTS
    MaxProcs = 3
    Workloads <- FewWorkloads
    SchedulerTypes = {1}
    Quanta = {2}
    TotalMemory = 4
    MaxClk = 9
    Overrun = FALSE
INVARIANTS
    ShortestRemainingRuns
CHECK_DEADLOCK FALSE
