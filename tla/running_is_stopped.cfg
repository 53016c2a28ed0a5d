SPECIFICATION Spec
CONSTANTS
    MaxProcs = 3
    Workloads <- FewWorkloads
    SchedulerTypes = {2}
    Quanta <- NoQuantum
    TotalMemory = 4
    MaxClk = 9
    Overrun = FALSE
INVARIANTS
    RunningRuns
CHECK_DEADLOCK FALSE
