SPECIFICATION Spec
CONSTANTS
    MaxProcs = 3
    Workloads <- FewWorkloads
    SchedulerTypes = {2}
    Quanta <- NoQuantum
    TotalMemory = 4
    MaxClk = 9
    Overrun = TRUE
INVARIANTS
    NoMissedArrival
CHECK_DEADLOCK FALSE
