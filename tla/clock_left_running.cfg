SPECIFICATION Spec
CONSTANTS
    MaxProcs = 3
    Workloads <- FewWorkloads
    SchedulerTypes = {2}
    Quanta <- NoQuantum
    TotalMemory = 4
    MaxClk = 9
    Overrun = FALSE
INVARIANTS
    ClockReleased
CHECK_DEADLOCK FALSE
