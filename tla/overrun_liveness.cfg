SPECIFICATION FairSpec
CONSTANTS
    MaxProcs = 2
    Workloads <- ShortWorkloads
    SchedulerTypes = {0}
    Quanta = {1}
    TotalMemory = 4
    MaxClk = 3
    Overrun = TRUE
PROPERTIES
    GeneratorFollows
CHECK_DEADLOCK FALSE
