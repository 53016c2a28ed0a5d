SPECIFICATION Spec
CONSTANTS
    MaxProcs = 4
    TotalMemory = 4
    InitialCapacity = 2
    MaxWork = 2
    MaxPriority = 2
INVARIANTS
    QueueWhole
    PcbsTracked
    SegmentsRemoved
PROPERTY ImplementsReadyQueue
CHECK_DEADLOCK FALSE
