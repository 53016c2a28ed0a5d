SPECIFICATION Spec
CONSTANTS
    MaxInterrupts = 2
    MaxCrashes = 1
INVARIANTS
    CleanupOnce
    NoOrphan
    CleanEnd
    FirstTickIsZero
PROPERTY EveryoneEnds
CHECK_DEADLOCK FALSE
