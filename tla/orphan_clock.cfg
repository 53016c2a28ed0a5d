SPECIFICATION OrphanSpec
CONSTANTS
    MaxInterrupts = 0
    MaxCrashes = 0
INVARIANT FirstTickIsZero
CHECK_DEADLOCK FALSE
