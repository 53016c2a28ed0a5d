SPECIFICATION Spec
CONSTANTS
    MaxInterrupts = 0
    MaxCrashes = 0
INVARIANT QueueCleaned
CHECK_DEADLOCK FALSE
