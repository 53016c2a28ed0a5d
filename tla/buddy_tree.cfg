SPECIFICATION Spec
CONSTANTS
    MaxProcs = 3
    TotalMemory = 8
    WordBits = 16
    MaxSize = 9
INVARIANTS
    TreeWhole
PROPERTIES
    ImplementsMemory
    ProbeTruthful
