CONSTANTS
    UllLimit = 16
    MaxTotal = 4
    MaxMemory = 1
    Layouts <- WithAndWithoutSwap
SPECIFICATION SystemSpec
INVARIANTS
    UsageAtMost100
