CONSTANTS
    MaxPid = 3
    MaxCpu = 1
    Heights = {8, 11}
    PageSize = 2
    UllLimit = 16
    MaxTotal = 4
    MaxMemory = 1
    Layouts <- WithAndWithoutSwap
SPECIFICATION Screen
INVARIANTS
    IndexInRange
    HighlightIsSelected
    OnlyConfirmed
    UsageIsShare
    UsageInRange
PROPERTIES
    SelectionFollows
    SignalsSelected
