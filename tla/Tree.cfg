CONSTANTS
    MaxPid = 4
    Heights = {12, 14, 17}
    Names <- TrickyNames
    NameSize = 3
    PrefixMax = 6
    MaxForks = 4
    SizeLimit = 7
    LargestPid = 7
    MaxCount = 6
SPECIFICATION TreeAndLookups
INVARIANTS
    TreeIsRight
    HierarchyShown
    NothingOverrun
    RootedAreDrawn
    Correct
PROPERTIES
    EntriesAreTrue
    DrawingEnds
    ProbesHalve
CHECK_DEADLOCK FALSE
