CONSTANTS
    MinInterval = 1
    MaxInterval = 2
    InitInterval = 2
    MaxTicks = 2
    MaxKeys = 2
SPECIFICATION FairSpec
INVARIANTS
    TypeOK
    RaceFree
    ScreenIsDrawnGeneration
    NoLostWakeup
    NoUseAfterFree
PROPERTIES
    SweepsWhenDue
    SweepsInTime
    QuitExitsIfAnswered
    RefinesFeed
