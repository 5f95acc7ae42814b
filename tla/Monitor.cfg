CONSTANTS
    MaxPid = 3
    MaxEvents = 3
    FirstCap = 1
    Budgets <- FailOrPass
SPECIFICATION FairSpec
INVARIANTS
    SamplesSorted
    NoOverrun
    EventsTellMembership
    CpuBounded
PROPERTIES
    NobodyMissed
    EventsAreReal
    SweepEnds
