CONSTANTS
    Threads = 3
    Increments = 2
    Slots = 2
    Items = 4
    Consumers = 3
    MaxSpurious = 1
    Visitors = 3
    Permits = 2
    Readers = 3
SPECIFICATION FairSpec
INVARIANTS
    InOrder
    NobodyForgotten
    ReportsAreTrue
    OrderDecides
PROPERTIES
    AllStop
