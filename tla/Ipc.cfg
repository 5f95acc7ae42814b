CONSTANTS
    Workers = 3
    Messages = 3
    PipeSize = 2
    MaxFailures = 2
    MaxInterrupts = 2
SPECIFICATION FairSpec
INVARIANTS
    StreamArrives
    GroupHoldsAll
    AllReaped
PROPERTIES
    ProgramsEnd
