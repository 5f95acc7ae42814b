CONSTANTS
    MinInterval = 1
    MaxInterval = 3
    InitInterval = 2
    MaxTicks = 3
    MaxKeys = 2
SPECIFICATION Spec
INVARIANTS
    EveryAccessLocked
