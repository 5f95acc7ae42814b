CONSTANTS
    MaxPid = 2
    MaxEvents = 3
    FirstCap = 1
    Budgets <- MoreTime
SPECIFICATION Spec
INVARIANTS
    SingleThreadedAtMost100
