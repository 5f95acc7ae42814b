CONSTANTS
    MaxPid = 2
    MaxEvents = 3
    FirstCap = 1
    Budgets <- FewCallsFail
SPECIFICATION Spec
PROPERTIES
    TerminatedIsGone
