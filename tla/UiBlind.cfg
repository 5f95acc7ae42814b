CONSTANTS
    MaxPid = 3
    MaxCpu = 1
    Heights = {9, 11}
    PageSize = 2
SPECIFICATION Spec
PROPERTIES
    SignalsAreShown
