CONSTANTS
    MinInterval = 1
    MaxInterval = 3
    InitInterval = 2
    MaxTicks = 2
    MaxKeys = 2
SPECIFICATION FairSpec
PROPERTIES
    QuitExits
