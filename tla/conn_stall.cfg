SPECIFICATION FairSpec
CONSTANTS
    MaxSyscalls = 5
    RequestSize = 1
    ResponseSize = 1
    ToFdCapacity = 1
    FromFdCapacity = 1
    Faults = {}
CHECK_DEADLOCK FALSE
PROPERTY
    EveryCallAnswered
