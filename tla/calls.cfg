SPECIFICATION Spec
CONSTANTS
    a = a
    b = b
    MaxSyscalls = 3
    RequestSize = 2
    ResponseSize = 1
    ToFdCapacity = 2
    FromFdCapacity = 2
    N = 3
    MaxRequests = 2
    MaxRuns = 4
    MaxEvents = 4
    Native = {n1, n2}
    Trio = {t1, t2}
    MaxShifts = 2
CHECK_DEADLOCK FALSE
INVARIANTS
    WrittenCallsReturn
    HeldOnce
    Accounted
    OwnAnswer
PROPERTIES
    EveryCallAnswered
