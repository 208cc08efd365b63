SPECIFICATION Spec
CONSTANTS
    Coroutines = {a, b}
    d = d
    r1 = r1
    Regs = {r1, r2}
    Fd = 3
    MaxArrivals = 2
    MaxReported = 1
    Wds = {1, 2}
    MaxHappen = 3
    MaxLossy = 2
    BufEvents = 2
    MaxCalls = 3
    MaxConns = 3
SYMMETRY CoroutineSymmetry
CHECK_DEADLOCK FALSE
INVARIANTS
    NoLostReadiness
    EventsFindTheirCallback
    EventsOnceInOrder
    WaitersNotOvertaken
PROPERTIES
    ImplementsInterface
