SPECIFICATION Spec
CONSTANTS
    Sharers = {1, 2}
    Cloners = {1}
    ChildTask = 2
    Handles = {h1, h2}
    Fds = {1, 2}
    MaxFiles = 2
    SharedCalls = 2
    OwnCalls = 1
    Root = r
    third = third
    Others = {a, b}
    MaxPid = 3
    NewPid = TRUE
    CHLD = CHLD
    Signals = {s1, s2}
    Coroutines = {x, y}
    MaxCalls = 3
    Hangups = 1
    Threads = {1, 2}
    First = 1
    Names = {"HOME", "NIX_REMOTE"}
    Values = {"unset", "a"}
    NewValues = {"b"}
    Lookups = {1, 2}
    NDirs = 3
    ChunkSize = 2
SYMMETRY Symmetry
CHECK_DEADLOCK FALSE
INVARIANTS
    HandleHasFile
    HitsOwn
    TrackedIsTrue
    ProgramGetsEnviron
    FindsFirst
