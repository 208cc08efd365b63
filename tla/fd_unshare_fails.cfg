SPECIFICATION Spec
CONSTANTS
    Tasks = {1, 2}
    Child = 0
    Fds = {1, 2}
    Handles = {h1, h2, h3}
    MaxFiles = 2
    MaxCalls = 2
    Ops = {"open", "share", "unshare"}
    Faults = {"unshare"}
CHECK_DEADLOCK FALSE
INVARIANTS
    HandleHasFile
