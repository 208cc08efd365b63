SPECIFICATION Spec
CONSTANTS
    MaxCalls = 2
    MaxConns = 2
    Faults = {"partial"}
CHECK_DEADLOCK FALSE
INVARIANTS
    PerformedOnce
