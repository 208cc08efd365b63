SPECIFICATION Spec
CONSTANTS
    Coroutines = {a, b}
    solo = solo
    Values = {v1, v2}
    Size = 2
    MaxPtrs = 3
    Alignment = 1
    MaxBytes = 2
    MaxTransfers = 4
SYMMETRY Symmetry
CHECK_DEADLOCK FALSE
INVARIANTS
    ArenasOrdered
    EveryAllocationOwned
    OneOwner
    WrittenHoldsValue
    BatchReturnsDirect
    OwnBytes
