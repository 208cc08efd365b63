SPECIFICATION Spec
CONSTANTS
    MaxSyscalls = 4
    RequestSize = 2
    ResponseSize = 2
    ToFdCapacity = 3
    FromFdCapacity = 5
    Faults = {"close_interface", "die", "lost"}
CHECK_DEADLOCK FALSE
INVARIANTS
    TypeOK
    ReturnsOwnResult
    PerformedInOrder
    ErrorsArePermanent
    CallersHeldOnce
PROPERTY
    ImplementsInterface
