SPECIFICATION Spec
CHECK_DEADLOCK FALSE
INVARIANTS
    RoundTrip
    KernelAgrees
PROPERTIES
    ParsedAsWhole
