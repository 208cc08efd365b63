SPECIFICATION Spec
CONSTANTS
    Coroutines = {a, b}
    r1 = r1
CHECK_DEADLOCK FALSE
PROPERTIES
    WaitersResume
