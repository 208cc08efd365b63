SPECIFICATION Spec
CONSTANTS
    Coroutines = {c1, c2}
    OptionSets = {{"dead"}, {"stopped", "continued", "dead"}}
    MaxChanges = 3
    ReadsFirst = TRUE
    Faults = {"cancel", "hangup", "sigfd"}
CHECK_DEADLOCK FALSE
INVARIANTS
    TypeOK
    PidIsOurs
    DeathNotLost
    NoLostWakeup
