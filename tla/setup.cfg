SPECIFICATION Spec
CONSTANTS
    Calls = {1, 2}
    Procs = {p1, p2}
    Args = 2
    Envs = 2
    Nobody = Nobody
    Describes = 6
    Slow = TRUE
    Users = {1, 2, 3}
    SameTable = {3}
    Count = 2
    MaxChannels = 6
    Children = {1, 2}
    SharesFiles = {1}
CHECK_DEADLOCK FALSE
INVARIANTS
    ThreadIsOfProcess
    SocksMatch
    ChannelsMatch
    FreedWhenUnused
PROPERTIES
    SetupEnds
