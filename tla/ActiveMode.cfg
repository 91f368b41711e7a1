SPECIFICATION LiveSpec
CONSTANTS
    Sensors = {s1, s2}
    HasHeartbeat = TRUE
PROPERTY
    ShutdownCompletes
INVARIANTS
    WaitGroupExact
