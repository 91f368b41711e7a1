SPECIFICATION Spec
CONSTANTS
    Sensors = {s1, s2}
    HasHeartbeat = FALSE
INVARIANT
    NothingRunsAfterWait
