CONSTANTS
    Workers = {w1}
    Null = Null
    MaxAttempts = 3
    WindowSeconds = 1
    DurationSeconds = 1
    MaxTime = 4
    MaxFailures = 4
SPECIFICATION Spec
CHECK_DEADLOCK FALSE
PROPERTIES
    LockOnlyAfterBurst
