CONSTANTS
    Workers = {w1}
    Null = Null
    MaxAttempts = 2
    WindowSeconds = 1
    DurationSeconds = 1
    MaxTime = 1
    MaxFailures = 4
    Passwords = {p1, p2}
    Changers = {x1}
    Challenges = {k1}
    ChallengeTTL = 1
SPECIFICATION AccSpec
CHECK_DEADLOCK FALSE
INVARIANTS
    DisabledStaysOut
