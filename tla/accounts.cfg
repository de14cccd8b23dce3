CONSTANTS
    Workers = {w1, w2}
    Null = Null
    MaxAttempts = 2
    WindowSeconds = 1
    DurationSeconds = 1
    MaxTime = 3
    MaxFailures = 4
    Passwords = {p1, p2}
    Changers = {x1, x2}
    Challenges = {k1, k2}
    ChallengeTTL = 1
SPECIFICATION MCSpec
SYMMETRY Symmetry
CHECK_DEADLOCK FALSE
INVARIANTS
    AccTypeOK
    GuessBound
    NoSessionBeforeChange
    OldPasswordStaysOut
PROPERTIES
    ChangeIsFinal
