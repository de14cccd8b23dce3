CONSTANTS
    Requests = {w1, w2, w3}
    None = None
    Burst = 2
    Cost = 2
    TTL = 5
    MaxStall = 1
    MaxTime = 7
    MaxLimiters = 2
    MaxDebt = 6
    Scripts = {s1, s2, s3}
    Tokens = {t1, t2, t3}
    NoToken = NoToken
    RowIds = {1, 2, 3}
    Ids = {i1}
    ZeroId = ZeroId
    Absent = Absent
    Gone = Gone
    Limits = {1, 2}
    Offsets = {0, 4}
    IntWidth = 3
    MaxLeft = 2
SPECIFICATION MCSpec
CHECK_DEADLOCK FALSE
INVARIANTS
    ApiTypeOK
    RateBound
    SettledNeverRefused
    MissesOnlyWhatLeft
    ListedByName
PROPERTIES
    RetryAfterHonest
