CONSTANTS
    Clients = {c1}
    Users = {u1}
    Uris = {uri1}
    Codes = {21}
    AccessIds = {1, 2, 3}
    RefreshIds = {11, 12, 13}
    Exchangers = {w1, w2}
    Rotators = {w1, w2}
    Revokers = {}
    Logins = {}
    Bearers = {}
    AdminOps = {}
    CodeTTL = 1
    AccessTTL = 1
    RefreshTTL = 1
    AuditEnabled = FALSE
    MaxTime = 1
    None = None
    NoRow = NoRow
    Purged = Purged
    Mixes = {"rotation"}
SPECIFICATION MCSpec
SYMMETRY Symmetry
CHECK_DEADLOCK FALSE
INVARIANTS
    ReplayEndsFamily
