CONSTANTS
    Clients = {c1, c2}
    Users = {u1, u2}
    Uris = {uri1}
    Codes = {21, 22}
    AccessIds = {1, 2, 3}
    RefreshIds = {11, 12, 13}
    Exchangers = {w1, w2}
    Rotators = {w1, w2}
    Revokers = {}
    Logins = {}
    Bearers = {}
    AdminOps = {"revokeUser", "updateClient"}
    CodeTTL = 1
    AccessTTL = 1
    RefreshTTL = 0
    AuditEnabled = FALSE
    MaxTime = 1
    None = None
    NoRow = NoRow
    Purged = Purged
    Mixes = {"rotation", "serial"}
SPECIFICATION MCSpec
SYMMETRY Symmetry
CHECK_DEADLOCK FALSE
INVARIANTS
    Lineage
    SerialSingleUse
    SerialRotatedOnce
    SerialOneLive
    SerialReplayEnds
PROPERTIES
    DeadFamilyStaysDead
    ImplementsCredentials
