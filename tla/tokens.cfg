CONSTANTS
    Clients = {c1, c2}
    Users = {u1, u2}
    Uris = {uri1}
    Codes = {21}
    AccessIds = {1, 2, 3}
    RefreshIds = {11}
    Exchangers = {w1, w2}
    Rotators = {w1, w2}
    Revokers = {w1, w2}
    Logins = {w1, w2}
    Bearers = {w1, w2}
    AdminOps = {"revokeCode", "cleanupCodes", "deleteClient", "revokeAccess", "cleanupTokens"}
    CodeTTL = 1
    AccessTTL = 1
    RefreshTTL = 1
    AuditEnabled = TRUE
    MaxTime = 2
    None = None
    NoRow = NoRow
    Purged = Purged
    Mixes = {"exchange", "revoke", "gate", "sessions", "replay"}
SPECIFICATION MCSpec
SYMMETRY Symmetry
CHECK_DEADLOCK FALSE
INVARIANTS
    TypeOK
    NoLateRedemption
    BurnBeforeMint
    RevocationAuditTruthful
    HeldIsRecorded
    NoLateAdmission
    SingleSession
PROPERTIES
    ImplementsCredentials
