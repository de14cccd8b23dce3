CONSTANTS
    Clients = {c1, c2}
    ProviderIds = {p1, p2}
    Names = {n1}
    Uris = {uri1, uri2}
    Hashes = {h1, h2, h3}
    Secrets = {s1, s2}
    Admins = {m1, m2}
    Tabs = {t1, t2}
    States = {x1, x2}
    Subs = {sub1, sub2}
    Emails = {e1, e2}
    UserIds = {u1, u2}
    None = None
    NoRow = NoRow
    Deleted = Deleted
SPECIFICATION MCSpec
SYMMETRY Symmetry
CHECK_DEADLOCK FALSE
INVARIANTS
    TypeOK
    SecretReachable
    CodeGoesWhereAsked
    CodeForWhoSignedIn
PROPERTIES
    RetainsUnlessOvertaken
    ProviderIdentityFixed
    OwnersOnly
    NoCodeWhileOff
    OnlyOverlapLosesLogin
