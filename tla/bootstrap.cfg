CONSTANTS
    Replicas = {r1, r2, r3}
    NoUser = NoUser
    MaxCrashes = 2
    MaxClients = 4
SPECIFICATION BootSpec
CHECK_DEADLOCK FALSE
INVARIANTS
    BootTypeOK
    AdminMustRotate
    DefaultClientsBounded
PROPERTIES
    AllServeUnlessHalfCreated
