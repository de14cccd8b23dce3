CONSTANTS
    Replicas = {r1}
    NoUser = NoUser
    MaxCrashes = 1
    MaxClients = 3
SPECIFICATION BootSpec
CHECK_DEADLOCK FALSE
PROPERTIES
    AllServeEventually
