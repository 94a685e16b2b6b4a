CONSTANTS
    MaxTime = 3
    MASTERNODE_PING_SECONDS = 1
    StackAddress = 1000
    AddrConfigured = TRUE
    Reachable = TRUE
    Funded = TRUE
    MaxLocks = 2
    VinFindsEntry = TRUE
SPECIFICATION Spec
PROPERTY EventuallyEnabled NodeKeepsAnnouncing
