CONSTANTS
    r1 = r1
    r2 = r2
    Requests <- TwoRequests
    CacheTTL = 2
    MaxDelay = 1
    MaxTouches = 2
    RedisFails = FALSE
    DbFails = FALSE
SPECIFICATION HSpec
PROPERTY RevokeIsInstant
