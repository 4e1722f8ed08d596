CONSTANTS
    r1 = r1
    r2 = r2
    Requests <- TwoRequests
    CacheTTL = 3
    MaxDelay = 1
    MaxTouches = 2
    RedisFails = TRUE
    DbFails = TRUE
SPECIFICATION HSpec
INVARIANT TypeOK
PROPERTIES AcceptanceBounded RejectionBounded RevokedUnlessRacing
SYMMETRY RequestSymmetry
