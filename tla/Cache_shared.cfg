CONSTANTS
    a = a
    b = b
    q1 = q1
    q2 = q2
    Keys <- TwoKeys
    Requests <- TwoRequests
    TTL = 2
    Shared = TRUE
    RedisFails = TRUE
    MaxVersion = 1
    MaxDelay = 1
SPECIFICATION HSpec
INVARIANT PurgeIsComplete
PROPERTY HitsAreFresh
SYMMETRY RequestSymmetry
