CONSTANTS
    c1 = c1
    c2 = c2
    Clients <- MCClients
    Kind <- MixedKinds
    Url <- OwnUrls
    N = 3
    HasBreaker = TRUE
    HealthCheck = FALSE
    Attempts = 2
    MaxProbes = 1
    FailureThreshold = 2
    ResetTimeout = 2
SPECIFICATION HSpec
INVARIANTS TypeOK BreakerConsistent ResendBounded BypassBounded
PROPERTY KeepsContract
