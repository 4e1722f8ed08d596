CONSTANTS
    c1 = c1
    c2 = c2
    Clients <- MCClients
    Kind <- MixedKinds
    Url <- OwnUrls
    N = 2
    HasBreaker = TRUE
    HealthCheck = TRUE
    Attempts = 1
    MaxProbes = 2
    FailureThreshold = 2
    ResetTimeout = 2
SPECIFICATION KeptSpec
INVARIANT TrialHasOwner
PROPERTY Recovers
