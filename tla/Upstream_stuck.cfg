CONSTANTS
    c1 = c1
    c2 = c2
    Clients <- MCClients
    Kind <- MixedKinds
    Url <- OwnUrls
    N = 2
    HasBreaker = TRUE
    HealthCheck = FALSE
    Attempts = 0
    MaxProbes = 1
    FailureThreshold = 1
    ResetTimeout = 1
SPECIFICATION FairSpec
PROPERTY Recovers
