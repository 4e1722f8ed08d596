CONSTANTS
    g1 = g1
    g2 = g2
    Limit = 2
    Window = 3
    Capacity = 3
    Algorithms <- AlgorithmName
    Costs <- MixedCosts
    Instances <- TwoInstances
    MaxSkew = 1
    Slack = 1
    MaxTime = 7
    MaxAdmitted = 8
SPECIFICATION Spec
INVARIANTS WithinBound StoresAgree RetryAfterSuffices
SYMMETRY Interchangeable
