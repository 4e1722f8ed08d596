CONSTANTS
    r1 = r1
    r2 = r2
    Requests <- TwoRequests
    Inputs <- ManyInputs
    Configs <- ThreeConfigs
    PlanLimit <- Plans
    Outcomes = {204, 502}
    MaxReloads = 1
    MaxLosses = 1
SPECIFICATION FairSpec
INVARIANTS TypeOK QuotaHolds HeldToAPolicy PreflightDiffersByMethod 
PROPERTY EveryRequestAnswered
CHECK_DEADLOCK FALSE
