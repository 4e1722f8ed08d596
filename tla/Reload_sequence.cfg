CONSTANTS
    broken = broken
    q1 = q1
    Broken = broken
    Configs <- AllConfigs
    Requests <- OneRequest
    MaxEvents = 3
SPECIFICATION FairSpec
INVARIANTS TypeOK IntervalsExact
PROPERTY Converges
CHECK_DEADLOCK FALSE
