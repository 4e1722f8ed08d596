CONSTANTS
    r1 = r1
    r2 = r2
    r3 = r3
    r4 = r4
    r5 = r5
    Records <- FiveRecords
    MaxBatch = 2
    PoolSize = 2
SPECIFICATION FairSpec
INVARIANTS Conserved ClosedInFull
PROPERTIES KeepsLedger EventuallySettled
CHECK_DEADLOCK FALSE
