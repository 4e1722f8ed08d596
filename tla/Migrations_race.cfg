CONSTANTS
    p1 = p1
    p2 = p2
    p3 = p3
    Procs <- ThreeProcs
    NFiles = 3
    Creating <- SecondFile
    MaxCrashes = 2
SPECIFICATION FairSpec
INVARIANTS TypeOK AppliedOnce ServesMigrated
PROPERTIES KeepsSchema SomeoneServes
CHECK_DEADLOCK FALSE
