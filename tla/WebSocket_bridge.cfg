CONSTANTS
    k1 = k1
    k2 = k2
    Conns <- TwoConns
    MaxConnections = 1
    Talkative <- OneOfThem
    MaxSaid = 2
SPECIFICATION FairSpec
INVARIANTS SlotsExact ClosingIsBounded RelayedInOrder
PROPERTIES KeepsTunnel ClosesTogether
CHECK_DEADLOCK FALSE
