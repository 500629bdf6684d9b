SPECIFICATION Spec
CONSTANTS
    Assets <- MCAssets
    Candidates <- MCCandidates
    Gold = "XAUUSD"
    GoldLike <- GoldOnly
    Brokers <- WithAndWithoutDollar
    WebFallback = TRUE
    TTL = 0
    MaxTime = 1
INVARIANTS
    TypeOK
    
    SnapshotIsGold
    

    
