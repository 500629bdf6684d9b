SPECIFICATION FairSpec
CONSTANTS
    Capacity = 2
    Period = 3
    MaxMessages = 5
    NotifyUntil = 6
    MaxTime = 9
    MaxStops = 1
INVARIANTS
    TypeOK
    RateAtMostDoubled

    
    
CHECK_DEADLOCK FALSE
