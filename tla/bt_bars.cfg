SPECIFICATION Spec
CONSTANTS
    Prices <- FivePrices
    Costs <- NoneOrTwo
    Lots <- TwoOrThree
    MoveBeAtR = 1
    TrailAtR = 2
    TrailDistance = 2
    MaxDuration = 2
    MaxConcurrent = 2
    SwapLong = 1
    SwapShort = 0
    MaxTickets = 1
    MaxBars = 3
INVARIANTS
    TypeOK
    StopOnlyTightens
    RemainderNeverLoses
    LotsNotCreated
CHECK_DEADLOCK FALSE
