SPECIFICATION Spec
CONSTANTS
    Tolerance = 0
    Wiggle = 1
    MinSL = 2
    MaxSL = 5
    TargetRR = 2
    MinRR = 2
    PsychStep = 8
    SwingBars = 6
    SweepBars = 3
    MinBars = 1
    TrendingADX = 25
    RangingADX = 20
    Spike = 8
    BaseRisk = 16
    MaxRisk = 24
    Increment = 8
    Ceiling = 24
    ScaleUp = 1
    ResetDD = 3
    RecoveryDD = 2
    After2 = 2
    After3 = 1
    HighAtr = 2
    Recovery = 2
    LotValue = 1
    MinLot = 1
    MaxLot = 2
    HardCeiling = 10
    MaxSanePct = 5
    Snapshots <- SomeOfEach
    Prices <- FiveTo19
    Jump = 1
    WidestSpread = 1
    MaxSpread = 1
    MaxConcurrent = 2
    MaxTotalDD = 4
    MinBalance = 500
    Balances <- Start
    Losses <- NoneOrThree
    MaxOrders = 2
INVARIANTS
    TypeOK
    StakeBounded

    
