SPECIFICATION Spec
CONSTANTS
    Balances <- MCBalances
    InitBalance = 8
    Pnls <- MCPnls
    Floor = 4
    MaxTotalDD = 50
    MaxWeeklyDD = 10
    MaxDailyLoss = 20
    MaxLosses = 2
    Cooldown = 2
    MaxConcurrent = 1
    DayLength = 2
    MaxTime = 3
    MaxCrashes = 1
    MaxTrades = 2
    Commands <- NoCommand
    AccountMayFail = TRUE
    DatabaseMayFail = TRUE
    SlowTicks = FALSE
INVARIANTS
    GateRespectsDrawdown
    GateRespectsCooldown
    
    KillSurvives
