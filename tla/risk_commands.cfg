SPECIFICATION Spec
CONSTANTS
    Balances <- MCBalances
    InitBalance = 8
    Pnls <- MCPnls
    Floor = 5
    MaxTotalDD = 50
    MaxWeeklyDD = 10
    MaxDailyLoss = 20
    MaxLosses = 2
    Cooldown = 2
    MaxConcurrent = 1
    DayLength = 2
    MaxTime = 2
    MaxCrashes = 0
    MaxTrades = 1
    Commands <- BothCommands
    AccountMayFail = FALSE
    DatabaseMayFail = FALSE
    SlowTicks = TRUE
INVARIANTS
    TypeOK
    KillJustified
    OperatorKillSurvives
