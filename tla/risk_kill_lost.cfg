SPECIFICATION Spec
CONSTANTS
    Balances <- MCBalances
    InitBalance = 8
    Pnls <- MCPnls
    Floor = 4
    MaxTotalDD = 50
    MaxWeeklyDD = 25
    MaxDailyLoss = 20
    MaxLosses = 2
    Cooldown = 2
    MaxConcurrent = 1
    DayLength = 2
    MaxTime = 3
    MaxCrashes = 1
    MaxTrades = 1
    Commands <- KillCommand
    AccountMayFail = FALSE
    DatabaseMayFail = FALSE
    SlowTicks = FALSE
INVARIANTS
    OperatorKillSurvives
