SPECIFICATION ClockSpec
CONSTANTS
    None = None
    Start <- Friday
    End <- Wednesday
    Calendars <- Worlds
    Changes <- SundayNight
    AsianHours <- Asian
    LondonHours <- London8
    NewYorkHours <- NewYork8
    TradeSessions <- LondonAndOverlap
    MaxCandleAge = 2
    FreezeTimes <- Freezes
    StartTimes <- Starts
    MaxCrashes = 1
CHECK_DEADLOCK FALSE
INVARIANTS
    
    AcceptedIsFresh
    RejectedAfterGap
    AsianRangeWhole
