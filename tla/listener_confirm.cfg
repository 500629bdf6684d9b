SPECIFICATION FairSpec
CONSTANTS
    Destructive <- KillOnly
    Others <- YesAndStatus
    Ignored <- Strangers
    TTL = 1
    MaxUpdates = 3
    MaxTime = 2
    MaxFaults = 1
    MaxCrashes = 1
    MaxErrors = 1
INVARIANTS
    TypeOK
    OncePerProcess
PROPERTIES
    OnlyConfirmed
    AllAnswered
CHECK_DEADLOCK FALSE
