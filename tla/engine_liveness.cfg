SPECIFICATION FairSpec
CONSTANTS
    Tickets = {t1, t2}
    Directions <- LongOnly
    MaxConcurrent = 1
    MaxErrors = 3
    Commands <- KillAndCloseAll
    MaxCrashes = 1
    MaxFaults = 1
    BlindReads <- EveryRead
    BrokerCloses = FALSE
    MayTrip = TRUE
PROPERTIES
    
    ExpiredCloses
