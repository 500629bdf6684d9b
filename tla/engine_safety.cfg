SPECIFICATION Spec
CONSTANTS
    Tickets = {t1, t2}
    Directions <- BothDirections
    MaxConcurrent = 2
    MaxErrors = 2
    Commands <- StopCommands
    MaxCrashes = 1
    MaxFaults = 2
    BlindReads <- BlindLoops
    BrokerCloses = TRUE
    MayTrip = FALSE
SYMMETRY TicketSymmetry
INVARIANTS
    TypeOK
    ExposureLimited
    ErrorsPause

    
