SPECIFICATION Spec
CONSTANTS
    Prices <- SixPrices
    Volumes <- SmallVolumes
    MoveBeAtRR = 100
    TrailAtRR = 150
    TrailDistance = 2
    PartialPct = 50
    MoveBeAfterPartial = TRUE
    MaxRefusals = 1
    MaxManual = 1
INVARIANTS
    TypeOK
    PartialsFollowRefusals
PROPERTIES
    StopNeverWidens
