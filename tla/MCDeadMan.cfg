SPECIFICATION FairSpec
CONSTANTS
    Timeout = 3
    Pace = 1
    BeatEvery = 1
    Flattens = TRUE
    MaxOpen = 2
    MaxReboots = 1
INVARIANTS
    StallIsVisible
    HealthyLoopNotTripped
    FlattenHolds
PROPERTY
    DeadLoopStaysKilled
