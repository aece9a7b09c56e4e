SPECIFICATION FairSpec
CONSTANTS
    Ids <- MCIds
    MaxPools = 2
    Sizes <- MCSizes
INVARIANTS
    TypeOK
    NeverBelowTarget
    SeatsAreTrue
    OnePoolLives
PROPERTIES
    DrainOnlyShrinks
    StopReturns
CHECK_DEADLOCK FALSE
