SPECIFICATION FairSpec
CONSTANTS
    Ids <- MCIds
    MaxPools = 2
    Sizes <- MCSizes
PROPERTY
    ShrinksAtSessionEnd
CHECK_DEADLOCK FALSE
