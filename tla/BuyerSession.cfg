SPECIFICATION FairSpec
CONSTANTS
    MaxAttempts = 2
    MaxItems = 3
    MaxViews = 2
    RecursionLimit = 22
INVARIANTS
    TypeOK
    OutcomeTruthful
    AccountWhenNeeded
    ViewsBounded
    CountedAsCharged
    ChargedOnce
PROPERTIES
    SessionAdvances
    SessionEnds
