SPECIFICATION Spec
CONSTANTS
    MinCatalog = 1
    MaxCatalog = 2
    MaxPlan = 3
    MaxAttempts = 2
    MaxUsers = 2
    MaxProducts = 3
    MaxAlerts = 2
    MaxSessions = 2
INVARIANTS
    TypeOK
    CatalogueKept
    RowIsTrue
    SuspendedStaysOut
CHECK_DEADLOCK FALSE
