SPECIFICATION Spec
CONSTANTS
    Callers = {c1, c2, c3}
    Capacity = 4
    Rate = 1
    Cost = 2
    MaxAttempts = 2
    MaxClock = 6
INVARIANTS
    TypeOK
    WindowBounded
    SentPerGrant
PROPERTY ImplementsTokenStream
SYMMETRY Callers3
CHECK_DEADLOCK FALSE
