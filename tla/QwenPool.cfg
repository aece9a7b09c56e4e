SPECIFICATION FairSpec
CONSTANTS
    Agents = {a1, a2, a3, a4}
    MaxConcurrent = 2
    MaxAttempts = 2
INVARIANTS
    TypeOK
    CountsAgree
    NoStrandedPermit
PROPERTIES
    NoOvertaking
    ImplementsCallSlots
    WaiterServed
