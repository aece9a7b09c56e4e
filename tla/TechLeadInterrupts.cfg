SPECIFICATION Spec
CONSTANTS
    Absent = Absent
    Broken = Broken
    i1 = i1
    i2 = i2
    Clients = {c1, c2}
    NoItem = NoItem
    MaxTasks = 1
    Worked = {1}
    Items = {i1}
    Rank <- MCRank
    Criteria <- MCCriteria
    Fallback <- MCFallback
    Found <- MCFound
PROPERTY NeverInterruptsWork
