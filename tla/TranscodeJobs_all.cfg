SPECIFICATION Spec
CONSTANTS
    i1 = i1
    i2 = i2
    u1 = u1
    u2 = u2
    t1 = t1
    t2 = t2
    Cleaner = Cleaner
    None = None
    New = New
    Over = Over
    Items <- TwoItems
    Users <- TwoUsers
    Threads <- TwoThreads
    Asked <- TwoViewers
    MaxJobs = 1
    MaxStarts = 2
    MaxTrouble = 1
INVARIANTS
    SomebodyReports
PROPERTIES
    LoneStartsKeepTheCap
    StopsOwnJobsOnly
CHECK_DEADLOCK FALSE
