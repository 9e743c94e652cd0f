SPECIFICATION Spec
CONSTANTS
    Sessions = {s1, s2, s3}
    TotalBudget = 3
    MinWorkerThreads = 1
    MaxWorkerThreads = 2
    MaxEpochs = 1
    MaxSpawns = 1
    MaxParks = 0
    MaxSamples = 0
    MaxRevivals = 1
INVARIANT EncodersWithinBudget
PROPERTY OldestFirst
CHECK_DEADLOCK FALSE
