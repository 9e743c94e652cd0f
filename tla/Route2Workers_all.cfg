SPECIFICATION FairSpec
CONSTANTS
    Sessions = {s1}
    TotalBudget = 2
    MinWorkerThreads = 1
    MaxWorkerThreads = 2
    MaxEpochs = 2
    MaxSpawns = 3
    MaxParks = 1
    MaxSamples = 1
    MaxRevivals = 0
INVARIANTS
    NoOrphanEncoder
    OneEncoderPerEpoch
PROPERTY EncodersConclude
CHECK_DEADLOCK FALSE
