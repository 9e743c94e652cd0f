SPECIFICATION FairSpec
CONSTANTS
    t1 = t1
    t2 = t2
    Threads <- MCThreads
    None = None
    MaxSequence = 2
    MaxObservations = 1
    MaxTroubles = 1
INVARIANTS
    NothingIsLost
    JournaledOnce
    SealedEvidenceStands
PROPERTY ClosingConcludes
CHECK_DEADLOCK FALSE
