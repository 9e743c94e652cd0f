CONSTANTS
    t1 = t1
    t2 = t2
    m1 = m1
    m2 = m2
    main = main
    free = free
    none = none
    RequestThreads <- MCThreads
    Entries <- MCEntries
    Main <- main
    Unlocked <- free
    NoSnapshot <- none
    Cooldown = 1
    MaxChanges = 2
    MaxFailures = 1
    MaxCrashes = 1

SPECIFICATION FairScanSpec
INVARIANTS
    OneScanAtATime
    RunningMeansScanning
PROPERTY SnapshotCatchesUp
