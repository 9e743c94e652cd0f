SPECIFICATION FairSpec
CONSTANTS
    p1 = p1
    p2 = p2
    None = None
    Processes <- TwoProcesses
    Home <- OneJobEach
    MaxStarts = 2
    MaxTrouble = 2
INVARIANTS
    NoStagingLeftBehind
PROPERTIES
    OneWriterPublishes
    CatalogedFileStays
    WriterIsFreed
CHECK_DEADLOCK FALSE
