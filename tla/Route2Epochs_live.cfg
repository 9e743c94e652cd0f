SPECIFICATION FairSpec
CONSTANTS
    Streams = {a1}
    NoStream = default
    Requested = {default}
    MaxReplacements = 1
    FullMode = FALSE
    MaxTrouble = 2
PROPERTY RecoveryConcludes
