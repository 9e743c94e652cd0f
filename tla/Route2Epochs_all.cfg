SPECIFICATION Spec
CONSTANTS
    Streams = {a1, a2}
    NoStream = default
    Requested = {a1}
    MaxReplacements = 2
    FullMode = FALSE
    MaxTrouble = 1
INVARIANTS
    TypeOK
    AuthorityConsistent
    AttachedMediaIsReadable
    DrainCanBeAcknowledged
PROPERTIES
    PromotionIsOneWay
    DrainedMediaStays
    AttachesWhenHandedOver
