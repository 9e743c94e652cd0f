SPECIFICATION FairPosterSpec
CONSTANTS
    k1 = k1
    k2 = k2
    r1 = r1
    r2 = r2
    w1 = w1
    t1 = t1
    t2 = t2
    NoJob <- NoRecord
    NoKey = NoKey
    Nobody = Nobody
    Keys <- TwoKeys
    Requests <- TwoRequests
    Prewarms <- OnePrewarm
    Threads <- TwoThreads
    Asked <- AskedByRoute
    QueueMax = 1
    BurstLimit = 1
INVARIANTS
    SingleFlight
    NoForgottenWaiter
PROPERTY RequestsServed
CHECK_DEADLOCK FALSE
