SPECIFICATION FairSpec
CONSTANTS
    Workers = {w1, w2}
    Tasks = {t1, t2}
    Tokens = {k1, k2, k3, k4, k5}
    BatchSize = 2
    MaxEvents = 2
    MaxFaults = 3
    None = None
INVARIANTS
    TypeOK
    SentInOrder
    PublishedWasSent
PROPERTIES
    ClaimsExclusive
    EventuallyPublished
CHECK_DEADLOCK FALSE
