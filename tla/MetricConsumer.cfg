SPECIFICATION FairSpec
CONSTANTS
    Workers = {w1, w2}
    Messages <- MCMessages
    Invalid <- MCInvalid
    Points <- MCPoints
    PointsOf <- MCPointsOf
    BatchMax = 2
    Prefetch = 2
    MaxFaults = 2
    NoMessage = NoMessage
    m = m
    bad = bad
    p1 = p1
    p2 = p2
    p3 = p3
    p4 = p4
INVARIANTS
    TypeOK
    AckedIsDurable
    NoDoubleSettle
    NoForgottenDelivery
    BatchWithinLimit
PROPERTIES
    ImplementsContract
    EventuallySettled
    ShutdownCompletes
CHECK_DEADLOCK FALSE
