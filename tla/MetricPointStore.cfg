SPECIFICATION Spec
CONSTANTS
    Workers = {w1, w2, w3}
    Tasks = {1, 2}
    Points <- MCPoints
    TaskOf <- MCTaskOf
    Batches <- MCBatches
    MaxFlushes = 4
    MaxDeletes = 1
    a = a
    b = b
    c = c
    d = d
SYMMETRY MCSymmetry
INVARIANTS
    TypeOK
    EventsContiguous
    AnnouncedOncePerStore
    OutboxFollowsSequence
PROPERTIES
    ImplementsEventLog
CHECK_DEADLOCK FALSE
