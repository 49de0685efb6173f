SPECIFICATION FairSpec
CONSTANTS
    Workers = {w1, w2}
    Timestamps <- MCTimestamps
    SlotsPerDay = 2
    PastDays = 8
    FutureDays = 2
    RetentionDays = 7
    BatchSize = 1
    Start <- MCStart
    End <- MCEnd
    MaxLagDays = 1
INVARIANTS
    RecentStorable
PROPERTIES
    RetainedIsKept
    ExpiredIsDeleted
CHECK_DEADLOCK FALSE
