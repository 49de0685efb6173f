SPECIFICATION Spec
CONSTANTS
    Workers = {w1}
    Timestamps <- MCTimestamps
    SlotsPerDay = 2
    PastDays = 8
    FutureDays = 2
    RetentionDays = 7
    BatchSize = 1
    Start <- MCStart
    End <- MCEnd
    MaxLagDays = 1
INVARIANTS
    PastWindowStorable
CHECK_DEADLOCK FALSE
