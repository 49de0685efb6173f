SPECIFICATION FairSpec
CONSTANTS
    Requests <- MCRequests
    r1 = r1
    r2 = r2
    Publishers <- MCPublishers
    w1 = w1
    w2 = w2
    JobsCap = 1
    MaxAttempts = 2
    MaxFaults = 3
    NoRequest = NoRequest
INVARIANTS
    AcceptedIsQueued
    NoStaleConfirm
PROPERTIES
    RequestsAnswered
    CloseReturns
CHECK_DEADLOCK FALSE
