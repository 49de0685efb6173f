SPECIFICATION FairSpec
CONSTANTS
    c1 = c1
    c2 = c2
    Clients <- MCOneClient
    ChanCap = 1
    Cursors <- MCNoCursors
    MaxSeq = 2
    Budgets <- MCSlowClient
PROPERTIES
    HubPublishReturns
CHECK_DEADLOCK FALSE
