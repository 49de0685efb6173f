SPECIFICATION FairSpec
CONSTANTS
    c1 = c1
    c2 = c2
    Clients <- MCTwoClients
    ChanCap = 1
    Cursors <- MCCursors
    MaxSeq = 2
    Budgets <- MCBudgets
INVARIANTS
    StreamIncreasing
    GapsAreOutages
    ChannelsBelongToSubscribers
PROPERTIES
    StreamDelivers
    HandlersFinish
CHECK_DEADLOCK FALSE
