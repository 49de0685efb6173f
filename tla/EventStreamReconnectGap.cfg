SPECIFICATION Spec
CONSTANTS
    c1 = c1
    c2 = c2
    Clients <- MCOneClient
    ChanCap = 1
    Cursors <- MCNoCursors
    MaxSeq = 3
    Budgets <- MCLostSession
INVARIANTS
    StreamHasNoGap
CHECK_DEADLOCK FALSE
