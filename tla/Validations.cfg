CONSTANTS
    None = None
    n1 = n1
    n2 = n2
    l1 = l1
    l2 = l2
    Node <- TwoNodes
    Ledger <- TwoLedgers
    Time <- Times
    LEDGER_EARLY_INTERVAL = 2
    LEDGER_VAL_INTERVAL = 1
    CloseTimeOffset = 0
    MaxNow = 3
    MaxArrivals = 3
SPECIFICATION FairSpec
CHECK_DEADLOCK FALSE
INVARIANTS
    NoneLost
PROPERTIES
    FlushEnds
