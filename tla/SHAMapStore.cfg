SPECIFICATION FairSpec
CONSTANTS
    a = a  x = x  y = y
    none = none
    Node <- MCNode
    nodesOf <- MCNodesOf
    LastLedger = 5
    Backend = {1, 2, 3, 4}
    Fetcher = {f1}
    deleteBatch = 3
    checkHealthInterval = 1
    Setups <- MCSetups
INVARIANTS
    Kept
    RestartOpens
    DeletedIsOld
    FetchFinds
PROPERTIES
    StopCompletes
    Rotates
CHECK_DEADLOCK FALSE
