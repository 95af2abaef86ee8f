SPECIFICATION FairSpec
CONSTANTS
    w1 = w1
    w2 = w2
    Threads = {w1, w2}
    Leaves <- MCLeaves
    Empty = {}
    Packets <- MCPackets
    LocalData <- MCLocalData
    Bounds <- MCBounds
    ledgerTimeoutRetriesMax = 1
    ledgerBecomeAggressiveThreshold = 0
    deferAbove = 4
    MaxObjects = 2
INVARIANTS
    
    NoStrandedData
PROPERTIES
    
    EventuallyDone
    CompleteDelivered
CHECK_DEADLOCK FALSE
