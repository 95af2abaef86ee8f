CONSTANTS
    n0 = n0
    n1 = n1
    n2 = n2
    k1 = k1
    k2 = k2
    None = None
    Absent = Absent
    Conn <- MCConn
    Key <- MCKey
    Endpoint <- MCEndpoint
    ResEndpoint <- MCEndpoint
    Private = {n0}
    Origin = {"peer"}
    maxConnectAttempts = 2
    dropThreshold = 2
    feeDrop = 1
    Setups <- MCSetups
SPECIFICATION Spec
INVARIANTS
    
    Findable
    LimitsHold
    ResourcesAccounted
PROPERTIES
    OverlayStops
    FixedAttempted
CHECK_DEADLOCK FALSE
