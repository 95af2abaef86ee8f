SPECIFICATION Spec
CONSTANTS
    Account <- MCAccount
    FeeAccount = "F"
    Genesis <- MCGenesis
    feeDue = 1
    reserve = 2
    resolution = 2
    TOTAL_PASSES = 3
    RETRY_PASSES = 1
    holdLedgers = 1
    Lag = 1
    None = None
    Setups <- MCSetups
INVARIANTS OncePerSequence  RelayedOnce
PROPERTIES  AgreedApplied
CHECK_DEADLOCK FALSE
