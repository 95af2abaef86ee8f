CONSTANTS
    None = None
    v1 = v1
    v2 = v2
    r = r
    a2 = a2
    b2 = b2
    a3 = a3
    a4 = a4
    Validator <- TwoValidators
    Ledger <- Forked
    Chain <- ForkedChain
    Local <- Nothing
    MinValidations = 1
    MaxValidations = 2
    MaxBuilt = 2
    Signed <- Two
    MAX_LEDGER_GAP = 2
SPECIFICATION FairSpec
CHECK_DEADLOCK FALSE
INVARIANTS
    ValidatedHasQuorum
    PublishedStream
    

    
    
