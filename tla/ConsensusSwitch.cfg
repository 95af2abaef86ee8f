\* One peer and one transaction while the network's ledger changes among two.
CONSTANTS
    p1 = p1
    p2 = p2
    t1 = t1
    t2 = t2
    l1 = l1
    l2 = l2
    Peers <- OnePeer
    Tx <- OneTx
    Ledger <- TwoLedgers
    CloseTime <- OneTime
    Resolution <- MCResolution
    Times <- Late
    PreviousProposers = 1
    PreviousMSeconds = 4000
    MaxSeq = 1
SPECIFICATION Spec
SYMMETRY Symmetry
INVARIANTS
    OurVotesAreOurSet
    ProposingInSync
