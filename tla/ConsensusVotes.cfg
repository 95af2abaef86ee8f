\* Two peers and one transaction on one ledger: every order of proposals, sets and timers.
CONSTANTS
    p1 = p1
    p2 = p2
    t1 = t1
    t2 = t2
    l1 = l1
    l2 = l2
    Peers <- TwoPeers
    Tx <- OneTx
    Ledger <- OneLedger
    CloseTime <- NoneOrSome
    Resolution <- MCResolution
    Times <- Late
    PreviousProposers = 2
    PreviousMSeconds = 4000
    MaxSeq = 1
SPECIFICATION Spec
SYMMETRY Symmetry
INVARIANTS
    VotesOnRecord
    ReappliedDidNotGetIn
PROPERTIES
    CloseTimeAgreed
