\* One disputed transaction, four peers, the times on both sides of each threshold.
CONSTANTS
    p1 = p1
    p2 = p2
    p3 = p3
    p4 = p4
    Peers <- MCPeers
    Percents <- MCPercents
SPECIFICATION DisputeSpec
SYMMETRY Symmetry
INVARIANTS
    DecisionStable
