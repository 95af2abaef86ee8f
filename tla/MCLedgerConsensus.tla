------------------------- MODULE MCLedgerConsensus -------------------------
EXTENDS LedgerConsensus, TLC

CONSTANTS p1, p2, t1, t2, l1, l2

OnePeer == {p1}
TwoPeers == {p1, p2}
OneTx == {t1}
TwoTx == {t1, t2}
OneLedger == {l1}
TwoLedgers == {l1, l2}

OneTime == {30}
NoneOrSome == {0, 45}

MCResolution == [l \in Ledger |-> 10]

\* Past the minimum, in the second band of the thresholds.
Late == {2500}

Symmetry == Permutations(Peers) \cup Permutations(Tx)

=============================================================================
