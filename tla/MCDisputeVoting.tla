-------------------------- MODULE MCDisputeVoting --------------------------
EXTENDS DisputeVoting, TLC

CONSTANTS p1, p2, p3, p4

MCPeers == {p1, p2, p3, p4}
MCPercents == {0, 49, 50, 84, 85, 199, 200}

Symmetry == Permutations(MCPeers)

=============================================================================
