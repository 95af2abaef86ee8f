--------------------------- MODULE MCLedgerMaster ---------------------------
(* Small instances of LedgerMaster: chains of ledgers that fork. *)
EXTENDS LedgerMaster

CONSTANTS v1, v2, r, a2, b2, a3, a4

TwoValidators == {v1, v2}

\* A chain of four ledgers with a fork at sequence 2.
Forked == {r, a2, b2, a3, a4}
ForkedChain ==
    [l \in Forked |-> CASE l = r  -> <<r>>
                      [] l = a2 -> <<r, a2>>
                      [] l = b2 -> <<r, b2>>
                      [] l = a3 -> <<r, a2, a3>>
                      [] l = a4 -> <<r, a2, a3, a4>>]
Two == {b2, a4}
Nothing == {}
OnlyA3 == {a3}
=============================================================================
