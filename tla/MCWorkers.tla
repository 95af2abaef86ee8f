----------------------------- MODULE MCWorkers -----------------------------
EXTENDS Workers, TLC

CONSTANTS w1, w2, w3

TwoWorkers == {w1, w2}
ThreeWorkers == {w1, w2, w3}

\* All at once, as Application does, and all but one before the end.
TwoThenOne == <<2, 1>>
Three == <<3>>

Symmetry == Permutations(Worker)

=============================================================================
