---------------------------- MODULE MCValidations ----------------------------
(* Two validators, two ledgers; the intervals of the code scaled to ticks. *)
EXTENDS Validations

CONSTANTS n1, n2, l1, l2

TwoNodes == {n1, n2}
TwoLedgers == {l1, l2}
Times == 1 .. 2
=============================================================================
