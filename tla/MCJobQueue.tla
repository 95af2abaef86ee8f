----------------------------- MODULE MCJobQueue -----------------------------
(* Instances of JobQueue for TLC: one type limited to one job and one to    *)
(* two, the first of which is dropped when the queue stops.                 *)
EXTENDS JobQueue, TLC

CONSTANTS w1, w2, c1

MCJobType == {1, 2}
MClimit == 1 :> 1 @@ 2 :> 2
MCskip == {1}
MCThreads == {w1, w2}
MCChildren == {c1}
=============================================================================
