----------------------------- MODULE MCSHAMapStore -----------------------------
(***************************************************************************)
(* Five ledgers, rotations at the third and the fifth.  Node a is in every  *)
(* map, the others come and go and come back.                               *)
(***************************************************************************)
EXTENDS SHAMapStore

CONSTANTS a, x, y

MCNode == {a, x, y}
MCNodesOf == [s \in 0..LastLedger |->
                CASE s = 0 -> {} [] s = 3 -> {a, y} [] s = 4 -> {a}
                  [] OTHER -> {a, x}]

S(interval, advisory, batched, fetches, crashes, flips, stops, permits, sweeps) ==
    [deleteInterval |-> interval, advisoryDelete |-> advisory, batched |-> batched,
     ledgers |-> 2 * interval + 1, fetches |-> fetches, crashes |-> crashes,
     flips |-> flips, stops |-> stops, permits |-> permits, sweeps |-> sweeps]

MCSetups == { S(2, FALSE, FALSE, 1, 0, 0, 0, 0, 0),   \* readers beside a rotation
              S(1, FALSE, TRUE,  0, 1, 0, 0, 0, 0),   \* batches and a crash
              S(2, FALSE, FALSE, 0, 1, 2, 0, 0, 0),   \* a crash and ill health
              S(1, FALSE, FALSE, 1, 0, 0, 1, 0, 1),   \* readers, sweeps and a stop
              S(2, TRUE,  FALSE, 0, 0, 0, 0, 2, 0) }  \* advisory deletion
================================================================================
