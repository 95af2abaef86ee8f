---------------------------- MODULE LedgerTiming ----------------------------
(***************************************************************************)
(* The pure decisions of consensus timing (src/ledger/LedgerTiming.cpp and *)
(* LedgerTiming.h): the avalanche thresholds, whether consensus has been   *)
(* reached, and the rounding of close times (Ledger::roundCloseTime).      *)
(* Times are milliseconds in haveConsensus and seconds elsewhere;          *)
(* percentages are whole numbers.                                          *)
(***************************************************************************)
EXTENDS Integers

LEDGER_MIN_CONSENSUS == 2000
AV_CT_CONSENSUS_PCT == 75

\* The share of yes votes needed after a percentage of the previous round's time
\* (AV_INIT, AV_MID, AV_LATE and AV_STUCK).
AvalancheWeight(percent) ==
    CASE percent < 50 -> 50
      [] percent \in 50 .. 84 -> 65
      [] percent \in 85 .. 199 -> 70
      [] percent >= 200 -> 95

\* ContinuousLedgerTiming::haveConsensus: "agreed" clears the caller's failure flag,
\* "movedOn" sets it, "no" leaves it alone.
haveConsensus(previousProposers, proposers, agree, finished, previousTime, time) ==
    IF \/ time <= LEDGER_MIN_CONSENSUS
       \/ /\ proposers < (previousProposers * 3) \div 4
          /\ time < previousTime + LEDGER_MIN_CONSENSUS
    THEN "no"
    ELSE IF (agree * 100 + 100) \div (proposers + 1) > 80
    THEN "agreed"
    ELSE IF (finished * 100) \div (proposers + 1) > 80
    THEN "movedOn"
    ELSE "no"

\* Ledger::roundCloseTime: to the nearest multiple; 0 means no agreement and stays 0.
roundCloseTime(time, resolution) ==
    IF time = 0
    THEN 0
    ELSE LET t == time + resolution \div 2 IN t - (t % resolution)

=============================================================================
