--------------------------- MODULE DisputeVoting ---------------------------
(***************************************************************************)
(* The life of one disputed transaction during a round: peers vote, change *)
(* their vote, bow out or go stale while the timer reconsiders our vote as *)
(* time passes, and this node may stop proposing (LedgerConsensus.cpp,     *)
(* DisputedTx.cpp).                                                        *)
(***************************************************************************)
EXTENDS DisputedTx

CONSTANT Percents    \* the values mClosePercent takes

ASSUME PercentsAssumption == Percents \subseteq Nat /\ 0 \in Percents

VARIABLES
    dispute,      \* the DisputedTx
    percent,      \* mClosePercent at the last timer
    proposing     \* mProposing

disputeVars == <<dispute, percent, proposing>>

DisputeTypeOK ==
    /\ dispute \in Dispute
    /\ percent \in Percents
    /\ proposing \in BOOLEAN

DisputeInit ==
    /\ \E ours \in BOOLEAN : dispute = NewDispute(ours, [p \in Peers |-> "none"])
    /\ percent = 0
    /\ proposing \in BOOLEAN

PeerVotes(ps, yes) ==
    /\ dispute' = setVote(dispute, ps, yes)
    /\ UNCHANGED <<percent, proposing>>

PeersLeave(ps) ==
    /\ dispute' = unVote(dispute, ps)
    /\ UNCHANGED <<percent, proposing>>

Reconsider(q) ==
    /\ q >= percent
    /\ percent' = q
    /\ dispute' = updateVote(dispute, q, proposing)
    /\ UNCHANGED proposing

StopProposing ==
    /\ proposing
    /\ proposing' = FALSE
    /\ UNCHANGED <<dispute, percent>>

DisputeNext ==
    \/ \E ps \in SUBSET Peers, yes \in BOOLEAN : PeerVotes(ps, yes)
    \/ \E ps \in SUBSET Peers : PeersLeave(ps)
    \/ \E q \in Percents : Reconsider(q)
    \/ StopProposing

DisputeSpec == DisputeInit /\ [][DisputeNext]_disputeVars

-----------------------------------------------------------------------------
\* The counters updateVote divides by are the votes on record, whatever the order in
\* which peers voted, changed their votes and left (mYays, mNays against mVotes).
CountsExact ==
    /\ dispute.yays = Cardinality(Voting(dispute, "yes"))
    /\ dispute.nays = Cardinality(Voting(dispute, "no"))

VoteSettled(d, q) == updateVote(d, q, proposing) = d

\* Our own vote is part of the weight, and yet the decision is stable: reconsidering a
\* second time with the same votes and the same time never takes back the first result.
DecisionStable ==
    \A q \in Percents : VoteSettled(updateVote(dispute, q, proposing), q)

\* The thresholds only rise, so with the peers' votes standing still a vote that was
\* settled at some time may later fall from yes to no but never rise from no to yes:
\* the avalanche cannot rock back and forth.
Ratchet ==
    \A q, r \in Percents :
        /\ q <= r
        /\ proposing
        /\ VoteSettled(dispute, q)
        /\ updateVote(dispute, r, proposing).ourVote
        => dispute.ourVote

=============================================================================
