----------------------------- MODULE DisputedTx -----------------------------
(***************************************************************************)
(* A transaction in dispute (src/consensus/DisputedTx.cpp): our vote, the  *)
(* vote of each peer, and the counters that updateVote decides by.         *)
(***************************************************************************)
EXTENDS LedgerTiming, FiniteSets

CONSTANT Peers    \* the trusted validators other than this node

ASSUME PeersAssumption == IsFiniteSet(Peers)

Vote == {"yes", "no", "none"}

Dispute == [ourVote : BOOLEAN, votes : [Peers -> Vote], yays : Nat, nays : Nat]

Ballot(yes) == IF yes THEN "yes" ELSE "no"

Voting(d, v) == {p \in Peers : d.votes[p] = v}

\* A dispute whose peers have voted as votes says, each once.
NewDispute(ours, votes) ==
    [ourVote |-> ours, votes |-> votes,
     yays |-> Cardinality({p \in Peers : votes[p] = "yes"}),
     nays |-> Cardinality({p \in Peers : votes[p] = "no"})]

\* DisputedTx::setVote for each peer of ps: a new vote is counted, a changed one moved.
setVote(d, ps, yes) ==
    LET fromNo == ps \cap Voting(d, "no")
        fromYes == ps \cap Voting(d, "yes")
    IN [d EXCEPT
          !.votes = [p \in Peers |-> IF p \in ps THEN Ballot(yes) ELSE d.votes[p]],
          !.yays = @ + (IF yes THEN Cardinality(ps \ fromYes) ELSE - Cardinality(fromYes)),
          !.nays = @ + (IF yes THEN - Cardinality(fromNo) ELSE Cardinality(ps \ fromNo))]

\* DisputedTx::unVote for each peer of ps.
unVote(d, ps) ==
    [d EXCEPT
        !.votes = [p \in Peers |-> IF p \in ps THEN "none" ELSE d.votes[p]],
        !.yays = @ - Cardinality(ps \cap Voting(d, "yes")),
        !.nays = @ - Cardinality(ps \cap Voting(d, "no"))]

Weight_withoutUs(d) == (d.yays * 100 + (IF d.ourVote THEN 0 ELSE 100)) \div (d.nays + d.yays + 1)

\* The percentage of nodes voting yes, ourselves included.
Weight(d) == (d.yays * 100 + (IF d.ourVote THEN 100 ELSE 0)) \div (d.nays + d.yays + 1)

NewVote(d, percent, proposing) ==
    IF proposing THEN Weight(d) > AvalancheWeight(percent) ELSE d.yays > d.nays

\* DisputedTx::updateVote: without a vote against us there is nothing to reconsider.
updateVote(d, percent, proposing) ==
    IF (d.ourVote /\ d.nays = 0) \/ (~d.ourVote /\ d.yays = 0)
    THEN d
    ELSE [d EXCEPT !.ourVote = NewVote(d, percent, proposing)]

=============================================================================
