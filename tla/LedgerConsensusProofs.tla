----------------------- MODULE LedgerConsensusProofs -----------------------
(***************************************************************************)
(* Proofs about LedgerConsensus and DisputeVoting, for any finite sets of  *)
(* peers and transactions, any ledgers and any times.                      *)
(*                                                                         *)
(* The invariant is a property of the object, RInv(c), so that each method *)
(* gets one lemma: it takes an object with the invariant to one with it.   *)
(* Held, that our set is on hand, is apart from it: changePosition breaks  *)
(* it and the mapCompleteInternal that follows restores it.                *)
(***************************************************************************)
EXTENDS LedgerConsensus, DisputeVoting, FiniteSetTheorems, TLAPS

USE ZenonT(10), SMTT(30)

\* mYays and mNays are the votes in mVotes.
Exact(d) ==
    /\ d.yays = Cardinality(Voting(d, "yes"))
    /\ d.nays = Cardinality(Voting(d, "no"))

-----------------------------------------------------------------------------
LEMMA PeersFinite ==
    ASSUME NEW S, S \subseteq Peers
    PROVE  IsFiniteSet(S) /\ Cardinality(S) \in Nat
BY PeersAssumption, FS_Subset, FS_CardinalityType

\* A set joined by others, or left by some.
LEMMA CardinalityJoin ==
    ASSUME NEW S, S \subseteq Peers, NEW T, T \subseteq Peers
    PROVE  Cardinality(S \cup T) = Cardinality(S) + Cardinality(T \ S)
<1>1. IsFiniteSet(S) /\ IsFiniteSet(T) /\ IsFiniteSet(T \ S)
  BY PeersFinite
<1>2. S \cup T = S \cup (T \ S) /\ S \cap (T \ S) = {}
  OBVIOUS
<1>3. Cardinality(S \cup (T \ S)) = Cardinality(S) + Cardinality(T \ S) - Cardinality({})
  BY <1>1, <1>2, FS_Union
<1>4. Cardinality({}) = 0
  BY FS_EmptySet
<1>5. Cardinality(S) \in Nat /\ Cardinality(T \ S) \in Nat
  BY PeersFinite
<1>6. Cardinality(S \cup T) = Cardinality(S \cup (T \ S))
  BY <1>2
<1> QED BY <1>3, <1>4, <1>5, <1>6

LEMMA CardinalityLeave ==
    ASSUME NEW S, S \subseteq Peers, NEW T, T \subseteq Peers
    PROVE  Cardinality(S \ T) = Cardinality(S) - Cardinality(T \cap S)
<1>1. IsFiniteSet(S) /\ IsFiniteSet(T)
  BY PeersFinite
<1>2. S \cap T = T \cap S
  OBVIOUS
<1>3. Cardinality(S \ T) = Cardinality(S) - Cardinality(S \cap T)
  BY <1>1, FS_Difference, Zenon
<1> QED BY <1>2, <1>3, Zenon

LEMMA VotingType ==
    ASSUME NEW d, NEW v
    PROVE  Voting(d, v) \subseteq Peers
BY DEF Voting

\* The counters of a dispute that is exact are naturals.
LEMMA ExactType ==
    ASSUME NEW d, Exact(d)
    PROVE  d.yays \in Nat /\ d.nays \in Nat
BY PeersFinite, VotingType DEF Exact

LEMMA NewDisputeExact ==
    ASSUME NEW ours \in BOOLEAN, NEW votes \in [Peers -> Vote]
    PROVE  NewDispute(ours, votes) \in Dispute /\ Exact(NewDispute(ours, votes))
<1>1. /\ Cardinality({p \in Peers : votes[p] = "yes"}) \in Nat
      /\ Cardinality({p \in Peers : votes[p] = "no"}) \in Nat
  BY PeersFinite
<1> QED BY <1>1 DEF NewDispute, Dispute, Exact, Voting

LEMMA setVoteExact ==
    ASSUME NEW d \in Dispute, Exact(d), NEW ps, ps \subseteq Peers, NEW yes \in BOOLEAN
    PROVE  setVote(d, ps, yes) \in Dispute /\ Exact(setVote(d, ps, yes))
<1> DEFINE e == setVote(d, ps, yes)
           Y == Voting(d, "yes")
           N == Voting(d, "no")
           a == [p \in Peers |-> IF p \in ps THEN Ballot(yes) ELSE d.votes[p]]
           b == d.yays + (IF yes THEN Cardinality(ps \ (ps \cap Y)) ELSE - Cardinality(ps \cap Y))
           k == d.nays + (IF yes THEN - Cardinality(ps \cap N) ELSE Cardinality(ps \ (ps \cap N)))
<1>1. d.votes \in [Peers -> Vote] /\ d.ourVote \in BOOLEAN /\ d.yays \in Int /\ d.nays \in Int
  BY DEF Dispute
<1>0. e = [d EXCEPT !.votes = a, !.yays = b, !.nays = k]
  BY DEF setVote
<1>4. a \in [Peers -> Vote]
  BY <1>1 DEF Ballot, Vote
<1>8. /\ e.votes = a /\ e.yays = b /\ e.nays = k /\ e.ourVote = d.ourVote
      /\ b \in Nat /\ k \in Nat => e \in Dispute
  <2> HIDE DEF a, b, k, e
  <2> QED BY <1>0, <1>4 DEF Dispute
<1>2. Y \subseteq Peers /\ N \subseteq Peers
  BY VotingType
<1>3. e.votes = [p \in Peers |-> IF p \in ps THEN Ballot(yes) ELSE d.votes[p]]
  BY <1>8
<1>5. Exact(e)
  <2>1. CASE yes
    <3>1. Voting(e, "yes") = Y \cup ps /\ Voting(e, "no") = N \ ps
      BY <2>1, <1>3 DEF Voting, Ballot
    <3>2. e.yays = d.yays + Cardinality(ps \ (ps \cap Y)) /\ e.nays = d.nays + (- Cardinality(ps \cap N))
      BY <2>1, <1>8
    <3>3. Cardinality(ps \ (ps \cap Y)) = Cardinality(ps \ Y)
      <4>1. ps \ (ps \cap Y) = ps \ Y
        OBVIOUS
      <4> QED BY <4>1
    <3>4. Cardinality(Y \cup ps) = Cardinality(Y) + Cardinality(ps \ Y)
      BY <1>2, CardinalityJoin
    <3>5. Cardinality(N \ ps) = Cardinality(N) - Cardinality(ps \cap N)
      BY <1>2, CardinalityLeave
    <3>6. Cardinality(ps \cap N) \in Nat
      BY PeersFinite
    <3> HIDE DEF e, Y, N
    <3>7. d.yays = Cardinality(Y) /\ d.nays = Cardinality(N)
      BY DEF Exact, Y, N
    <3> QED BY <3>1, <3>2, <3>3, <3>4, <3>5, <3>6, <3>7, <1>1 DEF Exact
  <2>2. CASE ~yes
    <3>1. Voting(e, "no") = N \cup ps /\ Voting(e, "yes") = Y \ ps
      BY <2>2, <1>3 DEF Voting, Ballot
    <3>2. e.nays = d.nays + Cardinality(ps \ (ps \cap N)) /\ e.yays = d.yays + (- Cardinality(ps \cap Y))
      BY <2>2, <1>8
    <3>3. Cardinality(ps \ (ps \cap N)) = Cardinality(ps \ N)
      <4>1. ps \ (ps \cap N) = ps \ N
        OBVIOUS
      <4> QED BY <4>1
    <3>4. Cardinality(N \cup ps) = Cardinality(N) + Cardinality(ps \ N)
      BY <1>2, CardinalityJoin
    <3>5. Cardinality(Y \ ps) = Cardinality(Y) - Cardinality(ps \cap Y)
      BY <1>2, CardinalityLeave
    <3>6. Cardinality(ps \cap Y) \in Nat
      BY PeersFinite
    <3> HIDE DEF e, Y, N
    <3>7. d.yays = Cardinality(Y) /\ d.nays = Cardinality(N)
      BY DEF Exact, Y, N
    <3> QED BY <3>1, <3>2, <3>3, <3>4, <3>5, <3>6, <3>7, <1>1 DEF Exact
  <2> QED BY <2>1, <2>2
<1>6. e.yays \in Nat /\ e.nays \in Nat
  BY <1>5, ExactType
<1> HIDE DEF e, a, b, k
<1> QED BY <1>5, <1>6, <1>8 DEF e

LEMMA unVoteExact ==
    ASSUME NEW d \in Dispute, Exact(d), NEW ps, ps \subseteq Peers
    PROVE  unVote(d, ps) \in Dispute /\ Exact(unVote(d, ps))
<1> DEFINE e == unVote(d, ps)
           Y == Voting(d, "yes")
           N == Voting(d, "no")
           a == [p \in Peers |-> IF p \in ps THEN "none" ELSE d.votes[p]]
           b == d.yays - Cardinality(ps \cap Y)
           k == d.nays - Cardinality(ps \cap N)
<1>1. d.votes \in [Peers -> Vote]
  BY DEF Dispute
<1>2. Y \subseteq Peers /\ N \subseteq Peers
  BY VotingType
<1>3. e = [d EXCEPT !.votes = a, !.yays = b, !.nays = k]
  BY DEF unVote
<1>4. a \in [Peers -> Vote]
  BY <1>1 DEF Vote
<1>5. /\ e.votes = a /\ e.yays = b /\ e.nays = k
      /\ b \in Nat /\ k \in Nat => e \in Dispute
  <2> HIDE DEF a, b, k, e
  <2> QED BY <1>3, <1>4 DEF Dispute
<1>6. Voting(e, "yes") = Y \ ps /\ Voting(e, "no") = N \ ps
  BY <1>5 DEF Voting
<1>7. Cardinality(Y \ ps) = Cardinality(Y) - Cardinality(ps \cap Y)
  BY <1>2, CardinalityLeave
<1>8. Cardinality(N \ ps) = Cardinality(N) - Cardinality(ps \cap N)
  BY <1>2, CardinalityLeave
<1>9. d.yays = Cardinality(Y) /\ d.nays = Cardinality(N)
  BY DEF Exact
<1>10. e.yays = d.yays - Cardinality(ps \cap Y) /\ e.nays = d.nays - Cardinality(ps \cap N)
  BY <1>5
<1> HIDE DEF e, Y, N, a, b, k
<1>11. Exact(e)
  BY <1>6, <1>7, <1>8, <1>9, <1>10 DEF Exact
<1>12. e.yays \in Nat /\ e.nays \in Nat
  BY <1>11, ExactType
<1> QED BY <1>5, <1>11, <1>12 DEF e

\* The thresholds are percentages, and rise with time.
LEMMA AvalancheRises ==
    ASSUME NEW q \in Nat, NEW r \in Nat, q <= r
    PROVE  /\ AvalancheWeight(q) \in 50 .. 95
           /\ AvalancheWeight(q) <= AvalancheWeight(r)
BY DEF AvalancheWeight

\* Division is monotonic.
LEMMA DivRises ==
    ASSUME NEW m \in Nat, m > 0, NEW a \in Nat, NEW b \in Nat, a <= b
    PROVE  a \div m \in Nat /\ a \div m <= b \div m
OBVIOUS

\* The weight with our vote against and with our vote for: the second is no less.
LEMMA WeightRises ==
    ASSUME NEW d \in Dispute, NEW e \in Dispute, e.yays = d.yays, e.nays = d.nays,
           d.ourVote => e.ourVote
    PROVE  Weight(d) \in Nat /\ Weight(e) \in Nat /\ Weight(d) <= Weight(e)
<1> DEFINE a == d.yays * 100 + (IF d.ourVote THEN 100 ELSE 0)
           b == d.yays * 100 + (IF e.ourVote THEN 100 ELSE 0)
           m == d.nays + d.yays + 1
<1>1. d.yays \in Nat /\ d.nays \in Nat
  BY DEF Dispute
<1>2. a \in Nat /\ b \in Nat /\ a <= b /\ m \in Nat /\ m > 0
  BY <1>1
<1>3. Weight(d) = a \div m /\ Weight(e) = b \div m
  BY DEF Weight
<1> HIDE DEF a, b, m
<1> QED BY <1>2, <1>3, DivRises

LEMMA updateVoteExact ==
    ASSUME NEW d \in Dispute, Exact(d), NEW q \in Nat, NEW ours \in BOOLEAN
    PROVE  /\ updateVote(d, q, ours) \in Dispute
           /\ Exact(updateVote(d, q, ours))
           /\ updateVote(d, q, ours).votes = d.votes
<1> DEFINE v == NewVote(d, q, ours)
<1>1. v \in BOOLEAN
  <2>1. Weight(d) \in Nat /\ AvalancheWeight(q) \in 50 .. 95
    BY WeightRises, AvalancheRises
  <2>2. d.yays \in Nat /\ d.nays \in Nat
    BY DEF Dispute
  <2>3. CASE ours
    <3>1. (Weight(d) > AvalancheWeight(q)) \in BOOLEAN
      BY <2>1
    <3> QED BY <2>3, <3>1 DEF NewVote
  <2>4. CASE ~ours
    <3>1. (d.yays > d.nays) \in BOOLEAN
      BY <2>2
    <3> QED BY <2>4, <3>1 DEF NewVote
  <2> QED BY <2>3, <2>4
<1> HIDE DEF v
<1>2. updateVote(d, q, ours) \in {d, [d EXCEPT !.ourVote = v]}
  BY DEF updateVote, v
<1> QED BY <1>1, <1>2 DEF Dispute, Exact, Voting

-----------------------------------------------------------------------------
\* The disputes D against positions pos, and, if bound, our votes against our set.
DisputesOK(D, pos, ours, bound) ==
    /\ DOMAIN D \subseteq Tx
    /\ D \in [DOMAIN D -> Dispute]
    /\ \A t \in DOMAIN D : Exact(D[t])
    /\ \A t \in DOMAIN D : \A p \in Peers : D[t].votes[p] # "none" => pos[p].seq >= 0
    /\ bound => \A t \in DOMAIN D : D[t].ourVote = (t \in ours)

Bound(r) == HavePosition(r) /\ ~r.bowedOut

InSync(r) == r.haveCorrectLCL /\ ~r.bowedOut /\ r.previousLedger = r.prevLedgerHash

RInv(r) ==
    /\ r \in Round(DOMAIN r.disputes)
    /\ DisputesOK(r.disputes, r.positions, r.ourSet, Bound(r))
    /\ ~HavePosition(r) => DOMAIN r.disputes = {}
    /\ \A p \in r.dead : ~Present(r, p)
    /\ r.proposing => InSync(r)

Held(r) == HavePosition(r) => r.ourSet \in r.acquired

\* q is r but for the disputes, the sets on hand and the comparisons made.
Same(r, q) ==
    /\ q.state = r.state /\ q.prevLedgerHash = r.prevLedgerHash /\ q.previousLedger = r.previousLedger
    /\ q.haveCorrectLCL = r.haveCorrectLCL /\ q.proposing = r.proposing
    /\ q.ourSet = r.ourSet /\ q.bowedOut = r.bowedOut /\ q.ourTime = r.ourTime
    /\ q.positions = r.positions /\ q.dead = r.dead
    /\ r.acquired \subseteq q.acquired

\* What a peer's proposal or set never touches.
Kept(r, q) ==
    /\ q.state = r.state /\ q.ourSet = r.ourSet /\ q.bowedOut = r.bowedOut
    /\ r.acquired \subseteq q.acquired

-----------------------------------------------------------------------------
(* Types *)

LEMMA RoundDisputes ==
    ASSUME NEW D, NEW r \in Round(D), NEW E, NEW d \in [E -> Dispute],
           NEW q, q = [r EXCEPT !.disputes = d]
    PROVE  q \in Round(E) /\ q.disputes = d /\ Same(r, q) /\ q.acquired = r.acquired
BY DEF Round, Same

LEMMA RoundAcquired ==
    ASSUME NEW D, NEW r \in Round(D), NEW a, a \subseteq TxSet, r.acquired \subseteq a,
           NEW q, q = [r EXCEPT !.acquired = a]
    PROVE  q \in Round(D) /\ q.disputes = r.disputes /\ Same(r, q) /\ q.acquired = a
BY DEF Round, Same

LEMMA RoundCompares ==
    ASSUME NEW D, NEW r \in Round(D), NEW a, a \subseteq TxSet,
           NEW q, q = [r EXCEPT !.compares = a]
    PROVE  q \in Round(D) /\ q.disputes = r.disputes /\ Same(r, q) /\ q.acquired = r.acquired
BY DEF Round, Same

\* An object that differs in the parts Same leaves open has the invariant if its disputes do.
LEMMA SameInv ==
    ASSUME NEW r, RInv(r), NEW q, Same(r, q), q \in Round(DOMAIN q.disputes),
           DisputesOK(q.disputes, r.positions, r.ourSet, Bound(r)),
           ~HavePosition(r) => DOMAIN q.disputes = {}
    PROVE  RInv(q)
BY DEF RInv, Same, Bound, InSync, HavePosition, Present

-----------------------------------------------------------------------------
(* Votes *)

LEMMA createDisputesOK ==
    ASSUME NEW r, RInv(r), HavePosition(r), NEW ss \in SUBSET TxSet
    PROVE  LET q == createDisputes(r, ss)
           IN RInv(q) /\ Same(r, q) /\ q.acquired = r.acquired
<1> DEFINE differences == UNION {SymDiff(r.ourSet, s) : s \in ss}
           votes(t) == [p \in Peers |->
                          IF Present(r, p) /\ r.positions[p].set \in r.acquired
                          THEN Ballot(t \in r.positions[p].set)
                          ELSE "none"]
           E == DOMAIN r.disputes \cup differences
           d == [t \in E |-> IF t \in DOMAIN r.disputes
                             THEN r.disputes[t]
                             ELSE NewDispute(t \in r.ourSet, votes(t))]
           q == createDisputes(r, ss)
<1>1. q = [r EXCEPT !.disputes = d]
  BY DEF createDisputes
<1>2. r \in Round(DOMAIN r.disputes) /\ DisputesOK(r.disputes, r.positions, r.ourSet, Bound(r))
  BY DEF RInv
<1>3. E \subseteq Tx
  <2>1. r.ourSet \subseteq Tx
    BY <1>2 DEF Round, TxSet
  <2>2. differences \subseteq Tx
    BY <2>1 DEF SymDiff, TxSet
  <2> QED BY <2>2, <1>2 DEF DisputesOK
<1>4. ASSUME NEW t \in E
      PROVE  /\ d[t] \in Dispute /\ Exact(d[t])
             /\ \A p \in Peers : d[t].votes[p] # "none" => r.positions[p].seq >= 0
             /\ Bound(r) => d[t].ourVote = (t \in r.ourSet)
  <2>1. CASE t \in DOMAIN r.disputes
    BY <1>2, <2>1 DEF DisputesOK
  <2>2. CASE t \notin DOMAIN r.disputes
    <3>1. d[t] = NewDispute(t \in r.ourSet, votes(t))
      BY <2>2
    <3>2. votes(t) \in [Peers -> Vote]
      BY DEF Ballot, Vote
    <3>3. (t \in r.ourSet) \in BOOLEAN
      OBVIOUS
    <3>4. \A p \in Peers : votes(t)[p] # "none" => r.positions[p].seq >= 0
      BY DEF Present
    <3> HIDE DEF votes, d, E
    <3>5. d[t].votes = votes(t) /\ d[t].ourVote = (t \in r.ourSet)
      BY <3>1 DEF NewDispute
    <3> QED BY <3>1, <3>2, <3>3, <3>4, <3>5, NewDisputeExact
  <2> QED BY <2>1, <2>2
<1>5. DOMAIN d = E
  OBVIOUS
<1> HIDE DEF d, E, q
<1>6. d \in [E -> Dispute]
  <2>1. d = [t \in E |-> d[t]]
    BY DEF d
  <2> QED BY <1>4, <2>1
<1>7. DisputesOK(d, r.positions, r.ourSet, Bound(r))
  BY <1>3, <1>4, <1>5, <1>6 DEF DisputesOK
<1>8. q \in Round(E) /\ q.disputes = d /\ Same(r, q) /\ q.acquired = r.acquired
  BY <1>1, <1>2, <1>6, RoundDisputes
<1>9. RInv(q)
  BY <1>5, <1>7, <1>8, SameInv
<1> QED BY <1>8, <1>9 DEF q

\* One vote per dispute changed by f, which keeps a dispute exact, our vote, and the votes
\* of peers that are not present at none.
LEMMA RevoteOK ==
    ASSUME NEW r, RInv(r), NEW d, DOMAIN d = DOMAIN r.disputes, d = [t \in DOMAIN d |-> d[t]],
           \A t \in DOMAIN d :
              /\ d[t] \in Dispute /\ Exact(d[t]) /\ d[t].ourVote = r.disputes[t].ourVote
              /\ \A p \in Peers : d[t].votes[p] # "none" => r.positions[p].seq >= 0,
           NEW q, q = [r EXCEPT !.disputes = d]
    PROVE  RInv(q) /\ Same(r, q) /\ q.acquired = r.acquired
<1>1. r \in Round(DOMAIN r.disputes) /\ DisputesOK(r.disputes, r.positions, r.ourSet, Bound(r))
  BY DEF RInv
<1>2. d \in [DOMAIN d -> Dispute]
  OBVIOUS
<1>3. DisputesOK(d, r.positions, r.ourSet, Bound(r))
  BY <1>1, <1>2 DEF DisputesOK
<1>4. q \in Round(DOMAIN d) /\ q.disputes = d /\ Same(r, q) /\ q.acquired = r.acquired
  BY <1>1, <1>2, RoundDisputes
<1>5. ~HavePosition(r) => DOMAIN d = {}
  BY DEF RInv
<1> QED BY <1>3, <1>4, <1>5, SameInv

LEMMA castVotesOK ==
    ASSUME NEW r, RInv(r), NEW ps, ps \subseteq Proposers(r), NEW s
    PROVE  LET q == castVotes(r, ps, s) IN RInv(q) /\ Same(r, q) /\ q.acquired = r.acquired
<1> DEFINE d == [t \in DOMAIN r.disputes |-> setVote(r.disputes[t], ps, t \in s)]
           q == castVotes(r, ps, s)
<1>1. DisputesOK(r.disputes, r.positions, r.ourSet, Bound(r)) /\ ps \subseteq Peers
  BY DEF RInv, Proposers
<1>2. ASSUME NEW t \in DOMAIN r.disputes
      PROVE  /\ d[t] \in Dispute /\ Exact(d[t]) /\ d[t].ourVote = r.disputes[t].ourVote
             /\ \A p \in Peers : d[t].votes[p] # "none" => r.positions[p].seq >= 0
  <2>1. d[t] = setVote(r.disputes[t], ps, t \in s) /\ (t \in s) \in BOOLEAN
    OBVIOUS
  <2>2. r.disputes[t] \in Dispute /\ Exact(r.disputes[t])
    BY <1>1 DEF DisputesOK
  <2>3. d[t] \in Dispute /\ Exact(d[t])
    <3> HIDE DEF d
    <3> QED BY <1>1, <2>1, <2>2, setVoteExact
  <2>4. /\ d[t].ourVote = r.disputes[t].ourVote
        /\ d[t].votes = [p \in Peers |-> IF p \in ps THEN Ballot(t \in s) ELSE r.disputes[t].votes[p]]
    <3> HIDE DEF d
    <3> QED BY <2>1, <2>2 DEF setVote, Dispute
  <2>5. \A p \in ps : r.positions[p].seq >= 0
    BY DEF Proposers, Present
  <2> QED BY <1>1, <2>3, <2>4, <2>5 DEF DisputesOK
<1>3. q = [r EXCEPT !.disputes = d] /\ DOMAIN d = DOMAIN r.disputes /\ d = [t \in DOMAIN d |-> d[t]]
  BY DEF castVotes
<1> HIDE DEF d, q
<1> QED BY <1>2, <1>3, RevoteOK DEF q

LEMMA dropVotesOK ==
    ASSUME NEW r, RInv(r), NEW ps, ps \subseteq Peers
    PROVE  LET q == dropVotes(r, ps)
           IN /\ RInv(q) /\ Same(r, q) /\ q.acquired = r.acquired
              /\ \A t \in DOMAIN q.disputes : \A p \in ps : q.disputes[t].votes[p] = "none"
<1> DEFINE d == [t \in DOMAIN r.disputes |-> unVote(r.disputes[t], ps)]
           q == dropVotes(r, ps)
<1>1. DisputesOK(r.disputes, r.positions, r.ourSet, Bound(r)) /\ r \in Round(DOMAIN r.disputes)
  BY DEF RInv
<1>2. ASSUME NEW t \in DOMAIN r.disputes
      PROVE  /\ d[t] \in Dispute /\ Exact(d[t]) /\ d[t].ourVote = r.disputes[t].ourVote
             /\ \A p \in Peers : d[t].votes[p] # "none" => r.positions[p].seq >= 0
             /\ \A p \in ps : d[t].votes[p] = "none"
  <2>1. d[t] = unVote(r.disputes[t], ps)
    OBVIOUS
  <2>2. r.disputes[t] \in Dispute /\ Exact(r.disputes[t])
    BY <1>1 DEF DisputesOK
  <2>3. d[t] \in Dispute /\ Exact(d[t])
    <3> HIDE DEF d
    <3> QED BY <2>1, <2>2, unVoteExact
  <2>4. /\ d[t].ourVote = r.disputes[t].ourVote
        /\ d[t].votes = [p \in Peers |-> IF p \in ps THEN "none" ELSE r.disputes[t].votes[p]]
    <3> HIDE DEF d
    <3> QED BY <2>1, <2>2 DEF unVote, Dispute
  <2> QED BY <1>1, <2>3, <2>4 DEF DisputesOK
<1>3. q = [r EXCEPT !.disputes = d] /\ DOMAIN d = DOMAIN r.disputes /\ d = [t \in DOMAIN d |-> d[t]]
  BY DEF dropVotes
<1> HIDE DEF d, q
<1>4. RInv(q) /\ Same(r, q) /\ q.acquired = r.acquired
  BY <1>2, <1>3, RevoteOK
<1>5. q.disputes = d
  BY <1>1, <1>3 DEF Round
<1> QED BY <1>2, <1>3, <1>4, <1>5 DEF q

-----------------------------------------------------------------------------
(* Sets and proposals *)

LEMMA SameTrans ==
    ASSUME NEW r, NEW u, NEW q, Same(r, u), Same(u, q)
    PROVE  Same(r, q)
BY DEF Same

\* An object with one more set on hand, or one more comparison made.
LEMMA AcquireOK ==
    ASSUME NEW r, RInv(r), NEW a \in SUBSET TxSet, r.acquired \subseteq a,
           NEW q, q = [r EXCEPT !.acquired = a]
    PROVE  RInv(q) /\ Same(r, q) /\ q.acquired = a
<1>1. r \in Round(DOMAIN r.disputes)
  BY DEF RInv
<1>2. q \in Round(DOMAIN r.disputes) /\ q.disputes = r.disputes /\ Same(r, q) /\ q.acquired = a
  BY <1>1, RoundAcquired
<1> QED BY <1>2, SameInv DEF RInv

LEMMA CompareOK ==
    ASSUME NEW r, RInv(r), NEW a \in SUBSET TxSet, NEW q, q = [r EXCEPT !.compares = a]
    PROVE  RInv(q) /\ Same(r, q) /\ q.acquired = r.acquired
<1>1. r \in Round(DOMAIN r.disputes)
  BY DEF RInv
<1>2. q \in Round(DOMAIN r.disputes) /\ q.disputes = r.disputes /\ Same(r, q) /\ q.acquired = r.acquired
  BY <1>1, RoundCompares
<1> QED BY <1>2, SameInv DEF RInv

\* Comparing our set with others and recording it.
LEMMA createComparesOK ==
    ASSUME NEW r, RInv(r), HavePosition(r), NEW ss \in SUBSET TxSet,
           NEW q, q = [createDisputes(r, ss) EXCEPT !.compares = @ \cup ss]
    PROVE  RInv(q) /\ Same(r, q) /\ q.acquired = r.acquired
<1> DEFINE u == createDisputes(r, ss)
<1>1. RInv(u) /\ Same(r, u) /\ u.acquired = r.acquired
  BY createDisputesOK
<1> HIDE DEF u
<1>2. u.compares \cup ss \in SUBSET TxSet
  BY <1>1 DEF RInv, Round
<1>3. q = [u EXCEPT !.compares = u.compares \cup ss]
  BY DEF u
<1>4. RInv(q) /\ Same(u, q) /\ q.acquired = u.acquired
  BY <1>1, <1>2, <1>3, CompareOK
<1> QED BY <1>1, <1>4, SameTrans

LEMMA mapCompleteInternalOK ==
    ASSUME NEW r, RInv(r), NEW s \in TxSet
    PROVE  LET q == mapCompleteInternal(r, s)
           IN RInv(q) /\ Same(r, q) /\ s \in q.acquired
<1>1. CASE s \in r.acquired
  <2>1. mapCompleteInternal(r, s) = r
    BY <1>1 DEF mapCompleteInternal
  <2>2. Same(r, r)
    BY DEF Same
  <2> QED BY <1>1, <2>1, <2>2
<1>2. CASE s \notin r.acquired
  <2> DEFINE u == IF HavePosition(r) /\ ~r.bowedOut /\ s # r.ourSet
                  THEN [createDisputes(r, {s}) EXCEPT !.compares = @ \cup {s}]
                  ELSE r
             w == [u EXCEPT !.acquired = @ \cup {s}]
             q == castVotes(w, ProposersOf(r, s), s)
  <2>1. mapCompleteInternal(r, s) = q
    BY <1>2 DEF mapCompleteInternal
  <2>2. RInv(u) /\ Same(r, u) /\ u.acquired = r.acquired
    <3>1. CASE HavePosition(r) /\ ~r.bowedOut /\ s # r.ourSet
      <4>1. u = [createDisputes(r, {s}) EXCEPT !.compares = @ \cup {s}] /\ {s} \in SUBSET TxSet
        BY <3>1
      <4> HIDE DEF u
      <4> QED BY <3>1, <4>1, createComparesOK
    <3>2. CASE ~(HavePosition(r) /\ ~r.bowedOut /\ s # r.ourSet)
      BY <3>2 DEF Same
    <3> QED BY <3>1, <3>2
  <2> HIDE DEF u
  <2>3. RInv(w) /\ Same(u, w) /\ w.acquired = u.acquired \cup {s}
    <3>1. u.acquired \cup {s} \in SUBSET TxSet /\ u.acquired \subseteq u.acquired \cup {s}
      BY <2>2 DEF RInv, Round
    <3>2. w = [u EXCEPT !.acquired = u.acquired \cup {s}]
      OBVIOUS
    <3> HIDE DEF w
    <3> QED BY <2>2, <3>1, <3>2, AcquireOK
  <2> HIDE DEF w
  <2>4. ProposersOf(r, s) \subseteq Proposers(w)
    BY <2>2, <2>3 DEF ProposersOf, Proposers, Present, Same
  <2>5. RInv(q) /\ Same(w, q) /\ q.acquired = w.acquired
    BY <2>3, <2>4, castVotesOK
  <2> HIDE DEF q
  <2>6. Same(r, q)
    BY <2>2, <2>3, <2>5, SameTrans
  <2> QED BY <2>1, <2>3, <2>5, <2>6
<1> QED BY <1>1, <1>2

\* Our set stays on hand when neither it nor the phase changes.
LEMMA KeptHeld ==
    ASSUME NEW r, NEW q, Kept(r, q)
    PROVE  Held(r) => Held(q)
BY DEF Kept, Held, HavePosition

LEMMA SameKept ==
    ASSUME NEW r, NEW q, Same(r, q)
    PROVE  Kept(r, q)
BY DEF Same, Kept

\* q is r but for the positions and the dead peers.
Moved(r, q) ==
    /\ q.state = r.state /\ q.ourSet = r.ourSet /\ q.acquired = r.acquired
    /\ q.bowedOut = r.bowedOut /\ q.disputes = r.disputes
    /\ q.proposing = r.proposing /\ q.haveCorrectLCL = r.haveCorrectLCL
    /\ q.previousLedger = r.previousLedger /\ q.prevLedgerHash = r.prevLedgerHash

LEMMA PositionsOK ==
    ASSUME NEW r, RInv(r), NEW q, Moved(r, q), q \in Round(DOMAIN r.disputes),
           \A p \in q.dead : q.positions[p].seq < 0,
           \A t \in DOMAIN r.disputes : \A p \in Peers :
               r.disputes[t].votes[p] # "none" => q.positions[p].seq >= 0
    PROVE  RInv(q)
<1>1. DisputesOK(q.disputes, q.positions, q.ourSet, Bound(q))
  BY DEF RInv, DisputesOK, Bound, HavePosition, Moved
<1>2. \A p \in q.dead : ~Present(q, p)
  <2>1. q.dead \subseteq Peers /\ \A p \in Peers : q.positions[p].seq \in Int
    BY ProposersAssumption DEF Round, Position, NoProposal
  <2> QED BY <2>1 DEF Present
<1> QED BY <1>1, <1>2 DEF RInv, HavePosition, InSync, Moved

LEMMA peerPositionOK ==
    ASSUME NEW r, RInv(r), NEW p \in Peers, NEW m \in Proposal, NEW sets \in SUBSET TxSet
    PROVE  LET q == peerPosition(r, p, m, sets) IN RInv(q) /\ Kept(r, q)
<1>1. /\ r \in Round(DOMAIN r.disputes) /\ r.positions \in [Peers -> Position]
      /\ r.dead \subseteq Peers /\ r.acquired \subseteq TxSet
      /\ DisputesOK(r.disputes, r.positions, r.ourSet, Bound(r))
  BY DEF RInv, Round
<1>2. CASE p \in r.dead \/ m.seq <= r.positions[p].seq
  BY <1>2 DEF peerPosition, Kept
<1>3. CASE ~(p \in r.dead \/ m.seq <= r.positions[p].seq) /\ m.seq = seqLeave
  <2> DEFINE u == dropVotes(r, {p})
             pos == [r.positions EXCEPT ![p] = NoProposal]
             q == [u EXCEPT !.positions[p] = NoProposal, !.dead = @ \cup {p}]
  <2>1. peerPosition(r, p, m, sets) = q
    BY <1>3 DEF peerPosition, peerLeaves
  <2>2. /\ RInv(u) /\ Same(r, u)
        /\ \A t \in DOMAIN u.disputes : u.disputes[t].votes[p] = "none"
    BY dropVotesOK
  <2> HIDE DEF u
  <2>3. q = [u EXCEPT !.positions = pos, !.dead = r.dead \cup {p}]
    BY <2>2 DEF Same
  <2>4. pos \in [Peers -> Position] /\ r.dead \cup {p} \in SUBSET Peers
    BY <1>1 DEF Position
  <2>5. \A x \in r.dead \cup {p} : pos[x].seq < 0
    <3>1. \A x \in Peers : r.positions[x].seq \in Int
      BY <1>1, ProposersAssumption DEF Position, NoProposal
    <3>2. \A x \in r.dead : r.positions[x].seq < 0
      BY <1>1, <3>1 DEF RInv, Present
    <3> QED BY <1>1, <3>2 DEF NoProposal
  <2>6. \A t \in DOMAIN u.disputes : \A x \in Peers :
            u.disputes[t].votes[x] # "none" => pos[x].seq >= 0
    <3>1. \A t \in DOMAIN u.disputes : \A x \in Peers :
            u.disputes[t].votes[x] # "none" => r.positions[x].seq >= 0
      BY <2>2 DEF RInv, DisputesOK, Same
    <3> QED BY <1>1, <2>2, <3>1
  <2>9. /\ q \in Round(DOMAIN u.disputes) /\ Moved(u, q)
        /\ q.positions = pos /\ q.dead = r.dead \cup {p}
    <3> HIDE DEF pos, q
    <3>1. u \in Round(DOMAIN u.disputes)
      BY <2>2 DEF RInv
    <3> QED BY <2>3, <2>4, <3>1 DEF Round, Moved
  <2> HIDE DEF pos, q
  <2>7. RInv(q)
    BY <2>2, <2>5, <2>6, <2>9, PositionsOK
  <2>8. Kept(r, q)
    BY <2>2, <2>9 DEF Kept, Same, Moved
  <2> QED BY <2>1, <2>7, <2>8
<1>4. CASE ~(p \in r.dead \/ m.seq <= r.positions[p].seq) /\ m.seq # seqLeave
  <2> DEFINE pos == [r.positions EXCEPT ![p] = m]
             u == [r EXCEPT !.positions[p] = m]
             w == [u EXCEPT !.acquired = @ \cup {m.set}]
  <2>1. m \in Position /\ m.set \in TxSet /\ m.seq >= 0
    BY <1>4, ProposersAssumption DEF Proposal, Position, seqLeave
  <2>2. pos \in [Peers -> Position]
    BY <1>1, <2>1
  <2>3. u = [r EXCEPT !.positions = pos, !.dead = r.dead]
    BY <1>1 DEF Round
  <2>4. \A x \in r.dead : pos[x].seq < 0
    <3>1. \A x \in Peers : r.positions[x].seq \in Int
      BY <1>1, ProposersAssumption DEF Position, NoProposal
    <3> QED BY <1>1, <1>4, <3>1 DEF RInv, Present
  <2>5. \A t \in DOMAIN r.disputes : \A x \in Peers :
            r.disputes[t].votes[x] # "none" => pos[x].seq >= 0
    BY <1>1, <2>1 DEF DisputesOK
  <2> HIDE DEF u, pos
  <2>9. u \in Round(DOMAIN r.disputes) /\ Moved(r, u) /\ u.positions = pos /\ u.dead = r.dead
    BY <1>1, <2>2, <2>3 DEF Round, Moved
  <2>6. /\ RInv(u) /\ u.state = r.state /\ u.ourSet = r.ourSet /\ u.acquired = r.acquired
        /\ u.bowedOut = r.bowedOut /\ u.positions = pos
    <3>1. RInv(u)
      BY <2>4, <2>5, <2>9, PositionsOK
    <3> QED BY <2>9, <3>1 DEF Moved
  <2>7. CASE m.set \in r.acquired \cup sets
    <3> DEFINE q == castVotes(w, {p}, m.set)
    <3>1. peerPosition(r, p, m, sets) = q
      BY <1>4, <2>7 DEF peerPosition, u
    <3>2. RInv(w) /\ Same(u, w) /\ w.acquired = u.acquired \cup {m.set}
      <4>1. u.acquired \cup {m.set} \in SUBSET TxSet /\ u.acquired \subseteq u.acquired \cup {m.set}
        BY <1>1, <2>1, <2>6
      <4>2. w = [u EXCEPT !.acquired = u.acquired \cup {m.set}]
        OBVIOUS
      <4> HIDE DEF w
      <4> QED BY <2>6, <4>1, <4>2, AcquireOK
    <3> HIDE DEF w
    <3>3. {p} \subseteq Proposers(w)
      <4>1. w.positions[p] = m
        BY <1>1, <2>6, <3>2 DEF Same, pos
      <4> QED BY <2>1, <4>1 DEF Proposers, Present
    <3>4. RInv(q) /\ Same(w, q)
      BY <3>2, <3>3, castVotesOK
    <3> HIDE DEF q
    <3>5. Kept(r, q)
      BY <2>6, <3>2, <3>4 DEF Kept, Same
    <3> QED BY <3>1, <3>4, <3>5
  <2>8. CASE m.set \notin r.acquired \cup sets
    <3>1. peerPosition(r, p, m, sets) = u
      BY <1>4, <2>8 DEF peerPosition, u
    <3> QED BY <2>6, <3>1 DEF Kept
  <2> QED BY <2>7, <2>8
<1> QED BY <1>2, <1>3, <1>4

-----------------------------------------------------------------------------
(* The last closed ledger *)

StoredType == [Peers -> [last : Proposal \cup {NoProposal}, earlier : SUBSET TxSet]]

LEMMA StoredOK ==
    ASSUME NEW l, NEW stored \in Stored(l)
    PROVE  stored \in StoredType
BY DEF Stored, StoredType

\* What a change of the view, or a look for the ledger, leaves alone.
Phase(r, q) == q.state = r.state /\ q.ms = r.ms /\ q.fail = r.fail /\ (Held(r) => Held(q))

LEMMA changeViewOK ==
    ASSUME NEW r, RInv(r), NEW l \in Ledger, NEW stored \in StoredType, NEW sets \in SUBSET TxSet
    PROVE  LET q == changeView(r, l, stored, sets) IN RInv(q) /\ Phase(r, q) /\ ~q.proposing
<1> DEFINE q == changeView(r, l, stored, sets)
           bowed == r.bowedOut \/ (r.haveCorrectLCL /\ r.proposing /\ HavePosition(r))
           u == [r EXCEPT !.prevLedgerHash = l,
                  !.bowedOut = bowed,
                  !.proposing = FALSE,
                  !.positions = [p \in Peers |-> NoProposal],
                  !.dead = {},
                  !.disputes = NoDisputes]
           leaving == {p \in Peers : stored[p].last.seq = seqLeave}
           staying == {p \in Peers : stored[p].last.seq \in 0 .. MaxSeq}
           pos == [p \in Peers |-> IF p \in staying THEN stored[p].last ELSE NoProposal]
           new == {s \in sets : \E p \in Peers :
                      (s \in stored[p].earlier) \/ (p \in staying /\ s = stored[p].last.set)}
<1>0. q = playbackProposals(u, stored, sets)
  BY DEF changeView
<1>1. q = [u EXCEPT !.positions = pos, !.dead = leaving, !.acquired = u.acquired \cup new]
  <2> HIDE DEF u, q
  <2> QED BY <1>0 DEF playbackProposals
<1>2. r \in Round(DOMAIN r.disputes)
  BY DEF RInv
<1>3. bowed \in BOOLEAN
  BY <1>2 DEF Round
<1>4. NoDisputes \in [{} -> Dispute] /\ DOMAIN NoDisputes = {}
  BY DEF NoDisputes
<1>5. pos \in [Peers -> Position]
  BY DEF StoredType, Proposal, Position
<1>6. leaving \subseteq Peers /\ new \subseteq TxSet /\ NoProposal \in Position
  BY DEF Position
<1>7. \A p \in leaving : pos[p].seq < 0
  BY ProposersAssumption DEF seqLeave, NoProposal
<1> HIDE DEF bowed, pos, leaving, new, q, u
<1>8. /\ u \in Round({}) /\ u.disputes = NoDisputes /\ u.proposing = FALSE /\ u.state = r.state
      /\ u.ourSet = r.ourSet /\ u.acquired = r.acquired /\ u.ms = r.ms /\ u.fail = r.fail
  BY <1>2, <1>3, <1>4, <1>6 DEF Round, u
<1>9. u.acquired \cup new \subseteq TxSet
  BY <1>6, <1>8 DEF Round
<1>10. /\ q \in Round({}) /\ q.disputes = NoDisputes /\ q.proposing = FALSE /\ q.state = r.state
       /\ q.ourSet = r.ourSet /\ r.acquired \subseteq q.acquired /\ q.ms = r.ms /\ q.fail = r.fail
       /\ q.dead = leaving /\ q.positions = pos
  BY <1>1, <1>5, <1>6, <1>8, <1>9 DEF Round
<1>11. \A p \in q.dead : ~Present(q, p)
  <2>1. \A p \in Peers : pos[p].seq \in Int
    BY <1>5, ProposersAssumption DEF Position, NoProposal
  <2> QED BY <1>6, <1>7, <1>10, <2>1 DEF Present
<1>12. DisputesOK(q.disputes, q.positions, q.ourSet, Bound(q))
  BY <1>4, <1>10 DEF DisputesOK
<1>13. RInv(q)
  BY <1>4, <1>10, <1>11, <1>12 DEF RInv
<1>14. Phase(r, q)
  BY <1>10 DEF Phase, Held, HavePosition
<1> QED BY <1>10, <1>13, <1>14 DEF q

LEMMA switchLedgerOK ==
    ASSUME NEW r, RInv(r), NEW l \in Ledger, NEW have,
           r.proposing => r.previousLedger = l
    PROVE  LET q == switchLedger(r, l, have) IN RInv(q) /\ Phase(r, q)
<1> DEFINE q == switchLedger(r, l, have)
<1>1. r \in Round(DOMAIN r.disputes) /\ r.proposing \in BOOLEAN
  BY DEF RInv, Round
<1>2. CASE r.previousLedger = l
  <2>1. switchLedger(r, l, have) = r
    BY <1>2 DEF switchLedger
  <2> QED BY <2>1 DEF Phase
<1>3. CASE r.previousLedger # l
  <2>1. \/ q = r
        \/ q = [r EXCEPT !.previousLedger = l, !.haveCorrectLCL = TRUE]
        \/ q = [r EXCEPT !.acquiring = {l}, !.haveCorrectLCL = FALSE]
    BY <1>3 DEF switchLedger
  <2> HIDE DEF q
  <2>2. /\ q \in Round(DOMAIN r.disputes) /\ q.disputes = r.disputes /\ q.proposing = FALSE
        /\ q.state = r.state /\ q.ourSet = r.ourSet /\ q.acquired = r.acquired /\ q.ms = r.ms
        /\ q.fail = r.fail /\ q.dead = r.dead /\ q.positions = r.positions /\ q.bowedOut = r.bowedOut
    <3>1. CASE q = r
      BY <1>1, <1>3, <3>1
    <3>2. CASE q = [r EXCEPT !.previousLedger = l, !.haveCorrectLCL = TRUE]
      BY <1>1, <1>3, <3>2 DEF Round
    <3>3. CASE q = [r EXCEPT !.acquiring = {l}, !.haveCorrectLCL = FALSE]
      BY <1>1, <1>3, <3>3 DEF Round
    <3> QED BY <2>1, <3>1, <3>2, <3>3
  <2>3. RInv(q)
    BY <2>2 DEF RInv, Bound, HavePosition, Present
  <2>4. Phase(r, q)
    BY <2>2 DEF Phase, Held, HavePosition
  <2> QED BY <2>3, <2>4 DEF q
<1> QED BY <1>2, <1>3

LEMMA checkLCLOK ==
    ASSUME NEW r, RInv(r), NEW l \in Ledger, NEW have, NEW stored \in StoredType,
           NEW sets \in SUBSET TxSet
    PROVE  LET q == checkLCL(r, l, have, stored, sets) IN RInv(q) /\ Phase(r, q)
<1>1. CASE ~(l # r.prevLedgerHash \/ r.previousLedger # r.prevLedgerHash)
  <2>1. checkLCL(r, l, have, stored, sets) = r
    BY <1>1 DEF checkLCL
  <2> QED BY <2>1 DEF Phase
<1>2. CASE l # r.prevLedgerHash \/ r.previousLedger # r.prevLedgerHash
  <2> DEFINE u == IF r.prevLedgerHash = l THEN r ELSE changeView(r, l, stored, sets)
             q == switchLedger(u, l, have)
  <2>1. checkLCL(r, l, have, stored, sets) = q
    BY <1>2 DEF checkLCL, handleLCL
  <2>2. RInv(u) /\ Phase(r, u) /\ ~u.proposing
    <3>1. CASE r.prevLedgerHash = l
      <4>1. u = r /\ ~r.proposing
        BY <1>2, <3>1 DEF RInv, InSync
      <4> HIDE DEF u
      <4> QED BY <4>1 DEF Phase
    <3>2. CASE r.prevLedgerHash # l
      <4>1. u = changeView(r, l, stored, sets)
        BY <3>2
      <4> HIDE DEF u
      <4> QED BY <4>1, changeViewOK
    <3> QED BY <3>1, <3>2
  <2> HIDE DEF u
  <2>3. RInv(q) /\ Phase(u, q)
    BY <2>2, switchLedgerOK
  <2> HIDE DEF q
  <2> QED BY <2>1, <2>2, <2>3 DEF Phase
<1> QED BY <1>1, <1>2

LEMMA takeInitialPositionOK ==
    ASSUME NEW r, RInv(r), ~HavePosition(r), NEW s \in TxSet, NEW time \in Nat
    PROVE  LET q == takeInitialPosition(r, s, time) IN RInv(q) /\ Held(q) /\ q.state = "establish"
<1> DEFINE u == mapCompleteInternal(r, s)
           w == [u EXCEPT !.state = "establish", !.ourSet = s, !.ourTime = time, !.ms = 0]
           theirs == {w.positions[p].set : p \in Proposers(w)} \cap w.acquired
           q == [createDisputes(w, theirs) EXCEPT !.compares = @ \cup theirs]
<1>1. takeInitialPosition(r, s, time) = q
  BY DEF takeInitialPosition
<1>2. RInv(u) /\ Same(r, u) /\ s \in u.acquired
  BY mapCompleteInternalOK
<1> HIDE DEF u
<1>3. DOMAIN u.disputes = {}
  BY <1>2 DEF RInv, Same, HavePosition
<1>4. /\ w \in Round(DOMAIN u.disputes) /\ w.disputes = u.disputes /\ w.positions = u.positions
      /\ w.dead = u.dead /\ w.proposing = u.proposing /\ w.bowedOut = u.bowedOut
      /\ w.haveCorrectLCL = u.haveCorrectLCL /\ w.previousLedger = u.previousLedger
      /\ w.prevLedgerHash = u.prevLedgerHash /\ w.acquired = u.acquired
      /\ w.state = "establish" /\ w.ourSet = s
  BY <1>2 DEF RInv, Round, LCState
<1> HIDE DEF w
<1>5. DisputesOK(w.disputes, w.positions, w.ourSet, Bound(w))
  BY <1>2, <1>3, <1>4 DEF RInv, DisputesOK
<1>6. RInv(w)
  BY <1>2, <1>4, <1>5 DEF RInv, InSync, Present, HavePosition
<1>7. HavePosition(w) /\ w.acquired \subseteq TxSet
  BY <1>4 DEF HavePosition, Round
<1>8. theirs \in SUBSET TxSet
  BY <1>7
<1> HIDE DEF theirs
<1>9. RInv(q) /\ Same(w, q)
  BY <1>6, <1>7, <1>8, createComparesOK
<1> HIDE DEF q
<1>10. Held(q) /\ q.state = "establish"
  BY <1>2, <1>4, <1>9 DEF Held, Same
<1> QED BY <1>1, <1>9, <1>10

-----------------------------------------------------------------------------
(* The timer in the establish phase *)

LEMMA roundType ==
    ASSUME NEW D, NEW r \in Round(D), NEW time \in Nat
    PROVE  round(r, time) \in Nat
<1> DEFINE m == Resolution[r.previousLedger]
           t == time + m \div 2
<1>1. m \in Nat /\ m > 0
  BY ResolutionAssumption DEF Round
<1> HIDE DEF m
<1>2. t \in Nat
  BY <1>1
<1>3. round(r, time) = IF time = 0 THEN 0 ELSE t - (t % m)
  BY DEF round, roundCloseTime, m
<1> HIDE DEF t
<1>4. t % m \in Nat /\ t % m <= t
  BY <1>1, <1>2
<1> QED BY <1>2, <1>3, <1>4

LEMMA closeTimesIn ==
    ASSUME NEW D, NEW r \in Round(D)
    PROVE  r.ourTime \in Nat /\ \A p \in Proposers(r) : r.positions[p].closeTime \in Nat
<1>1. r.ourTime \in Nat /\ r.positions \in [Peers -> Position]
  BY DEF Round
<1>2. \A x \in Position : x.closeTime \in CloseTime \cup {0}
  BY DEF Position, NoProposal
<1>3. CloseTime \cup {0} \subseteq Nat
  BY CloseTimeAssumption
<1> QED BY <1>1, <1>2, <1>3 DEF Proposers

LEMMA closeTimeType ==
    ASSUME NEW D, NEW r \in Round(D)
    PROVE  closeTimeVote(r).time \in Nat
<1> DEFINE times == {round(r, r.positions[p].closeTime) : p \in Proposers(r)}
                       \cup (IF r.proposing THEN {round(r, r.ourTime)} ELSE {})
           threshVote == computePercent(Participants(r), AvalancheWeight(closePercent(r)))
           best == {t \in times :
                      /\ TimeVotes(r, t) >= threshVote
                      /\ \A u \in times \ {t} :
                            TimeVotes(r, u) < TimeVotes(r, t) + (IF u < t THEN 1 ELSE 0)}
           time == IF best = {} THEN 0 ELSE CHOOSE t \in best : TRUE
<1>1. closeTimeVote(r).time \in {round(r, r.ourTime), time, 0}
  BY DEF closeTimeVote
<1>2. r.ourTime \in Nat /\ \A p \in Proposers(r) : r.positions[p].closeTime \in Nat
  BY closeTimesIn
<1>3. times \subseteq Nat
  BY <1>2, roundType
<1>4. best \subseteq times
  OBVIOUS
<1> HIDE DEF best, times
<1>5. time \in Nat
  BY <1>3, <1>4
<1>6. round(r, r.ourTime) \in Nat
  BY <1>2, roundType
<1> HIDE DEF time
<1> QED BY <1>1, <1>5, <1>6

\* q counts the close times as r does.
SameClock(r, q) ==
    q.ourTime = r.ourTime /\ q.proposing = r.proposing /\ q.previousLedger = r.previousLedger

LEMMA dropStaleOK ==
    ASSUME NEW r, RInv(r), NEW stale \in SUBSET Peers
    PROVE  LET q == dropStale(r, stale)
           IN RInv(q) /\ Kept(r, q) /\ q.acquired = r.acquired /\ SameClock(r, q)
<1> DEFINE u == dropVotes(r, stale)
           pos == [p \in Peers |-> IF p \in stale THEN NoProposal ELSE r.positions[p]]
           q == [u EXCEPT !.positions = pos]
<1>1. dropStale(r, stale) = q
  BY DEF dropStale
<1>2. /\ RInv(u) /\ Same(r, u) /\ u.acquired = r.acquired
      /\ \A t \in DOMAIN u.disputes : \A p \in stale : u.disputes[t].votes[p] = "none"
  BY dropVotesOK
<1> HIDE DEF u
<1>3. r.positions \in [Peers -> Position] /\ r.dead \subseteq Peers /\ u \in Round(DOMAIN u.disputes)
  BY <1>2 DEF RInv, Round
<1>4. pos \in [Peers -> Position]
  BY <1>3 DEF Position
<1>5. \A t \in DOMAIN u.disputes : \A p \in Peers :
          u.disputes[t].votes[p] # "none" => pos[p].seq >= 0
  <2>1. \A t \in DOMAIN u.disputes : \A p \in Peers :
            u.disputes[t].votes[p] # "none" => r.positions[p].seq >= 0
    BY <1>2 DEF RInv, DisputesOK, Same
  <2> QED BY <1>2, <2>1
<1>6. \A p \in r.dead : pos[p].seq < 0
  <2>1. \A p \in Peers : r.positions[p].seq \in Int
    BY <1>3, ProposersAssumption DEF Position, NoProposal
  <2>2. \A p \in r.dead : r.positions[p].seq < 0
    BY <1>3, <2>1 DEF RInv, Present
  <2> QED BY <1>3, <2>2 DEF NoProposal
<1> HIDE DEF pos
<1>7. q \in Round(DOMAIN u.disputes) /\ Moved(u, q) /\ q.positions = pos /\ q.dead = u.dead
      /\ q.ourTime = u.ourTime
  BY <1>3, <1>4 DEF Round, Moved
<1> HIDE DEF q
<1>8. u.dead = r.dead
  BY <1>2 DEF Same
<1>9. RInv(q)
  BY <1>2, <1>5, <1>6, <1>7, <1>8, PositionsOK
<1>10. Kept(r, q) /\ q.acquired = r.acquired /\ SameClock(r, q)
  BY <1>2, <1>7 DEF Kept, Same, Moved, SameClock
<1> QED BY <1>1, <1>9, <1>10

LEMMA reconsiderOK ==
    ASSUME NEW r, RInv(r), NEW ours
    PROVE  LET q == reconsider(r)
           IN /\ q \in Round(DOMAIN r.disputes) /\ Same(r, q) /\ q.acquired = r.acquired
              /\ DOMAIN q.disputes = DOMAIN r.disputes
              /\ DisputesOK(q.disputes, r.positions, ours, FALSE)
<1> DEFINE d == [t \in DOMAIN r.disputes |-> updateVote(r.disputes[t], closePercent(r), r.proposing)]
           q == reconsider(r)
<1>1. /\ r \in Round(DOMAIN r.disputes) /\ r.proposing \in BOOLEAN
      /\ DisputesOK(r.disputes, r.positions, r.ourSet, Bound(r))
  BY DEF RInv, Round
<1>2. closePercent(r) \in Nat
  <2>1. r.ms \in Nat
    BY <1>1 DEF Round
  <2>2. r.ms * 100 \in Nat
    BY <2>1
  <2> QED BY <2>2, TimesAssumption, DivRises DEF closePercent
<1>3. ASSUME NEW t \in DOMAIN r.disputes
      PROVE  d[t] \in Dispute /\ Exact(d[t]) /\ d[t].votes = r.disputes[t].votes
  <2>1. r.disputes[t] \in Dispute /\ Exact(r.disputes[t])
    BY <1>1 DEF DisputesOK
  <2>2. d[t] = updateVote(r.disputes[t], closePercent(r), r.proposing)
    OBVIOUS
  <2> HIDE DEF d
  <2> QED BY <1>1, <1>2, <2>1, <2>2, updateVoteExact
<1>4. q = [r EXCEPT !.disputes = d] /\ DOMAIN d = DOMAIN r.disputes /\ d = [t \in DOMAIN d |-> d[t]]
  BY DEF reconsider
<1> HIDE DEF d, q
<1>5. d \in [DOMAIN r.disputes -> Dispute]
  BY <1>3, <1>4
<1>6. q \in Round(DOMAIN r.disputes) /\ q.disputes = d /\ Same(r, q) /\ q.acquired = r.acquired
  BY <1>1, <1>4, <1>5, RoundDisputes
<1>7. DisputesOK(d, r.positions, ours, FALSE)
  BY <1>1, <1>3, <1>4, <1>5 DEF DisputesOK
<1> QED BY <1>4, <1>6, <1>7 DEF q

\* q holds the positions of r, and unless we bowed out our time is the one they voted for.
Settled(r, q) ==
    /\ q.positions = r.positions /\ q.proposing = r.proposing /\ q.previousLedger = r.previousLedger
    /\ ~q.bowedOut => \/ q.ourTime = closeTimeVote(r).time
                      \/ round(r, q.ourTime) = closeTimeVote(r).time

\* The set of our next position is what our new votes say, and its time the one voted for.
LEMMA updateOurPositionsOK ==
    ASSUME NEW r, RInv(r), Held(r), HavePosition(r), NEW stale \in SUBSET Peers, NEW ourStale
    PROVE  LET q == updateOurPositions(r, stale, ourStale)
           IN RInv(q) /\ Held(q) /\ q.state = r.state /\ Settled(dropStale(r, stale), q)
<1> DEFINE fresh == dropStale(r, stale)
           voted == reconsider(fresh)
           flipped == Flipped(fresh)
           added == {t \in flipped : voted.disputes[t].ourVote}
           time == closeTimeVote(fresh).time
           s == (r.ourSet \cup added) \ (flipped \ added)
           changed == flipped # {} \/ time # round(r, r.ourTime) \/ ourStale
           w == [voted EXCEPT !.ourSet = s, !.ourTime = time]
           q == updateOurPositions(r, stale, ourStale)
<1>1. q = IF changed
          THEN IF voted.bowedOut THEN voted ELSE mapCompleteInternal(w, s)
          ELSE voted
  BY DEF updateOurPositions, adoptPosition
<1>2. flipped = {t \in DOMAIN fresh.disputes : voted.disputes[t].ourVote # fresh.disputes[t].ourVote}
  BY DEF Flipped
<1>3. RInv(fresh) /\ Kept(r, fresh) /\ fresh.acquired = r.acquired /\ SameClock(r, fresh)
  BY dropStaleOK
<1>4. fresh \in Round(DOMAIN fresh.disputes)
      /\ DisputesOK(fresh.disputes, fresh.positions, fresh.ourSet, Bound(fresh))
      /\ (fresh.proposing => InSync(fresh))
      /\ \A p \in fresh.dead : ~Present(fresh, p)
  BY <1>3 DEF RInv
<1>5. time \in Nat
  BY <1>4, closeTimeType
<1>6. /\ voted \in Round(DOMAIN fresh.disputes) /\ Same(fresh, voted)
      /\ voted.acquired = fresh.acquired
      /\ DOMAIN voted.disputes = DOMAIN fresh.disputes
      /\ \A ours : DisputesOK(voted.disputes, fresh.positions, ours, FALSE)
  BY <1>3, reconsiderOK
<1>7. fresh.ourSet = r.ourSet /\ fresh.state = r.state /\ fresh.bowedOut = r.bowedOut
  BY <1>3 DEF Kept
<1>8. voted.ourSet = r.ourSet /\ voted.state = r.state /\ voted.bowedOut = r.bowedOut
  BY <1>6, <1>7 DEF Same
<1> HIDE DEF fresh, voted, time, flipped, q
<1>9. s \in TxSet
  <2>1. flipped \subseteq Tx
    BY <1>2, <1>4 DEF DisputesOK
  <2>2. r.ourSet \subseteq Tx
    BY <1>4, <1>7 DEF Round, TxSet
  <2> QED BY <2>1, <2>2 DEF TxSet
<1>10. ASSUME ~r.bowedOut, NEW t \in DOMAIN voted.disputes
       PROVE  voted.disputes[t].ourVote = (t \in s)
  <2>1. Bound(fresh)
    BY <1>7, <1>10 DEF Bound, HavePosition
  <2>2. fresh.disputes[t].ourVote = (t \in r.ourSet)
    BY <1>4, <1>6, <1>7, <1>10, <2>1 DEF DisputesOK
  <2>3. voted.disputes[t].ourVote \in BOOLEAN
    BY <1>6, <1>10 DEF DisputesOK, Dispute
  <2>4. t \in flipped <=> voted.disputes[t].ourVote # (t \in r.ourSet)
    BY <1>2, <1>6, <1>10, <2>2
  <2>5. voted.disputes[t].ourVote <=> t \in s
    BY <2>3, <2>4
  <2> QED BY <2>3, <2>5
<1>11. DisputesOK(voted.disputes, fresh.positions, s, ~r.bowedOut)
  BY <1>6, <1>10 DEF DisputesOK
<1>12. flipped = {} => s = r.ourSet
  OBVIOUS
<1> HIDE DEF s, changed, added
<1>13. CASE changed /\ ~voted.bowedOut
  <2>1. w \in Round(DOMAIN w.disputes) /\ w.disputes = voted.disputes /\ w.positions = voted.positions
        /\ w.ourSet = s /\ w.state = voted.state /\ w.bowedOut = voted.bowedOut
        /\ w.dead = voted.dead /\ w.proposing = voted.proposing
        /\ w.haveCorrectLCL = voted.haveCorrectLCL
        /\ w.previousLedger = voted.previousLedger /\ w.prevLedgerHash = voted.prevLedgerHash
        /\ w.ourTime = time
    BY <1>5, <1>6, <1>9 DEF Round
  <2> HIDE DEF w
  <2>2. RInv(w)
    <3>1. w.positions = fresh.positions /\ w.dead = fresh.dead /\ w.state = r.state
          /\ (w.proposing => InSync(w)) /\ ~w.bowedOut
      BY <1>4, <1>6, <1>8, <1>13, <2>1 DEF Same, InSync
    <3>2. DisputesOK(w.disputes, w.positions, w.ourSet, Bound(w))
      BY <1>8, <1>11, <1>13, <2>1, <3>1 DEF DisputesOK
    <3>3. \A p \in w.dead : ~Present(w, p)
      BY <1>4, <3>1 DEF Present
    <3> QED BY <2>1, <3>1, <3>2, <3>3 DEF RInv, HavePosition
  <2>3. q = mapCompleteInternal(w, s)
    BY <1>1, <1>13
  <2>4. RInv(q) /\ Same(w, q) /\ s \in q.acquired
    BY <1>9, <2>2, <2>3, mapCompleteInternalOK
  <2>5. q.state = r.state /\ q.ourSet = s
    BY <1>8, <2>1, <2>4 DEF Same
  <2>6. Settled(fresh, q)
    BY <1>6, <2>1, <2>4 DEF Same, Settled, time
  <2> QED BY <2>4, <2>5, <2>6 DEF Held, q, fresh
<1>14. CASE ~changed \/ voted.bowedOut
  <2>1. q = voted
    BY <1>1, <1>14
  <2>2. DisputesOK(voted.disputes, fresh.positions, fresh.ourSet, Bound(fresh))
    <3>1. CASE voted.bowedOut
      BY <1>6, <1>7, <1>8, <3>1 DEF DisputesOK, Bound
    <3>2. CASE ~changed
      <4>1. s = fresh.ourSet
        BY <1>7, <1>12, <3>2 DEF changed
      <4> QED BY <1>7, <1>11, <4>1 DEF DisputesOK, Bound
    <3> QED BY <1>14, <3>1, <3>2
  <2>3. RInv(voted)
    <3>1. ~HavePosition(fresh) => DOMAIN voted.disputes = {}
      BY <1>7 DEF HavePosition
    <3> QED BY <1>3, <1>6, <2>2, <3>1, SameInv
  <2>4. Held(voted)
    BY <1>3, <1>6, <1>8 DEF Held, HavePosition
  <2>5. voted.bowedOut \/ round(fresh, voted.ourTime) = time
    <3>1. CASE voted.bowedOut
      BY <3>1
    <3>2. CASE ~changed
      <4>1. time = round(r, r.ourTime)
        BY <3>2 DEF changed
      <4>2. voted.ourTime = r.ourTime /\ fresh.previousLedger = r.previousLedger
        BY <1>3, <1>6 DEF Same, SameClock
      <4> QED BY <4>1, <4>2 DEF round
    <3> QED BY <1>14, <3>1, <3>2
  <2>6. Settled(fresh, voted)
    BY <1>6, <2>5 DEF Same, Settled, time
  <2> QED BY <1>8, <2>1, <2>3, <2>4, <2>6 DEF q, fresh
<1> QED BY <1>13, <1>14

LEMMA compareAllOK ==
    ASSUME NEW r, RInv(r), HavePosition(r)
    PROVE  LET q == compareAll(r) IN RInv(q) /\ Same(r, q)
<1> DEFINE uncompared == {s \in r.acquired \ r.compares : s # r.ourSet /\ ProposersOf(r, s) # {}}
<1>1. CASE r.ourSet \in r.acquired
  <2>1. compareAll(r) = [createDisputes(r, uncompared) EXCEPT !.compares = @ \cup uncompared]
    BY <1>1 DEF compareAll
  <2>2. uncompared \in SUBSET TxSet
    BY DEF RInv, Round
  <2> HIDE DEF uncompared
  <2> QED BY <2>1, <2>2, createComparesOK
<1>2. CASE r.ourSet \notin r.acquired
  BY <1>2 DEF compareAll, Same
<1> QED BY <1>1, <1>2

LEMMA stateEstablishOK ==
    ASSUME NEW r, RInv(r), Held(r), r.state = "establish",
           NEW stale \in SUBSET Peers, NEW ourStale, NEW finished
    PROVE  LET q == stateEstablish(r, stale, ourStale, finished)
           IN RInv(q) /\ Held(q) /\ q.state \in {"establish", "finished"}
<1> DEFINE v == updateOurPositions(r, stale, ourStale)
           u == compareAll(v)
           outcome == tally(u, finished)
           timeAgreed == closeTimeVote(dropStale(r, stale)).agreed
           fail == IF outcome = "no" THEN u.fail ELSE outcome = "movedOn"
           state == IF timeAgreed /\ outcome # "no" THEN "finished" ELSE u.state
           w == [u EXCEPT !.fail = fail, !.state = state]
<1>1. HavePosition(r)
  BY DEF HavePosition
<1>2. RInv(v) /\ Held(v) /\ v.state = "establish"
  BY <1>1, updateOurPositionsOK
<1>3. HavePosition(v)
  BY <1>2 DEF HavePosition
<1>4. RInv(u) /\ Same(v, u)
  BY <1>2, <1>3, compareAllOK
<1>5. Held(u) /\ u.state = "establish"
  BY <1>2, <1>4 DEF Same, Held, HavePosition
<1>6. stateEstablish(r, stale, ourStale, finished) = IF r.ms < LEDGER_MIN_CONSENSUS THEN r ELSE w
  BY DEF stateEstablish
<1>7. u \in Round(DOMAIN u.disputes) /\ fail \in BOOLEAN
  BY <1>4 DEF RInv, Round
<1>8. state \in {"establish", "finished"}
  BY <1>5
<1> HIDE DEF u, v, fail, state
<1>9. w \in Round(DOMAIN w.disputes) /\ w.state = state
      /\ w.disputes = u.disputes /\ w.positions = u.positions /\ w.dead = u.dead
  BY <1>7, <1>8 DEF Round, LCState
<1>10. w.ourSet = u.ourSet /\ w.bowedOut = u.bowedOut /\ w.acquired = u.acquired
       /\ w.proposing = u.proposing /\ w.haveCorrectLCL = u.haveCorrectLCL
       /\ w.previousLedger = u.previousLedger /\ w.prevLedgerHash = u.prevLedgerHash
  BY <1>7, <1>8 DEF Round
<1> HIDE DEF w
<1>11. Bound(w) = Bound(u) /\ HavePosition(w) /\ HavePosition(u)
  BY <1>5, <1>8, <1>9, <1>10 DEF Bound, HavePosition
<1>12. RInv(w)
  BY <1>4, <1>9, <1>10, <1>11 DEF RInv, InSync, Present
<1>13. Held(w)
  BY <1>5, <1>10, <1>11 DEF Held
<1> QED BY <1>6, <1>8, <1>9, <1>12, <1>13

LEMMA NewRoundOK ==
    ASSUME NEW l \in Ledger, NEW m \in Ledger, NEW have,
           NEW validating \in BOOLEAN, NEW full \in BOOLEAN
    PROVE  LET q == NewRound(l, m, have, validating, full)
           IN RInv(q) /\ q.state = "preClose"
<1> DEFINE pos == [p \in Peers |-> NoProposal]
           r == [state |-> "preClose", prevLedgerHash |-> l, previousLedger |-> m,
                 haveCorrectLCL |-> (l = m), acquiring |-> {},
                 proposing |-> validating /\ full /\ l = m, validating |-> validating,
                 ourSet |-> {}, ourTime |-> 0, bowedOut |-> FALSE,
                 positions |-> pos, dead |-> {},
                 acquired |-> {}, disputes |-> NoDisputes, compares |-> {},
                 fail |-> FALSE, ms |-> 0]
<1>1. NewRound(l, m, have, validating, full) = switchLedger(r, l, have)
  BY DEF NewRound
<1>2. DOMAIN NoDisputes = {} /\ NoDisputes \in [{} -> Dispute]
  BY DEF NoDisputes
<1>3. pos \in [Peers -> Position]
  BY DEF Position
<1> HIDE DEF pos
<1>4. r \in Round({}) /\ r.disputes = NoDisputes /\ r.dead = {} /\ r.state = "preClose"
      /\ r.proposing = (validating /\ full /\ l = m) /\ r.bowedOut = FALSE
      /\ r.haveCorrectLCL = (l = m) /\ r.previousLedger = m /\ r.prevLedgerHash = l
  BY <1>2, <1>3 DEF Round, LCState, TxSet
<1> HIDE DEF r
<1>5. DisputesOK(r.disputes, r.positions, r.ourSet, Bound(r))
  BY <1>2, <1>4 DEF DisputesOK
<1>6. RInv(r)
  BY <1>2, <1>4, <1>5 DEF RInv, InSync, HavePosition
<1>7. r.proposing => r.previousLedger = l
  BY <1>4
<1>8. LET q == switchLedger(r, l, have) IN RInv(q) /\ Phase(r, q)
  BY <1>6, <1>7, switchLedgerOK
<1> QED BY <1>1, <1>4, <1>8 DEF Phase

-----------------------------------------------------------------------------
(* The specification *)

JobType ==
    /\ inbound \subseteq TxSet /\ gotSet \subseteq TxSet /\ onHand \subseteq Ledger
    /\ accepting \in {"no", "queued", "built"}
    /\ DOMAIN iterated \subseteq Tx /\ iterated \in [DOMAIN iterated -> Dispute]
    /\ validation \in {"none", "partial", "full"}
    /\ reapplied \subseteq Tx

\* accept walks through disputes that say what is in our set.
JobInv ==
    /\ accepting # "no" => c.state = "finished"
    /\ accepting = "built" /\ ~c.bowedOut =>
          \A t \in DOMAIN iterated : iterated[t].ourVote = (t \in c.ourSet)
    /\ reapplied # {} => c.state = "accepted"
    /\ ~c.bowedOut => reapplied \cap c.ourSet = {}

Inv == RInv(c) /\ Held(c) /\ JobType /\ JobInv

LEMMA InitInv == Init => Inv
<1> SUFFICES ASSUME Init PROVE Inv
  OBVIOUS
<1>1. onHand \subseteq Ledger
  BY DEF Init
<1>2. PICK l \in Ledger, m \in onHand, validating \in BOOLEAN, full \in BOOLEAN :
          c = NewRound(l, m, onHand, validating, full)
  BY DEF Init
<1>3. RInv(c) /\ c.state = "preClose"
  BY <1>1, <1>2, NewRoundOK
<1>4. DOMAIN NoDisputes = {} /\ NoDisputes \in [{} -> Dispute]
  BY DEF NoDisputes
<1>5. JobType
  BY <1>1, <1>4 DEF Init, JobType, TxSet
<1>6. JobInv
  BY DEF Init, JobInv
<1> QED BY <1>3, <1>5, <1>6 DEF Inv, Held, HavePosition

\* Proposals and sets leave the accept job as it is.
LEMMA KeptJob ==
    ASSUME JobInv, Kept(c, c'), UNCHANGED job
    PROVE  JobInv'
BY DEF JobInv, Kept, job

LEMMA giveSetInv ==
    ASSUME Inv, NEW s \in TxSet, giveSet(s)
    PROVE  Inv'
BY DEF Inv, giveSet, JobType, JobInv, job

LEMMA mapCompleteInv ==
    ASSUME Inv, NEW s \in TxSet, mapComplete(s)
    PROVE  Inv'
<1>1. RInv(c') /\ Same(c, c')
  BY mapCompleteInternalOK DEF Inv, mapComplete
<1>2. Kept(c, c')
  BY <1>1, SameKept
<1>3. Held(c')
  BY <1>2, KeptHeld DEF Inv
<1>4. JobType'
  BY DEF Inv, JobType, mapComplete, job
<1>5. JobInv'
  BY <1>2, KeptJob DEF Inv, mapComplete
<1> QED BY <1>1, <1>3, <1>4, <1>5 DEF Inv

LEMMA processTrustedProposalInv ==
    ASSUME Inv, NEW p \in Peers, NEW m \in Proposal, processTrustedProposal(p, m)
    PROVE  Inv'
<1>1. RInv(c') /\ Kept(c, c')
  BY peerPositionOK DEF Inv, JobType, processTrustedProposal
<1>2. Held(c')
  BY <1>1, KeptHeld DEF Inv
<1>3. JobType'
  BY DEF Inv, JobType, processTrustedProposal, job, network
<1>4. JobInv'
  BY <1>1, KeptJob DEF Inv, processTrustedProposal
<1> QED BY <1>1, <1>2, <1>3, <1>4 DEF Inv

LEMMA ledgerArrivesInv ==
    ASSUME Inv, ledgerArrives
    PROVE  Inv'
<1>1. c.acquiring \subseteq Ledger
  BY DEF Inv, RInv, Round
<1> QED BY <1>1 DEF Inv, ledgerArrives, JobType, JobInv, job

\* In the phases before the round is decided there is no accept job.
LEMMA NoJob ==
    ASSUME JobInv, c.state \in {"preClose", "establish"}
    PROVE  accepting = "no" /\ reapplied = {}
BY DEF JobInv

LEMMA timerPreCloseInv ==
    ASSUME Inv, NEW l \in Ledger, NEW stored \in Stored(l), timerPreClose(l, stored)
    PROVE  Inv'
<1>1. RInv(c') /\ Phase(c, c')
  BY StoredOK, checkLCLOK DEF Inv, JobType, timerPreClose
<1>2. Held(c')
  BY <1>1 DEF Phase, Inv
<1>3. JobType'
  BY DEF Inv, JobType, timerPreClose, job, network
<1>4. JobInv'
  BY NoJob DEF Inv, JobInv, timerPreClose, job
<1> QED BY <1>1, <1>2, <1>3, <1>4 DEF Inv

LEMMA closeLedgerInv ==
    ASSUME Inv, NEW l \in Ledger, NEW stored \in Stored(l), NEW s \in TxSet,
           NEW time \in CloseTime, closeLedger(l, stored, s, time)
    PROVE  Inv'
<1> DEFINE r == checkLCL(c, l, onHand, stored, inbound)
<1>1. RInv(r) /\ Phase(c, r)
  BY StoredOK, checkLCLOK DEF Inv, JobType
<1>2. ~HavePosition(r)
  BY <1>1 DEF Phase, HavePosition, closeLedger
<1>3. c' = takeInitialPosition(r, s, time) /\ time \in Nat
  BY CloseTimeAssumption DEF closeLedger
<1> HIDE DEF r
<1>4. RInv(c') /\ Held(c')
  BY <1>1, <1>2, <1>3, takeInitialPositionOK
<1>5. JobType'
  BY DEF Inv, JobType, closeLedger, job
<1>6. JobInv'
  BY NoJob DEF Inv, JobInv, closeLedger, job
<1> QED BY <1>4, <1>5, <1>6 DEF Inv

\* The clock of the round is part of no other fact.
LEMMA ClockOK ==
    ASSUME NEW r, RInv(r), NEW ms \in Nat, NEW q, q = [r EXCEPT !.ms = ms]
    PROVE  RInv(q) /\ Same(r, q)
<1>1. r \in Round(DOMAIN r.disputes)
  BY DEF RInv
<1>2. q \in Round(DOMAIN q.disputes) /\ q.disputes = r.disputes /\ Same(r, q)
  BY <1>1 DEF Round, Same
<1> QED BY <1>2, SameInv DEF RInv

LEMMA timerEstablishInv ==
    ASSUME Inv, NEW l \in Ledger, NEW stored \in Stored(l), NEW ms \in Times,
           NEW stale \in SUBSET Peers, NEW ourStale \in BOOLEAN, NEW finished,
           timerEstablish(l, stored, ms, stale, ourStale, finished)
    PROVE  Inv'
<1> DEFINE u == checkLCL(c, l, onHand, stored, inbound)
           r == [u EXCEPT !.ms = ms]
<1>1. RInv(u) /\ Phase(c, u)
  BY StoredOK, checkLCLOK DEF Inv, JobType
<1>2. c' = stateEstablish(r, stale, ourStale, finished) /\ c.state = "establish"
  BY DEF timerEstablish
<1>3. ms \in Nat
  BY TimesAssumption
<1> HIDE DEF u
<1>4. RInv(r) /\ Same(u, r)
  BY <1>1, <1>3, ClockOK
<1>5. Held(r) /\ r.state = "establish"
  BY <1>1, <1>2, <1>4 DEF Phase, Same, Held, HavePosition, Inv
<1> HIDE DEF r
<1>6. RInv(c') /\ Held(c') /\ c'.state \in {"establish", "finished"}
  BY <1>2, <1>4, <1>5, stateEstablishOK
<1>7. c'.ourSet \in TxSet
  BY <1>6 DEF RInv, Round
<1>8. accepting = "no" /\ reapplied = {}
  BY <1>2, NoJob DEF Inv
<1>9. inbound' = inbound \cup {c'.ourSet} /\ UNCHANGED <<gotSet, onHand, iterated, validation, reapplied>>
      /\ accepting' = IF c'.state = "finished" THEN "queued" ELSE accepting
  BY DEF timerEstablish
<1>10. JobType'
  BY <1>7, <1>9 DEF Inv, JobType
<1>11. JobInv'
  BY <1>8, <1>9 DEF JobInv
<1> QED BY <1>6, <1>10, <1>11 DEF Inv

LEMMA acceptBuildInv ==
    ASSUME Inv, acceptBuild
    PROVE  Inv'
<1>1. c.state = "finished" /\ reapplied = {}
  BY DEF Inv, JobInv, acceptBuild
<1>2. DisputesOK(c.disputes, c.positions, c.ourSet, Bound(c))
  BY DEF Inv, RInv
<1>3. ~c.bowedOut => \A t \in DOMAIN c.disputes : c.disputes[t].ourVote = (t \in c.ourSet)
  BY <1>1, <1>2 DEF DisputesOK, Bound, HavePosition
<1>4. JobType'
  BY <1>2 DEF Inv, JobType, acceptBuild, network, DisputesOK
<1>5. JobInv'
  BY <1>1, <1>3 DEF Inv, JobInv, acceptBuild
<1> QED BY <1>4, <1>5 DEF Inv, acceptBuild

LEMMA acceptFinishInv ==
    ASSUME Inv, NEW late \in SUBSET (VotedNo(c.disputes) \ DOMAIN iterated), acceptFinish(late)
    PROVE  Inv'
<1>1. c.state = "finished" /\ c \in Round(DOMAIN c.disputes)
      /\ DisputesOK(c.disputes, c.positions, c.ourSet, Bound(c))
  BY DEF Inv, JobInv, acceptFinish, RInv
<1>2. c' = [c EXCEPT !.state = "accepted"]
  BY DEF acceptFinish
<1>3. /\ c' \in Round(DOMAIN c'.disputes)
      /\ c'.state = "accepted" /\ c'.disputes = c.disputes
      /\ c'.positions = c.positions /\ c'.dead = c.dead
      /\ c'.ourSet = c.ourSet /\ c'.bowedOut = c.bowedOut /\ c'.acquired = c.acquired
      /\ c'.proposing = c.proposing /\ c'.haveCorrectLCL = c.haveCorrectLCL
      /\ c'.previousLedger = c.previousLedger /\ c'.prevLedgerHash = c.prevLedgerHash
  BY <1>1, <1>2 DEF Round, LCState
<1>4. Bound(c') = Bound(c) /\ HavePosition(c') /\ HavePosition(c)
  BY <1>1, <1>3 DEF Bound, HavePosition
<1>5. RInv(c') /\ Held(c')
  BY <1>3, <1>4 DEF Inv, RInv, Held, InSync, Present
<1>6. reapplied' \subseteq Tx
  BY <1>1 DEF Inv, JobType, DisputesOK, VotedNo, acceptFinish
<1>7. JobType'
  BY <1>6 DEF Inv, JobType, acceptFinish, network
<1>8. ASSUME ~c.bowedOut, NEW t \in reapplied'
      PROVE  t \notin c.ourSet
  <2>1. t \in VotedNo(iterated) \/ t \in VotedNo(c.disputes)
    BY <1>8 DEF acceptFinish
  <2>2. CASE t \in VotedNo(iterated)
    BY <1>8, <2>2 DEF VotedNo, Inv, JobInv, acceptFinish
  <2>3. CASE t \in VotedNo(c.disputes)
    BY <1>1, <1>4, <1>8, <2>3 DEF VotedNo, DisputesOK, Bound
  <2> QED BY <2>1, <2>2, <2>3
<1>9. JobInv'
  BY <1>3, <1>8 DEF JobInv, acceptFinish
<1> QED BY <1>5, <1>7, <1>9 DEF Inv

LEMMA endConsensusInv ==
    ASSUME Inv, NEW l \in Ledger, NEW have \in SUBSET Ledger, NEW m \in have,
           NEW validating \in BOOLEAN, NEW full \in BOOLEAN, NEW keep \in SUBSET inbound,
           endConsensus(l, m, have, validating, full, keep)
    PROVE  Inv'
<1>1. RInv(c') /\ c'.state = "preClose"
  BY NewRoundOK DEF endConsensus
<1>2. DOMAIN NoDisputes = {} /\ NoDisputes \in [{} -> Dispute]
  BY DEF NoDisputes
<1>3. accepting' = "no" /\ reapplied' = {}
  BY DEF Inv, JobInv, endConsensus
<1>4. JobType'
  BY <1>2, <1>3 DEF Inv, JobType, endConsensus, TxSet
<1>5. JobInv'
  BY <1>3 DEF JobInv
<1> QED BY <1>1, <1>4, <1>5 DEF Inv, Held, HavePosition

LEMMA NextInv == Inv /\ [Next]_vars => Inv'
<1> SUFFICES ASSUME Inv, [Next]_vars PROVE Inv'
  OBVIOUS
<1>1. CASE Next
  BY <1>1, giveSetInv, mapCompleteInv, processTrustedProposalInv, ledgerArrivesInv,
     timerPreCloseInv, closeLedgerInv, timerEstablishInv, acceptBuildInv, acceptFinishInv,
     endConsensusInv DEF Next
<1>2. CASE UNCHANGED vars
  BY <1>2 DEF vars, network, job, Inv, JobType, JobInv
<1> QED BY <1>1, <1>2

LEMMA Invariance == Spec => []Inv
BY InitInv, NextInv, PTL DEF Spec

-----------------------------------------------------------------------------
(* The majority behind a decision *)

LEMMA Quotient ==
    ASSUME NEW n \in Nat, NEW a \in Nat, (a * 100 + 100) \div (n + 1) > 80
    PROVE  5 * (a + 1) > 4 * (n + 1)
<1> DEFINE m == n + 1
           x == a * 100 + 100
           k == x \div m
<1>1. m \in Nat /\ m > 0 /\ x \in Nat
  OBVIOUS
<1>2. k > 80
  OBVIOUS
<1>3. x = 100 * (a + 1)
  OBVIOUS
<1> HIDE DEF m, x
<1>4. k \in Nat /\ m * k <= x
  BY <1>1
<1> HIDE DEF k
<1>5. m * 81 <= m * k
  BY <1>1, <1>2, <1>4
<1>6. m * 81 <= x
  BY <1>1, <1>4, <1>5
<1> QED BY <1>1, <1>3, <1>6 DEF m

LEMMA stateEstablishMajority ==
    ASSUME NEW r, RInv(r), Held(r), r.state = "establish",
           NEW stale \in SUBSET Peers, NEW ourStale, NEW finished,
           NEW q, q = stateEstablish(r, stale, ourStale, finished),
           q.state = "finished", ~q.fail
    PROVE  5 * (Cardinality(ProposersOf(q, q.ourSet)) + 1) > 4 * (Cardinality(Proposers(q)) + 1)
<1> DEFINE v == updateOurPositions(r, stale, ourStale)
           u == compareAll(v)
           outcome == tally(u, finished)
           timeAgreed == closeTimeVote(dropStale(r, stale)).agreed
           fail == IF outcome = "no" THEN u.fail ELSE outcome = "movedOn"
           state == IF timeAgreed /\ outcome # "no" THEN "finished" ELSE u.state
<1>1. HavePosition(r)
  BY DEF HavePosition
<1>2. RInv(v) /\ Held(v) /\ v.state = "establish"
  BY <1>1, updateOurPositionsOK
<1>3. HavePosition(v)
  BY <1>2 DEF HavePosition
<1>4. RInv(u) /\ u.state = "establish"
  BY <1>2, <1>3, compareAllOK DEF Same
<1>5. q = [u EXCEPT !.fail = fail, !.state = state]
  BY DEF stateEstablish
<1>6. u \in Round(DOMAIN u.disputes)
  BY <1>4 DEF RInv
<1> HIDE DEF u, v, timeAgreed, outcome
<1>7. q.state = state /\ q.fail = fail /\ q.positions = u.positions /\ q.ourSet = u.ourSet
  <2> HIDE DEF state, fail
  <2> QED BY <1>5, <1>6 DEF Round
<1>8. outcome # "no" /\ outcome # "movedOn"
  BY <1>4, <1>7
<1> DEFINE n == Cardinality(Proposers(u))
           a == Cardinality(ProposersOf(u, u.ourSet))
<1>9. n \in Nat /\ a \in Nat
  <2>1. IsFiniteSet(Proposers(u)) /\ IsFiniteSet(ProposersOf(u, u.ourSet))
    BY PeersAssumption, FS_Subset DEF Proposers, ProposersOf
  <2> QED BY <2>1, FS_CardinalityType
<1>10. outcome = haveConsensus(PreviousProposers, n, a, finished, PreviousMSeconds, u.ms)
  BY DEF outcome, tally
<1> HIDE DEF n, a
<1>11. (a * 100 + 100) \div (n + 1) > 80
  BY <1>8, <1>10 DEF haveConsensus
<1>12. 5 * (a + 1) > 4 * (n + 1)
  BY <1>9, <1>11, Quotient
<1>13. Proposers(q) = Proposers(u) /\ ProposersOf(q, q.ourSet) = ProposersOf(u, u.ourSet)
  BY <1>7 DEF Proposers, ProposersOf, Present
<1> QED BY <1>12, <1>13 DEF n, a

\* Only timerEntry in the establish phase decides a round.
LEMMA DecidingStep ==
    ASSUME Inv, [Next]_vars, c.state = "establish", c'.state = "finished"
    PROVE  \E r, stale, ourStale, finished :
             /\ stale \in SUBSET Peers /\ RInv(r) /\ Held(r) /\ r.state = "establish"
             /\ c' = stateEstablish(r, stale, ourStale, finished)
<1>1. c' # c
  OBVIOUS
<1>2. PICK l \in Ledger : \E stored \in Stored(l) :
        \E ms \in Times, stale \in SUBSET Peers, ourStale \in BOOLEAN,
           finished \in 0 .. Cardinality(Peers) :
              timerEstablish(l, stored, ms, stale, ourStale, finished)
  <2>1. ASSUME NEW s \in TxSet, mapComplete(s)
        PROVE  FALSE
    BY <2>1, mapCompleteInternalOK DEF Inv, mapComplete, Same
  <2>2. ASSUME NEW p \in Peers, NEW m \in Proposal, processTrustedProposal(p, m)
        PROVE  FALSE
    BY <2>2, peerPositionOK DEF Inv, JobType, processTrustedProposal, Kept
  <2>3. ASSUME NEW late, acceptFinish(late)
        PROVE  FALSE
    BY <2>3 DEF Inv, JobInv, acceptFinish
  <2>4. Next
    BY <1>1 DEF vars
  <2> QED BY <1>1, <2>1, <2>2, <2>3, <2>4
          DEF Next, giveSet, ledgerArrives, timerPreClose, closeLedger, acceptBuild, endConsensus
<1>3. PICK stored \in Stored(l), ms \in Times, stale \in SUBSET Peers, ourStale \in BOOLEAN,
           finished \in 0 .. Cardinality(Peers) :
              timerEstablish(l, stored, ms, stale, ourStale, finished)
  BY <1>2
<1> DEFINE u == checkLCL(c, l, onHand, stored, inbound)
           r == [u EXCEPT !.ms = ms]
<1>4. RInv(u) /\ Phase(c, u)
  BY StoredOK, checkLCLOK DEF Inv, JobType
<1>5. c' = stateEstablish(r, stale, ourStale, finished)
  BY <1>3 DEF timerEstablish
<1>6. ms \in Nat
  BY TimesAssumption
<1> HIDE DEF u
<1>7. RInv(r) /\ Same(u, r)
  BY <1>4, <1>6, ClockOK
<1>8. Held(r) /\ r.state = "establish"
  BY <1>4, <1>7 DEF Phase, Same, Held, HavePosition, Inv
<1> HIDE DEF r
<1> QED BY <1>5, <1>7, <1>8

LEMMA NextMajority ==
    ASSUME Inv, [Next]_vars, c.state = "establish", c'.state = "finished", ~c'.fail
    PROVE  5 * (Cardinality(ProposersOf(c', c'.ourSet)) + 1) > 4 * (Cardinality(Proposers(c')) + 1)
<1>1. PICK r, stale, ourStale, finished :
        /\ stale \in SUBSET Peers /\ RInv(r) /\ Held(r) /\ r.state = "establish"
        /\ c' = stateEstablish(r, stale, ourStale, finished)
  BY DecidingStep
<1> QED BY <1>1, stateEstablishMajority

-----------------------------------------------------------------------------
(* The close time *)

\* The remainder of a multiple and a rest.
LEMMA Remainder ==
    ASSUME NEW m \in Nat \ {0}, NEW k \in Nat, NEW h \in Nat, h < m
    PROVE  (m * k + h) % m = h
<1> DEFINE x == m * k + h
           j == x \div m
<1>1. m * k \in Nat /\ x \in Nat
  OBVIOUS
<1>2. x = m * j + (x % m) /\ x % m \in Nat /\ x % m < m /\ j \in Nat
  <2> HIDE DEF x
  <2>1. x % m \in Nat /\ x % m < m /\ j \in Nat
    BY <1>1
  <2>2. x = m * j + (x % m)
    BY <1>1
  <2> QED BY <2>1, <2>2
<1>3. x = m * k + h
  OBVIOUS
<1> HIDE DEF x, j
<1>4. ~(j < k)
  <2> SUFFICES ASSUME j < k PROVE FALSE
    OBVIOUS
  <2>1. m * (j + 1) <= m * k
    BY <1>2
  <2>2. m * (j + 1) = m * j + m
    BY <1>2
  <2> QED BY <1>1, <1>2, <1>3, <2>1, <2>2
<1>5. ~(k < j)
  <2> SUFFICES ASSUME k < j PROVE FALSE
    OBVIOUS
  <2>1. m * (k + 1) <= m * j
    BY <1>2
  <2>2. m * (k + 1) = m * k + m
    OBVIOUS
  <2> QED BY <1>1, <1>2, <1>3, <2>1, <2>2
<1>6. j = k
  BY <1>2, <1>4, <1>5
<1>7. x % m = h
  <2> DEFINE p == m * k
             y == x % m
  <2>1. x = p + y /\ y \in Nat
    BY <1>2, <1>6
  <2>2. x = p + h /\ p \in Nat
    BY <1>1, <1>3
  <2> HIDE DEF p, y
  <2>3. y = h
    BY <2>1, <2>2
  <2> QED BY <2>3 DEF y
<1> QED BY <1>7 DEF x

\* Rounding a close time twice is rounding it once.
LEMMA roundTwice ==
    ASSUME NEW D, NEW r \in Round(D), NEW time \in Nat
    PROVE  round(r, round(r, time)) = round(r, time)
<1> DEFINE m == Resolution[r.previousLedger]
           h == m \div 2
           t == time + h
           k == t \div m
           x == m * k
<1>1. m \in Nat \ {0}
  BY ResolutionAssumption DEF Round
<1>2. \A y : round(r, y) = IF y = 0 THEN 0 ELSE (y + h) - ((y + h) % m)
  BY DEF round, roundCloseTime
<1> HIDE DEF m
<1>3. h \in Nat /\ h < m
  BY <1>1
<1> HIDE DEF h
<1>4. t \in Nat
  BY <1>3
<1> HIDE DEF t
<1>5. k \in Nat /\ t - (t % m) = m * k
  BY <1>1, <1>4
<1> HIDE DEF k
<1>6. x \in Nat /\ (x + h) % m = h
  BY <1>1, <1>3, <1>5, Remainder
<1>7. time # 0 => round(r, time) = x
  BY <1>2, <1>5 DEF t
<1> HIDE DEF x
<1>8. (x + h) - h = x
  BY <1>3, <1>6
<1>9. round(r, x) = x /\ round(r, 0) = 0
  BY <1>2, <1>6, <1>8
<1> QED BY <1>2, <1>7, <1>9

LEMMA VotesType ==
    ASSUME NEW r, NEW t
    PROVE  TimeVotes(r, t) \in Nat
<1> DEFINE S == {p \in Proposers(r) : round(r, r.positions[p].closeTime) = t}
<1>1. S \subseteq Peers
  BY DEF Proposers
<1>2. Cardinality(S) \in Nat
  BY <1>1, PeersAssumption, FS_Subset, FS_CardinalityType
<1>3. TimeVotes(r, t) = Cardinality(S) + (IF r.proposing /\ round(r, r.ourTime) = t THEN 1 ELSE 0)
  BY DEF TimeVotes
<1> HIDE DEF S
<1> QED BY <1>2, <1>3

LEMMA ThresholdType ==
    ASSUME NEW r
    PROVE  computePercent(Participants(r), AV_CT_CONSENSUS_PCT) \in Nat
<1> DEFINE n == Participants(r)
           x == n * 75 + 75 \div 2
<1>1. Cardinality(Proposers(r)) \in Nat
  <2>1. Proposers(r) \subseteq Peers
    BY DEF Proposers
  <2> QED BY <2>1, PeersAssumption, FS_Subset, FS_CardinalityType
<1>2. n \in Nat
  BY <1>1 DEF Participants
<1> HIDE DEF n
<1>3. x \in Nat
  BY <1>2
<1>4. computePercent(n, AV_CT_CONSENSUS_PCT) = IF x \div 100 = 0 THEN 1 ELSE x \div 100
  BY DEF computePercent, AV_CT_CONSENSUS_PCT
<1> HIDE DEF x
<1> QED BY <1>3, <1>4 DEF n

\* Our own vote is all that taking a position can add to those for a close time.
LEMMA SettledVotes ==
    ASSUME NEW r, NEW q, Settled(r, q), NEW t, round(q, q.ourTime) = t
    PROVE  TimeVotes(q, t) >= TimeVotes(r, t) /\ Participants(q) = Participants(r)
<1> DEFINE S == {p \in Proposers(r) : round(r, r.positions[p].closeTime) = t}
           n == Cardinality(S)
<1>1. S \subseteq Peers
  BY DEF Proposers
<1>2. n \in Nat
  BY <1>1, PeersAssumption, FS_Subset, FS_CardinalityType
<1>3. Proposers(q) = Proposers(r)
  BY DEF Settled, Proposers, Present
<1>4. {p \in Proposers(q) : round(q, q.positions[p].closeTime) = t} = S
  BY <1>3 DEF Settled, round
<1>5. TimeVotes(r, t) = n + (IF r.proposing /\ round(r, r.ourTime) = t THEN 1 ELSE 0)
  BY DEF TimeVotes
<1>6. TimeVotes(q, t) = n + (IF r.proposing THEN 1 ELSE 0)
  BY <1>4 DEF TimeVotes, Settled
<1>7. Participants(q) = Participants(r)
  BY <1>3 DEF Participants, Settled
<1> HIDE DEF n
<1> QED BY <1>2, <1>5, <1>6, <1>7

Agreed(r, t) == TimeVotes(r, t) >= computePercent(Participants(r), AV_CT_CONSENSUS_PCT)

\* A close time that has consensus has the votes, and is a rounded one.
LEMMA closeTimeAgreed ==
    ASSUME NEW D, NEW r \in Round(D), Proposers(r) # {}, closeTimeVote(r).agreed
    PROVE  LET t == closeTimeVote(r).time IN Agreed(r, t) /\ round(r, t) = t
<1> DEFINE times == {round(r, r.positions[p].closeTime) : p \in Proposers(r)}
                       \cup (IF r.proposing THEN {round(r, r.ourTime)} ELSE {})
           threshVote == computePercent(Participants(r), AvalancheWeight(closePercent(r)))
           threshConsensus == computePercent(Participants(r), AV_CT_CONSENSUS_PCT)
           best == {t \in times :
                      /\ TimeVotes(r, t) >= threshVote
                      /\ \A u \in times \ {t} :
                            TimeVotes(r, u) < TimeVotes(r, t) + (IF u < t THEN 1 ELSE 0)}
           time == IF best = {} THEN 0 ELSE CHOOSE t \in best : TRUE
<1>1. closeTimeVote(r) =
        IF best # {} /\ TimeVotes(r, time) >= threshConsensus
        THEN [time |-> time, agreed |-> TRUE]
        ELSE IF TimeVotes(r, 0) > threshConsensus
        THEN [time |-> 0, agreed |-> TRUE]
        ELSE [time |-> time, agreed |-> FALSE]
  BY DEF closeTimeVote
<1>2. r.ourTime \in Nat /\ \A p \in Proposers(r) : r.positions[p].closeTime \in Nat
  BY closeTimesIn
<1>3. \A t \in times : round(r, t) = t
  BY <1>2, roundTwice
<1>4. best \subseteq times
  OBVIOUS
<1> HIDE DEF best, times
<1>5. best # {} => round(r, time) = time
  BY <1>3, <1>4
<1>6. round(r, 0) = 0
  BY DEF round, roundCloseTime
<1> HIDE DEF time
<1>7. \/ best # {} /\ TimeVotes(r, time) >= threshConsensus /\ closeTimeVote(r).time = time
      \/ TimeVotes(r, 0) > threshConsensus /\ closeTimeVote(r).time = 0
  <2> HIDE DEF threshConsensus
  <2> QED BY <1>1
<1>8. TimeVotes(r, 0) > threshConsensus => TimeVotes(r, 0) >= threshConsensus
  BY VotesType, ThresholdType
<1> QED BY <1>5, <1>6, <1>7, <1>8 DEF Agreed

LEMMA stateEstablishTime ==
    ASSUME NEW r, RInv(r), Held(r), r.state = "establish",
           NEW stale \in SUBSET Peers, NEW ourStale, NEW finished,
           NEW q, q = stateEstablish(r, stale, ourStale, finished),
           q.state = "finished", ~q.bowedOut, Proposers(q) # {}
    PROVE  Agreed(q, round(q, q.ourTime))
<1> DEFINE fresh == dropStale(r, stale)
           v == updateOurPositions(r, stale, ourStale)
           u == compareAll(v)
           outcome == tally(u, finished)
           timeAgreed == closeTimeVote(fresh).agreed
           fail == IF outcome = "no" THEN u.fail ELSE outcome = "movedOn"
           state == IF timeAgreed /\ outcome # "no" THEN "finished" ELSE u.state
           t == closeTimeVote(fresh).time
<1>1. HavePosition(r)
  BY DEF HavePosition
<1>2. RInv(v) /\ v.state = "establish" /\ Settled(fresh, v)
  BY <1>1, updateOurPositionsOK
<1>3. HavePosition(v)
  BY <1>2 DEF HavePosition
<1>4. RInv(u) /\ Same(v, u)
  BY <1>2, <1>3, compareAllOK
<1>5. q = [u EXCEPT !.fail = fail, !.state = state]
  BY DEF stateEstablish
<1>6. u \in Round(DOMAIN u.disputes)
  BY <1>4 DEF RInv
<1>7. fresh \in Round(DOMAIN fresh.disputes)
  BY dropStaleOK DEF RInv
<1> HIDE DEF u, v, timeAgreed, outcome, fresh
<1>8. q.state = state /\ q.positions = u.positions /\ q.proposing = u.proposing
      /\ q.previousLedger = u.previousLedger /\ q.bowedOut = u.bowedOut /\ q.ourTime = u.ourTime
  <2> HIDE DEF state, fail
  <2> QED BY <1>5, <1>6 DEF Round
<1>9. u.state = "establish"
  BY <1>2, <1>4 DEF Same
<1>10. timeAgreed
  BY <1>8, <1>9
<1> HIDE DEF t
<1>11. Settled(fresh, q)
  BY <1>2, <1>4, <1>8 DEF Same, Settled
<1>12. Proposers(fresh) # {}
  BY <1>11 DEF Settled, Proposers, Present
<1>13. Agreed(fresh, t) /\ round(fresh, t) = t
  BY <1>7, <1>10, <1>12, closeTimeAgreed DEF timeAgreed, t
<1>14. round(q, q.ourTime) = t
  BY <1>11, <1>13 DEF Settled, round, t
<1>15. TimeVotes(q, t) >= TimeVotes(fresh, t) /\ Participants(q) = Participants(fresh)
  BY <1>11, <1>14, SettledVotes
<1>16. TimeVotes(q, t) \in Nat /\ TimeVotes(fresh, t) \in Nat
       /\ computePercent(Participants(fresh), AV_CT_CONSENSUS_PCT) \in Nat
  BY VotesType, ThresholdType
<1>17. TimeVotes(q, t) >= computePercent(Participants(fresh), AV_CT_CONSENSUS_PCT)
  BY <1>13, <1>15, <1>16 DEF Agreed
<1> QED BY <1>14, <1>15, <1>17 DEF Agreed

LEMMA NextCloseTime ==
    ASSUME Inv, [Next]_vars, c.state = "establish", c'.state = "finished",
           ~c'.bowedOut, Proposers(c') # {}
    PROVE  TimeVotes(c', round(c', c'.ourTime))
             >= computePercent(Participants(c'), AV_CT_CONSENSUS_PCT)
<1>1. PICK r, stale, ourStale, finished :
        /\ stale \in SUBSET Peers /\ RInv(r) /\ Held(r) /\ r.state = "establish"
        /\ c' = stateEstablish(r, stale, ourStale, finished)
  BY DecidingStep
<1>2. Agreed(c', round(c', c'.ourTime))
  BY <1>1, stateEstablishTime
<1> QED BY <1>2 DEF Agreed

-----------------------------------------------------------------------------
\* The members of a LedgerConsensusImp keep their types through every handler.
THEOREM TypeCorrect == Spec => []TypeOK
<1>1. Inv => TypeOK
  BY DEF Inv, RInv, DisputesOK, JobType, TypeOK
<1> QED BY <1>1, Invariance, PTL

\* From the initial position on, the set we propose is one we hold, so beginAccept does not
\* abort and createDisputes finds it.
THEOREM OurSetHeld == Spec => []OurSetOnHand
<1>1. Inv => OurSetOnHand
  BY DEF Inv, Held, OurSetOnHand
<1> QED BY <1>1, Invariance, PTL

\* Until we bow out, our votes on the disputes are the content of our position.
THEOREM OurVotes == Spec => []OurVotesAreOurSet
<1>1. Inv => OurVotesAreOurSet
  BY DEF Inv, RInv, DisputesOK, Bound, OurVotesAreOurSet
<1> QED BY <1>1, Invariance, PTL

\* Only peers that take part are counted, and the counters are their votes.
THEOREM VotesCounted == Spec => []VotesOnRecord
<1>1. Inv => VotesOnRecord
  BY DEF Inv, RInv, DisputesOK, Exact, Present, VotesOnRecord
<1> QED BY <1>1, Invariance, PTL

\* A peer that bowed out is not brought back by a late or reordered proposal.
THEOREM DeadPeers == Spec => []DeadStayDead
<1>1. Inv => DeadStayDead
  BY DEF Inv, RInv, DeadStayDead
<1> QED BY <1>1, Invariance, PTL

\* Who proposes works from the ledger of the network and has not bowed out.
THEOREM Proposing == Spec => []ProposingInSync
<1>1. Inv => ProposingInSync
  BY DEF Inv, RInv, InSync, ProposingInSync
<1> QED BY <1>1, Invariance, PTL

\* accept gives to the open ledger only transactions that are not in the accepted set,
\* although it walks through the disputes without the lock.
THEOREM Reapplied == Spec => []ReappliedDidNotGetIn
<1>1. Inv => ReappliedDidNotGetIn
  BY DEF Inv, JobInv, ReappliedDidNotGetIn
<1> QED BY <1>1, Invariance, PTL

\* A round is decided without the failure flag only with the agreement of more than four
\* fifths of the participants, for any number of peers.
THEOREM Majority == Spec => DecisionHasMajority
<1>1. Inv /\ [Next]_vars =>
        [c.state = "establish" /\ c'.state = "finished" /\ ~c'.fail =>
           5 * (Cardinality(ProposersOf(c', c'.ourSet)) + 1) > 4 * (Cardinality(Proposers(c')) + 1)]_vars
  BY NextMajority
<1> QED BY <1>1, Invariance, PTL DEF Spec, DecisionHasMajority

\* When we decide a round with peers in it and have not bowed out, the close time we
\* propose has the votes of AV_CT_CONSENSUS_PCT of the participants, for any number of peers,
\* any times and any resolution.
THEOREM CloseTimeHolds == Spec => CloseTimeAgreed
<1>1. Inv /\ [Next]_vars =>
        [c.state = "establish" /\ c'.state = "finished" /\ ~c'.bowedOut /\ Proposers(c') # {} =>
           TimeVotes(c', round(c', c'.ourTime)) >= computePercent(Participants(c'), AV_CT_CONSENSUS_PCT)]_vars
  BY NextCloseTime
<1> QED BY <1>1, Invariance, PTL DEF Spec, CloseTimeAgreed

-----------------------------------------------------------------------------
\* The life of one disputed transaction (DisputeVoting).  The counters being exact is
\* inductive by itself; stability and the ratchet follow from the counters being naturals,
\* the thresholds rising, and the weight rising with our own vote.
DisputeInv == DisputeTypeOK /\ CountsExact

LEMMA DisputeInitInv == DisputeInit => DisputeInv
<1> SUFFICES ASSUME DisputeInit PROVE DisputeInv
  OBVIOUS
<1>1. PICK ours \in BOOLEAN : dispute = NewDispute(ours, [p \in Peers |-> "none"])
  BY DEF DisputeInit
<1>2. [p \in Peers |-> "none"] \in [Peers -> Vote]
  BY DEF Vote
<1>3. dispute \in Dispute /\ Exact(dispute)
  BY <1>1, <1>2, NewDisputeExact
<1>4. CountsExact
  BY <1>3 DEF CountsExact, Exact
<1> QED BY <1>3, <1>4, PercentsAssumption DEF DisputeInit, DisputeInv, DisputeTypeOK

\* Whatever keeps the dispute exact keeps the invariant.
LEMMA DisputeKeepsInv ==
    ASSUME dispute' \in Dispute, Exact(dispute'), percent' \in Percents, proposing' \in BOOLEAN
    PROVE  DisputeInv'
BY DEF DisputeInv, DisputeTypeOK, CountsExact, Exact

LEMMA DisputeNextInv == DisputeInv /\ [DisputeNext]_disputeVars => DisputeInv'
<1> SUFFICES ASSUME DisputeInv, [DisputeNext]_disputeVars PROVE DisputeInv'
  OBVIOUS
<1>1. /\ dispute \in Dispute /\ Exact(dispute)
      /\ percent \in Percents /\ proposing \in BOOLEAN
  BY DEF DisputeInv, DisputeTypeOK, CountsExact, Exact
<1>2. ASSUME NEW ps \in SUBSET Peers, NEW yes \in BOOLEAN, PeerVotes(ps, yes)
      PROVE  DisputeInv'
  <2>1. dispute' \in Dispute /\ Exact(dispute')
    BY <1>1, <1>2, setVoteExact DEF PeerVotes
  <2> QED BY <1>1, <1>2, <2>1, DisputeKeepsInv DEF PeerVotes
<1>3. ASSUME NEW ps \in SUBSET Peers, PeersLeave(ps)
      PROVE  DisputeInv'
  <2>1. dispute' \in Dispute /\ Exact(dispute')
    BY <1>1, <1>3, unVoteExact DEF PeersLeave
  <2> QED BY <1>1, <1>3, <2>1, DisputeKeepsInv DEF PeersLeave
<1>4. ASSUME NEW q \in Percents, Reconsider(q)
      PROVE  DisputeInv'
  <2>1. dispute' \in Dispute /\ Exact(dispute')
    BY <1>1, <1>4, updateVoteExact, PercentsAssumption DEF Reconsider
  <2> QED BY <1>1, <1>4, <2>1, DisputeKeepsInv DEF Reconsider
<1>5. CASE StopProposing
  BY <1>1, <1>5, DisputeKeepsInv DEF StopProposing
<1>6. CASE UNCHANGED disputeVars
  BY <1>1, <1>6, DisputeKeepsInv DEF disputeVars
<1> QED BY <1>2, <1>3, <1>4, <1>5, <1>6 DEF DisputeNext

LEMMA DisputeInvariance == DisputeSpec => []DisputeInv
BY DisputeInitInv, DisputeNextInv, PTL DEF DisputeSpec

-----------------------------------------------------------------------------
\* The vote updateVote arrives at, when it does not return early, is the one it would
\* arrive at again.
LEMMA NewVoteStable ==
    ASSUME NEW d \in Dispute, NEW e \in Dispute, NEW q \in Nat, NEW pr \in BOOLEAN,
           e.yays = d.yays, e.nays = d.nays, e.ourVote = NewVote(d, q, pr)
    PROVE  NewVote(e, q, pr) = e.ourVote
<1>1. CASE ~pr
  BY <1>1 DEF NewVote
<1>2. CASE pr
  <2>1. AvalancheWeight(q) \in 50 .. 95
    BY AvalancheRises
  <2>2. e.ourVote <=> Weight(d) > AvalancheWeight(q)
    BY <1>2 DEF NewVote
  <2>3. d.ourVote \in BOOLEAN /\ e.ourVote \in BOOLEAN
    BY DEF Dispute
  <2>4. e.ourVote => Weight(e) > AvalancheWeight(q)
    <3>1. e.ourVote => Weight(d) \in Nat /\ Weight(e) \in Nat /\ Weight(d) <= Weight(e)
      BY WeightRises
    <3> QED BY <2>1, <2>2, <3>1
  <2>5. ~e.ourVote => ~(Weight(e) > AvalancheWeight(q))
    <3>1. ~e.ourVote => Weight(d) \in Nat /\ Weight(e) \in Nat /\ Weight(e) <= Weight(d)
      BY WeightRises
    <3> QED BY <2>1, <2>2, <3>1
  <2>6. (Weight(e) > AvalancheWeight(q)) <=> e.ourVote
    BY <2>4, <2>5
  <2>7. (Weight(e) > AvalancheWeight(q)) \in BOOLEAN
    <3>1. Weight(e) \in Nat
      BY WeightRises
    <3> QED BY <2>1, <3>1
  <2>8. (Weight(e) > AvalancheWeight(q)) = e.ourVote
    BY <2>3, <2>6, <2>7, Zenon
  <2> QED BY <1>2, <2>8 DEF NewVote
<1> QED BY <1>1, <1>2

LEMMA StableInv == DisputeInv => DecisionStable
<1> SUFFICES ASSUME DisputeInv, NEW q \in Percents
             PROVE  VoteSettled(updateVote(dispute, q, proposing), q)
  BY DEF DecisionStable
<1> DEFINE d == dispute
           e == updateVote(d, q, proposing)
           v == NewVote(d, q, proposing)
<1>1. d \in Dispute /\ Exact(d) /\ proposing \in BOOLEAN /\ q \in Nat
  BY PercentsAssumption DEF DisputeInv, DisputeTypeOK, CountsExact, Exact
<1>2. e \in Dispute
  BY <1>1, updateVoteExact
<1>3. e = d \/ e = [d EXCEPT !.ourVote = v]
  BY DEF updateVote
<1>4. CASE e = d
  BY <1>4 DEF VoteSettled
<1>5. CASE e = [d EXCEPT !.ourVote = v]
  <2> HIDE DEF v, e
  <2>1. e.yays = d.yays /\ e.nays = d.nays /\ e.ourVote = v
    BY <1>1, <1>5 DEF Dispute
  <2>2. NewVote(e, q, proposing) = e.ourVote
    BY <1>1, <1>2, <2>1, NewVoteStable DEF v
  <2>3. [e EXCEPT !.ourVote = e.ourVote] = e
    BY <1>2 DEF Dispute
  <2>4. updateVote(e, q, proposing) = e
    BY <2>2, <2>3 DEF updateVote
  <2> QED BY <2>4 DEF VoteSettled, e
<1> QED BY <1>3, <1>4, <1>5

LEMMA RatchetInv == DisputeInv => Ratchet
<1> SUFFICES ASSUME DisputeInv PROVE Ratchet
  OBVIOUS
<1> SUFFICES ASSUME NEW q \in Percents, NEW r \in Percents, q <= r, proposing,
                    VoteSettled(dispute, q), updateVote(dispute, r, proposing).ourVote,
                    ~dispute.ourVote
             PROVE  FALSE
  BY DEF Ratchet
<1>1. dispute \in Dispute /\ q \in Nat /\ r \in Nat
  BY PercentsAssumption DEF DisputeInv, DisputeTypeOK
<1>2. dispute.yays # 0
  BY DEF updateVote
<1>3. Weight(dispute) > AvalancheWeight(r)
  <2>1. updateVote(dispute, r, proposing) = [dispute EXCEPT !.ourVote = NewVote(dispute, r, proposing)]
    BY <1>2 DEF updateVote
  <2>2. NewVote(dispute, r, proposing)
    BY <1>1, <2>1 DEF Dispute
  <2> QED BY <2>2 DEF NewVote
<1>4. /\ AvalancheWeight(q) \in 50 .. 95
      /\ AvalancheWeight(r) \in 50 .. 95
      /\ AvalancheWeight(q) <= AvalancheWeight(r)
  BY <1>1, AvalancheRises
<1>5. Weight(dispute) \in Nat
  BY <1>1, WeightRises
<1>6. NewVote(dispute, q, proposing)
  BY <1>3, <1>4, <1>5 DEF NewVote
<1>7. updateVote(dispute, q, proposing) = [dispute EXCEPT !.ourVote = NewVote(dispute, q, proposing)]
  BY <1>2 DEF updateVote
<1>8. updateVote(dispute, q, proposing).ourVote
  BY <1>1, <1>6, <1>7 DEF Dispute
<1> QED BY <1>8 DEF VoteSettled

-----------------------------------------------------------------------------
\* The counters of a disputed transaction are naturals and its votes one per peer.
THEOREM DisputeTypes == DisputeSpec => []DisputeTypeOK
BY DisputeInvariance, PTL DEF DisputeInv

\* mYays and mNays are the votes on record after any sequence of votes, changed votes and
\* departures, for any number of peers.
THEOREM Counts == DisputeSpec => []CountsExact
BY DisputeInvariance, PTL DEF DisputeInv

\* Reconsidering with the same votes at the same time does not change the result, although
\* our own vote is part of the weight.
THEOREM Stable == DisputeSpec => []DecisionStable
BY DisputeInvariance, StableInv, PTL

\* With the peers' votes standing still, time turns our settled vote from yes to no at most.
THEOREM RatchetHolds == DisputeSpec => []Ratchet
BY DisputeInvariance, RatchetInv, PTL

=============================================================================
