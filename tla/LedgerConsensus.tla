-------------------------- MODULE LedgerConsensus --------------------------
(***************************************************************************)
(* A consensus round of one node (src/consensus/LedgerConsensus.cpp).  The *)
(* members of the LedgerConsensusImp object are the record c; an operator  *)
(* named after a method maps the object to the object after the call.  The *)
(* handlers run under the master lock and are the actions; accept runs in  *)
(* a job of its own and is two actions.                                    *)
(*                                                                         *)
(* A transaction set stands for its hash.  Peers are free: any proposal    *)
(* may arrive at any time, repeated, late or out of order.  The entry of a *)
(* set in mAcquired is never null, since TransactionAcquire::done reports  *)
(* only complete sets, so mAcquired is a set of sets.                      *)
(***************************************************************************)
EXTENDS DisputedTx

CONSTANTS
    Tx,                 \* transactions
    Ledger,             \* hashes of closed ledgers
    CloseTime,          \* close times in proposals, in seconds
    Resolution,         \* Resolution[l]: close resolution of the round after l
    Times,              \* values of mCurrentMSeconds in lcsESTABLISH
    PreviousProposers,  \* mPreviousProposers
    PreviousMSeconds,   \* mPreviousMSeconds
    MaxSeq              \* bound: greatest propose sequence of a peer

ASSUME TxAssumption == IsFiniteSet(Tx)
ASSUME CloseTimeAssumption == CloseTime \subseteq Nat
ASSUME ResolutionAssumption == Resolution \in [Ledger -> Nat \ {0}]
ASSUME TimesAssumption == Times \subseteq Nat /\ PreviousMSeconds \in Nat \ {0}
ASSUME ProposersAssumption == PreviousProposers \in Nat /\ MaxSeq \in Nat

\* LedgerProposal::seqLeave, greater than any other sequence.
seqLeave == MaxSeq + 1

TxSet == SUBSET Tx

Proposal == [seq : 0 .. seqLeave, set : TxSet, closeTime : CloseTime]

NoProposal == [seq |-> -1, set |-> {}, closeTime |-> 0]

Position == [seq : 0 .. MaxSeq, set : TxSet, closeTime : CloseTime] \cup {NoProposal}

VARIABLES
    c,           \* the LedgerConsensusImp
    inbound,     \* complete sets held by InboundTransactions
    gotSet,      \* sets given, whose mapComplete has not run yet
    onHand,      \* closed ledgers LedgerMaster can give
    accepting,   \* the accept job: "no", "queued" or "built"
    iterated,    \* the disputes when accept began to walk through mDisputes
    validation,  \* what this round has validated: "none", "partial" or "full"
    reapplied    \* disputed transactions given to the new open ledger

network == <<inbound, gotSet, onHand>>
job == <<accepting, iterated, validation, reapplied>>
vars == <<c, network, job>>

LCState == {"preClose", "establish", "finished", "accepted"}

NoDisputes == [t \in {} |-> NewDispute(FALSE, [p \in Peers |-> "none"])]

\* A round in which the transactions D are in dispute.
Round(D) ==
    [state : LCState,
     prevLedgerHash : Ledger, previousLedger : Ledger,
     haveCorrectLCL : BOOLEAN, acquiring : SUBSET Ledger,
     proposing : BOOLEAN, validating : BOOLEAN,
     ourSet : TxSet, ourTime : Nat, bowedOut : BOOLEAN,
     positions : [Peers -> Position], dead : SUBSET Peers,
     acquired : SUBSET TxSet, disputes : [D -> Dispute], compares : SUBSET TxSet,
     fail : BOOLEAN, ms : Nat]

TypeOK ==
    /\ DOMAIN c.disputes \subseteq Tx
    /\ c \in Round(DOMAIN c.disputes)
    /\ inbound \subseteq TxSet
    /\ gotSet \subseteq TxSet
    /\ onHand \subseteq Ledger
    /\ accepting \in {"no", "queued", "built"}
    /\ DOMAIN iterated \subseteq Tx
    /\ iterated \in [DOMAIN iterated -> Dispute]
    /\ validation \in {"none", "partial", "full"}
    /\ reapplied \subseteq Tx

-----------------------------------------------------------------------------
Present(r, p) == r.positions[p].seq >= 0

Proposers(r) == {p \in Peers : Present(r, p)}

ProposersOf(r, s) == {p \in Proposers(r) : r.positions[p].set = s}

HavePosition(r) == r.state # "preClose"

SymDiff(s1, s2) == (s1 \ s2) \cup (s2 \ s1)

createDisputes_withoutOurVote(r, ss) ==
    LET differences == UNION {SymDiff(r.ourSet, s) : s \in ss}
    IN [r EXCEPT !.disputes =
            [t \in DOMAIN r.disputes \cup differences |->
                IF t \in DOMAIN r.disputes
                THEN r.disputes[t]
                ELSE NewDispute(FALSE, [p \in Peers |-> "none"])]]

\* createDisputes of our set against each set of ss, with addDisputedTransaction: a vote
\* for every peer whose set has been acquired.
createDisputes(r, ss) ==
    LET differences == UNION {SymDiff(r.ourSet, s) : s \in ss}
        votes(t) == [p \in Peers |->
                        IF Present(r, p) /\ r.positions[p].set \in r.acquired
                        THEN Ballot(t \in r.positions[p].set)
                        ELSE "none"]
    IN [r EXCEPT !.disputes =
            [t \in DOMAIN r.disputes \cup differences |->
                IF t \in DOMAIN r.disputes
                THEN r.disputes[t]
                ELSE NewDispute(t \in r.ourSet, votes(t))]]

\* Record on every dispute how the peers ps, whose set is s, vote.
castVotes(r, ps, s) ==
    [r EXCEPT !.disputes = [t \in DOMAIN r.disputes |-> setVote(r.disputes[t], ps, t \in s)]]

dropVotes(r, ps) ==
    [r EXCEPT !.disputes = [t \in DOMAIN r.disputes |-> unVote(r.disputes[t], ps)]]

\* mapCompleteInternal: the disputes come first, so the peers that hold s are counted by
\* adjustCount, after s is in mAcquired.
mapCompleteInternal(r, s) ==
    IF s \in r.acquired
    THEN r
    ELSE LET compared == IF HavePosition(r) /\ ~r.bowedOut /\ s # r.ourSet
                         THEN [createDisputes(r, {s}) EXCEPT !.compares = @ \cup {s}]
                         ELSE r
         IN castVotes([compared EXCEPT !.acquired = @ \cup {s}], ProposersOf(r, s), s)

\* The bow-out branch of peerPosition.
peerLeaves(r, p) ==
    [dropVotes(r, {p}) EXCEPT !.positions[p] = NoProposal, !.dead = @ \cup {p}]

\* peerPosition, with getTransactionTree: a set that InboundTransactions already has (sets)
\* enters mAcquired here and never passes through mapCompleteInternal.
peerPosition(r, p, m, sets) ==
    IF p \in r.dead \/ m.seq <= r.positions[p].seq
    THEN r
    ELSE IF m.seq = seqLeave
    THEN peerLeaves(r, p)
    ELSE LET placed == [r EXCEPT !.positions[p] = m]
         IN IF m.set \in r.acquired \cup sets
            THEN castVotes([placed EXCEPT !.acquired = @ \cup {m.set}], {p}, m.set)
            ELSE placed

\* playbackProposals after the tracking was cleared.  Of the proposals of p that NetworkOPs
\* kept, those with rising sequences pass peerPosition: stored[p].last is the last of them
\* and stored[p].earlier the sets of the others.
playbackProposals(r, stored, sets) ==
    LET leaving == {p \in Peers : stored[p].last.seq = seqLeave}
        staying == {p \in Peers : stored[p].last.seq \in 0 .. MaxSeq}
    IN [r EXCEPT
          !.positions = [p \in Peers |-> IF p \in staying THEN stored[p].last ELSE NoProposal],
          !.dead = leaving,
          !.acquired = @ \cup {s \in sets : \E p \in Peers :
                                  \/ s \in stored[p].earlier
                                  \/ p \in staying /\ s = stored[p].last.set}]

\* The first half of handleLCL: another ledger is to be the last closed one.
changeView_staysProposing(r, l, stored, sets) ==
    playbackProposals(
        [r EXCEPT !.prevLedgerHash = l,
                  !.positions = [p \in Peers |-> NoProposal],
                  !.dead = {},
                  !.disputes = NoDisputes], stored, sets)

changeView(r, l, stored, sets) ==
    playbackProposals(
        [r EXCEPT !.prevLedgerHash = l,
                  !.bowedOut = @ \/ (r.haveCorrectLCL /\ r.proposing /\ HavePosition(r)),
                  !.proposing = FALSE,
                  !.positions = [p \in Peers |-> NoProposal],
                  !.dead = {},
                  !.disputes = NoDisputes], stored, sets)

\* The second half of handleLCL: work from that ledger if it is on hand, or acquire it.
switchLedger(r, l, have) ==
    CASE r.previousLedger = l -> r
      [] r.previousLedger # l /\ l \in have ->
            [r EXCEPT !.previousLedger = l, !.haveCorrectLCL = TRUE]
      [] OTHER -> IF r.acquiring = {l}
                  THEN r
                  ELSE [r EXCEPT !.acquiring = {l}, !.haveCorrectLCL = FALSE]

handleLCL(r, l, have, stored, sets) ==
    switchLedger(IF r.prevLedgerHash = l THEN r ELSE changeView(r, l, stored, sets), l, have)

\* checkLCL, where netLgr is the ledger most current validations name.
checkLCL(r, netLgr, have, stored, sets) ==
    IF netLgr # r.prevLedgerHash \/ r.previousLedger # r.prevLedgerHash
    THEN handleLCL(r, netLgr, have, stored, sets)
    ELSE r

\* takeInitialPosition with the transactions s of the open ledger.
takeInitialPosition(r, s, time) ==
    LET placed == [mapCompleteInternal(r, s) EXCEPT
                      !.state = "establish", !.ourSet = s, !.ourTime = time, !.ms = 0]
        theirs == {placed.positions[p].set : p \in Proposers(placed)} \cap placed.acquired
    IN [createDisputes(placed, theirs) EXCEPT !.compares = @ \cup theirs]

-----------------------------------------------------------------------------
\* computePercent: how many of size participants are percent of them, at least one.
computePercent(size, percent) ==
    LET result == (size * percent + percent \div 2) \div 100
    IN IF result = 0 THEN 1 ELSE result

closePercent(r) == (r.ms * 100) \div PreviousMSeconds

round(r, time) == roundCloseTime(time, Resolution[r.previousLedger])

Participants(r) == Cardinality(Proposers(r)) + (IF r.proposing THEN 1 ELSE 0)

\* How many participants want the close time.
TimeVotes(r, time) ==
    Cardinality({p \in Proposers(r) : round(r, r.positions[p].closeTime) = time})
        + (IF r.proposing /\ round(r, r.ourTime) = time THEN 1 ELSE 0)

closeTimeVote_ours(r) == [time |-> round(r, r.ourTime), agreed |-> TRUE]

\* The close time updateOurPositions settles on, and whether it has consensus.  The scan
\* is in ascending order with a rising threshold, so the later of two equals wins.
closeTimeVote(r) ==
    LET times == {round(r, r.positions[p].closeTime) : p \in Proposers(r)}
                    \cup (IF r.proposing THEN {round(r, r.ourTime)} ELSE {})
        threshVote == computePercent(Participants(r), AvalancheWeight(closePercent(r)))
        threshConsensus == computePercent(Participants(r), AV_CT_CONSENSUS_PCT)
        best == {t \in times :
                    /\ TimeVotes(r, t) >= threshVote
                    /\ \A u \in times \ {t} :
                          TimeVotes(r, u) < TimeVotes(r, t) + (IF u < t THEN 1 ELSE 0)}
        time == IF best = {} THEN 0 ELSE CHOOSE t \in best : TRUE
    IN IF Proposers(r) = {}
       THEN [time |-> round(r, r.ourTime), agreed |-> TRUE]
       ELSE IF best # {} /\ TimeVotes(r, time) >= threshConsensus
       THEN [time |-> time, agreed |-> TRUE]
       ELSE IF TimeVotes(r, 0) > threshConsensus
       THEN [time |-> 0, agreed |-> TRUE]
       ELSE [time |-> time, agreed |-> FALSE]

\* The removal of stale positions at the head of updateOurPositions.
dropStale_keepsVotes(r, stale) ==
    [r EXCEPT !.positions = [p \in Peers |-> IF p \in stale THEN NoProposal ELSE r.positions[p]]]

dropStale(r, stale) ==
    [dropVotes(r, stale) EXCEPT
        !.positions = [p \in Peers |-> IF p \in stale THEN NoProposal ELSE r.positions[p]]]

reconsider(r) ==
    [r EXCEPT !.disputes =
        [t \in DOMAIN r.disputes |-> updateVote(r.disputes[t], closePercent(r), r.proposing)]]

\* The transactions on which reconsidering changes our vote.
Flipped(r) ==
    {t \in DOMAIN r.disputes : reconsider(r).disputes[t].ourVote # r.disputes[t].ourVote}

adoptPosition_addsOnly(r, s, time) ==
    mapCompleteInternal([r EXCEPT !.ourSet = @ \cup s, !.ourTime = time], r.ourSet \cup s)

\* changePosition, which a proposal that has bowed out refuses, and mapCompleteInternal.
adoptPosition(r, s, time) ==
    IF r.bowedOut
    THEN r
    ELSE mapCompleteInternal([r EXCEPT !.ourSet = s, !.ourTime = time], s)

\* updateOurPositions, with the peers whose positions are stale and whether ours is.
updateOurPositions(r, stale, ourStale) ==
    LET fresh == dropStale(r, stale)
        voted == reconsider(fresh)
        added == {t \in Flipped(fresh) : voted.disputes[t].ourVote}
        time == closeTimeVote(fresh).time
    IN IF Flipped(fresh) # {} \/ time # round(r, r.ourTime) \/ ourStale
       THEN adoptPosition(voted, (r.ourSet \cup added) \ (Flipped(fresh) \ added), time)
       ELSE voted

\* The loop of haveConsensus over the peers that disagree: sets not compared yet are.
compareAll(r) ==
    LET uncompared == {s \in r.acquired \ r.compares : s # r.ourSet /\ ProposersOf(r, s) # {}}
    IN IF r.ourSet \in r.acquired
       THEN [createDisputes(r, uncompared) EXCEPT !.compares = @ \cup uncompared]
       ELSE r

\* haveConsensus, where finished validators have moved on.
tally(r, finished) ==
    haveConsensus(PreviousProposers, Cardinality(Proposers(r)),
                  Cardinality(ProposersOf(r, r.ourSet)), finished, PreviousMSeconds, r.ms)

\* stateEstablish.
stateEstablish(r, stale, ourStale, finished) ==
    IF r.ms < LEDGER_MIN_CONSENSUS
    THEN r
    ELSE LET updated == compareAll(updateOurPositions(r, stale, ourStale))
             outcome == tally(updated, finished)
             timeAgreed == closeTimeVote(dropStale(r, stale)).agreed
         IN [updated EXCEPT
                !.fail = IF outcome = "no" THEN @ ELSE outcome = "movedOn",
                !.state = IF timeAgreed /\ outcome # "no" THEN "finished" ELSE @]

-----------------------------------------------------------------------------
\* The constructor: the network's last closed ledger is l, the one we work from m.  The
\* mode is below omFULL whenever they differ (NetworkOPs::checkLastClosedLedger), so the
\* round then starts without proposing.
NewRound(l, m, have, validating, full) ==
    switchLedger(
        [state |-> "preClose", prevLedgerHash |-> l, previousLedger |-> m,
         haveCorrectLCL |-> (l = m), acquiring |-> {},
         proposing |-> validating /\ full /\ l = m, validating |-> validating,
         ourSet |-> {}, ourTime |-> 0, bowedOut |-> FALSE,
         positions |-> [p \in Peers |-> NoProposal], dead |-> {},
         acquired |-> {}, disputes |-> NoDisputes, compares |-> {},
         fail |-> FALSE, ms |-> 0], l, have)

Init ==
    /\ onHand \in SUBSET Ledger
    /\ \E l \in Ledger, m \in onHand, validating, full \in BOOLEAN :
           c = NewRound(l, m, onHand, validating, full)
    /\ inbound = {{}}
    /\ gotSet = {}
    /\ accepting = "no"
    /\ iterated = NoDisputes
    /\ validation = "none"
    /\ reapplied = {}

\* InboundTransactions::giveSet of an acquired set; mapComplete waits for the lock.
giveSet(s) ==
    /\ s \notin inbound
    /\ inbound' = inbound \cup {s}
    /\ gotSet' = gotSet \cup {s}
    /\ UNCHANGED <<c, onHand, job>>

mapComplete(s) ==
    /\ s \in gotSet
    /\ gotSet' = gotSet \ {s}
    /\ c' = mapCompleteInternal(c, s)
    /\ UNCHANGED <<inbound, onHand, job>>

\* NetworkOPs::processTrustedProposal of a proposal for the ledger we work on.
processTrustedProposal(p, m) ==
    /\ c' = peerPosition(c, p, m, inbound)
    /\ UNCHANGED <<network, job>>

\* The consensus ledger asked for by handleLCL has been acquired.
ledgerArrives ==
    /\ ~(c.acquiring \subseteq onHand)
    /\ onHand' = onHand \cup c.acquiring
    /\ UNCHANGED <<c, inbound, gotSet, job>>

\* What NetworkOPs may have stored for a ledger we are about to switch to.
Stored(l) ==
    LET nothing == [last |-> NoProposal, earlier |-> {}]
    IN IF l = c.prevLedgerHash
       THEN {[p \in Peers |-> nothing]}
       ELSE [Peers -> {nothing} \cup {q \in [last : Proposal, earlier : SUBSET TxSet] :
                                         Cardinality(q.earlier) <= q.last.seq}]

\* doTimer in lcsPRE_CLOSE, before and at the end of the open interval (statePreClose).
timerPreClose(netLgr, stored) ==
    /\ c.state = "preClose"
    /\ c' = checkLCL(c, netLgr, onHand, stored, inbound)
    /\ UNCHANGED <<network, job>>

closeLedger(netLgr, stored, s, time) ==
    /\ c.state = "preClose"
    /\ c' = takeInitialPosition(checkLCL(c, netLgr, onHand, stored, inbound), s, time)
    /\ inbound' = inbound \cup {s}
    /\ UNCHANGED <<gotSet, onHand, job>>

\* doTimer in lcsESTABLISH; with consensus, beginAccept queues the accept job.
timerEstablish(netLgr, stored, ms, stale, ourStale, finished) ==
    LET r == [checkLCL(c, netLgr, onHand, stored, inbound) EXCEPT !.ms = ms]
    IN /\ c.state = "establish"
       /\ ms >= c.ms
       /\ stale \subseteq Proposers(r)
       /\ c' = stateEstablish(r, stale, ourStale, finished)
       /\ inbound' = inbound \cup {c'.ourSet}
       /\ accepting' = IF c'.state = "finished" THEN "queued" ELSE accepting
       /\ UNCHANGED <<gotSet, onHand, iterated, validation, reapplied>>

\* accept up to its walk through mDisputes: the ledger is built on previousLedger, and
\* validated unless consensus failed.  No lock is held from here on.
acceptBuild ==
    /\ accepting = "queued"
    /\ accepting' = "built"
    /\ iterated' = c.disputes
    /\ validation' = IF c.validating /\ ~c.fail
                     THEN IF c.proposing THEN "full" ELSE "partial"
                     ELSE "none"
    /\ UNCHANGED <<c, network, reapplied>>

VotedNo(d) == {t \in DOMAIN d : ~d[t].ourVote}

\* The rest of accept.  A dispute added meanwhile may or may not be seen by the walk.
acceptFinish(late) ==
    /\ accepting = "built"
    /\ accepting' = "no"
    /\ reapplied' = VotedNo(iterated) \cup late
    /\ c' = [c EXCEPT !.state = "accepted"]
    /\ UNCHANGED <<network, iterated, validation>>

\* doTimer in lcsACCEPTED: endConsensus, and the next round's constructor.  Sets of old
\* rounds may expire (InboundTransactions::newRound), the empty one does not.
endConsensus(l, m, have, validating, full, keep) ==
    /\ c.state = "accepted"
    /\ c' = NewRound(l, m, have, validating, full)
    /\ onHand' = have
    /\ inbound' = keep \cup {{}}
    /\ iterated' = NoDisputes
    /\ validation' = "none"
    /\ reapplied' = {}
    /\ UNCHANGED <<gotSet, accepting>>

Next ==
    \/ \E s \in TxSet : giveSet(s)
    \/ \E s \in TxSet : mapComplete(s)
    \/ \E p \in Peers, m \in Proposal : processTrustedProposal(p, m)
    \/ ledgerArrives
    \/ \E netLgr \in Ledger : \E stored \in Stored(netLgr) : timerPreClose(netLgr, stored)
    \/ \E netLgr \in Ledger : \E stored \in Stored(netLgr), s \in TxSet, time \in CloseTime \ {0} :
          closeLedger(netLgr, stored, s, time)
    \/ \E netLgr \in Ledger : \E stored \in Stored(netLgr) :
          \E ms \in Times, stale \in SUBSET Peers, ourStale \in BOOLEAN,
             finished \in 0 .. Cardinality(Peers) :
                timerEstablish(netLgr, stored, ms, stale, ourStale, finished)
    \/ acceptBuild
    \/ \E late \in SUBSET (VotedNo(c.disputes) \ DOMAIN iterated) : acceptFinish(late)
    \/ \E l \in Ledger, have \in SUBSET Ledger : \E m \in have, validating, full \in BOOLEAN,
          keep \in SUBSET inbound : endConsensus(l, m, have, validating, full, keep)

Spec == Init /\ [][Next]_vars

-----------------------------------------------------------------------------
\* A node always holds the set it proposes: beginAccept calls abort() otherwise, and
\* createDisputes dereferences the entry.
OurSetOnHand == HavePosition(c) => c.ourSet \in c.acquired

\* The votes by which the next position is computed are the content of the position we
\* have now, through proposals, sets and ledgers arriving in any order: addItem never
\* meets a transaction that is there, delItem never one that is not.
OurVotesAreOurSet ==
    HavePosition(c) /\ ~c.bowedOut =>
        \A t \in DOMAIN c.disputes : c.disputes[t].ourVote = (t \in c.ourSet)

\* The votes counted are of peers that take part: a peer that bowed out, went stale or
\* was on another ledger leaves no vote behind, and the counters are the votes.
VotesOnRecord ==
    \A t \in DOMAIN c.disputes :
        /\ \A p \in Peers : c.disputes[t].votes[p] # "none" => Present(c, p)
        /\ c.disputes[t].yays = Cardinality(Voting(c.disputes[t], "yes"))
        /\ c.disputes[t].nays = Cardinality(Voting(c.disputes[t], "no"))

\* A peer that bowed out takes no part again in this view of the round, however late or
\* reordered its earlier proposals arrive.
DeadStayDead == \A p \in c.dead : ~Present(c, p)

\* mapCompleteInternal says "Adjust tracking for each peer that takes this position": the
\* vote of a peer whose set we have is what its set says.
VoteFollowsPosition ==
    \A t \in DOMAIN c.disputes, p \in Proposers(c) :
        c.positions[p].set \in c.acquired =>
            c.disputes[t].votes[p] = Ballot(t \in c.positions[p].set)

\* haveConsensus says "Make sure we have generated disputes": whatever separates our set
\* from a peer's set that mCompares lists is in dispute.
DisputesGenerated ==
    HavePosition(c) =>
        \A p \in Proposers(c) :
            c.positions[p].set \in c.compares \cap c.acquired =>
                SymDiff(c.ourSet, c.positions[p].set) \subseteq DOMAIN c.disputes

\* Whoever proposes works from the ledger the network is on and has not bowed out, however
\* often the view changes and whichever ledgers arrive meanwhile.
ProposingInSync ==
    c.proposing => c.haveCorrectLCL /\ ~c.bowedOut /\ c.previousLedger = c.prevLedgerHash

\* A step that ends the round without the failure flag ends it with the agreement of more
\* than 80 percent of the peers that take part, ourselves included (LedgerTiming.cpp).
DecisionHasMajority ==
    [][c.state = "establish" /\ c'.state = "finished" /\ ~c'.fail =>
         5 * (Cardinality(ProposersOf(c', c'.ourSet)) + 1) > 4 * (Cardinality(Proposers(c')) + 1)]_vars

\* A round is decided only on a close time three quarters of the participants share, or
\* on the agreement that there is none, whatever the peers said meanwhile.
CloseTimeAgreed ==
    [][c.state = "establish" /\ c'.state = "finished" /\ ~c'.bowedOut /\ Proposers(c') # {} =>
         TimeVotes(c', round(c', c'.ourTime)) >= computePercent(Participants(c'), AV_CT_CONSENSUS_PCT)]_vars

\* What accept gives to the new open ledger as "disputed transactions that didn't get in"
\* did not get in: no transaction is applied to a ledger that has it already.
ReappliedDidNotGetIn == ~c.bowedOut => reapplied \cap c.ourSet = {}

=============================================================================
