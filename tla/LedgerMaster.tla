---------------------------- MODULE LedgerMaster ----------------------------
(***************************************************************************)
(* Which ledger a server holds to be fully validated, and which ledgers it *)
(* publishes to its clients (src/ledger/LedgerMaster.cpp).                 *)
(*                                                                         *)
(* Threads: one job per incoming validation (addValidation and the         *)
(* checkAccept it ends with), the consensus thread (a round builds a       *)
(* ledger and reports it to consensusBuilt), the jobs that report acquired *)
(* ledgers (LADispatch), and the advance job.  m_mutex is not a variable:  *)
(* what a thread does between taking and releasing it is one step, and     *)
(* every place where doAdvance lets go of it ends a step.                  *)
(***************************************************************************)
EXTENDS Integers, Sequences, FiniteSets

CONSTANTS
    Ledger,          \* the ledgers that exist, named by their hashes
    Chain,           \* Chain[l][n]: the ledger at sequence n of l's history
    Validator,       \* the validators we trust
    MinValidations,  \* mMinValidations, the configured quorum
    MAX_LEDGER_GAP,  \* 100 in the code
    Local,           \* ledgers complete in the node store, but not indexed
    Signed,          \* the ledgers validators sign in the instance
    MaxValidations,  \* bound on the validations that arrive
    MaxBuilt,        \* bound on the sequences our consensus builds
    None

SeqOf(l) == IF l = None THEN 0 ELSE Len(Chain[l])
Child(l, p) == SeqOf(l) = SeqOf(p) + 1 /\ Chain[l][SeqOf(p)] = p

\* A ledger commits to its history, and a history belongs to one chain.
ASSUME ChainAssumption ==
    /\ None \notin Ledger
    /\ Chain \in [Ledger -> Seq(Ledger)]
    /\ \A l \in Ledger :
          /\ Len(Chain[l]) >= 1
          /\ Chain[l][Len(Chain[l])] = l
          /\ \A n \in 1 .. Len(Chain[l]) :
                Chain[Chain[l][n]] = SubSeq(Chain[l], 1, n)

ASSUME ValidatorAssumption ==
    /\ IsFiniteSet(Validator)
    /\ MinValidations \in Nat \ {0}
    /\ MAX_LEDGER_GAP \in Nat \ {0}
    /\ Local \subseteq Ledger /\ Signed \subseteq Ledger
    /\ MaxValidations \in Nat /\ MaxBuilt \in Nat

VARIABLES
    sets,       \* trusted validators in mValidations, by ledger
    current,    \* mCurrentValidations: the ledger each validator is on
    job,        \* the job that handles a validation of each validator
    have,       \* ledgers found by LedgerHistory::getLedgerByHash
    wanted,     \* acquisitions in progress in InboundLedgers
    fetched,    \* acquired ledgers whose LADispatch job is queued
    building,   \* mBuildingLedgerSeq
    closed,     \* mClosedLedger
    round,      \* the consensus thread
    valid,      \* mValidLedger (mValidLedgerSeq is its sequence)
    last,       \* mLastValidateHash
    pub,        \* mPubLedger (mPubLedgerSeq is its sequence)
    published,  \* the ledgers given to NetworkOPs::pubLedger, in order
    adv         \* the advance job: mAdvanceThread is pc # "idle"

validations == <<sets, current>>
ledgers == <<have, wanted, fetched>>
consensus == <<building, closed, round>>
marks == <<valid, last, pub, adv>>
vars == <<validations, job, ledgers, consensus, marks, published>>

Ledgers == Ledger \cup {None}
Idle == [pc |-> "idle", ledger |-> None]
NoVotes == [v \in Validator |-> None]

TypeOK ==
    /\ sets \in [Ledger -> SUBSET Validator]
    /\ current \in [Validator -> Ledgers]
    /\ job \in [Validator -> [pc : {"idle", "check", "accept"}, ledger : Ledgers]]
    /\ have \subseteq Ledger /\ wanted \subseteq Ledger /\ fetched \subseteq Ledger
    /\ building \in Nat
    /\ closed \in Ledger
    /\ round \in [pc : {"idle", "building", "built", "accept", "look", "pick",
                        "check", "recheck", "push"},
                  ledger : Ledgers, seen : [Validator -> Ledgers], found : Ledgers]
    /\ valid \in Ledgers /\ last \in Ledgers /\ pub \in Ledgers
    /\ published \in Seq(Ledger)
    /\ adv \in [pc : {"idle", "queued", "find", "publish", "published", "history"},
                work : BOOLEAN, todo : Seq(Ledger), target : Ledgers, threw : BOOLEAN]

(***************************************************************************)
(* A server starts with a first ledger, either without a validated one or  *)
(* with the ledger it loaded forced valid (Application.cpp).               *)
(***************************************************************************)
Init ==
    /\ sets = [l \in Ledger |-> {}]
    /\ current = NoVotes
    /\ job = [v \in Validator |-> Idle]
    /\ closed \in {l \in Ledger : SeqOf(l) = 1}
    /\ have = {closed} /\ wanted = {} /\ fetched = {}
    /\ building = 0
    /\ round = [pc |-> "idle", ledger |-> None, seen |-> NoVotes, found |-> None]
    /\ valid \in {None, closed} /\ pub = valid
    /\ last = None
    /\ published = <<>>
    /\ adv = [pc |-> "idle", work |-> FALSE, todo |-> <<>>, target |-> None,
              threw |-> FALSE]

-----------------------------------------------------------------------------
(* The last fully validated ledger *)

getTrustedValidationCount(l) == Cardinality(sets[l])

getNeededValidations ==
    LET val == IF last = None THEN 0
               ELSE (getTrustedValidationCount(last) * 150) \div 256
    IN  IF val > MinValidations THEN val ELSE MinValidations

\* Wakes the advance job, once there is a fully validated ledger.
tryAdvance ==
    adv' = [adv EXCEPT !.work = TRUE,
                       !.pc = IF @ = "idle" /\ valid' # None THEN "queued" ELSE @]

accepts_early(l) ==
    /\ SeqOf(l) > SeqOf(valid)
    /\ getTrustedValidationCount(l) >= getNeededValidations - 1

\* The decision of checkAccept (Ledger::ref), taken under the lock ...
accepts(l) ==
    /\ SeqOf(l) > SeqOf(valid)
    /\ getTrustedValidationCount(l) >= getNeededValidations

\* ... and what it does to the ledgers we point to.
setMarks(l) ==
    /\ valid' = IF accepts(l) THEN l ELSE valid
    /\ last' = IF accepts(l) THEN l ELSE last
    /\ pub' = IF accepts(l) /\ pub = None THEN l ELSE pub

checkAccept(l) ==
    /\ setMarks(l)
    /\ IF accepts(l) THEN tryAdvance ELSE UNCHANGED adv

\* InboundLedgers::acquire of a ledger that getLedgerByHash does not find.
\* InboundLedger::init stores a ledger that is complete locally; the call
\* returns no ledger either way.
acquire(L) ==
    /\ have' = have \cup (L \cap Local)
    /\ wanted' = wanted \cup (L \ Local)

\* The ledger is ahead of the validated one, and we are not building its like.
worthChecking(l) == SeqOf(l) > SeqOf(valid) /\ SeqOf(l) # building

\* checkAccept (uint256, uint32) up to its call of checkAccept (Ledger::ref),
\* which it comes to with a ledger that is at hand.
goesOn(l) == worthChecking(l) /\ l \in have

checkAcceptHash(l) ==
    IF worthChecking(l) /\ l \notin have THEN acquire({l}) ELSE UNCHANGED <<have, wanted>>

-----------------------------------------------------------------------------
(* Validations::addValidation.  Sign times follow the ledgers' sequences. *)

addValidation(v, l) ==
    LET newer == SeqOf(l) > SeqOf(current[v]) IN
    /\ job[v] = Idle
    /\ v \notin sets[l]
    /\ Cardinality({p \in Validator \X Ledger : p[1] \in sets[p[2]]}) < MaxValidations
    /\ sets' = [sets EXCEPT ![l] = @ \cup {v}]
    /\ current' = [current EXCEPT ![v] = IF newer THEN l ELSE @]
    /\ job' = [job EXCEPT ![v] = IF newer THEN [pc |-> "check", ledger |-> l] ELSE Idle]
    /\ UNCHANGED <<ledgers, consensus, marks, published>>

CheckValidated(v) ==
    /\ job[v].pc = "check"
    /\ checkAcceptHash(job[v].ledger)
    /\ job' = [job EXCEPT ![v] = IF goesOn(job[v].ledger)
                                     THEN [@ EXCEPT !.pc = "accept"] ELSE Idle]
    /\ UNCHANGED <<validations, fetched, consensus, marks, published>>

AcceptValidated(v) ==
    /\ job[v].pc = "accept"
    /\ checkAccept(job[v].ledger)
    /\ job' = [job EXCEPT ![v] = Idle]
    /\ UNCHANGED <<validations, ledgers, consensus, published>>

-----------------------------------------------------------------------------
(* Acquired ledgers *)

\* InboundLedger::done: the ledger is stored and a job dispatched.
LedgerAcquired(l) ==
    /\ l \in wanted
    /\ wanted' = wanted \ {l}
    /\ have' = have \cup {l}
    /\ fetched' = fetched \cup {l}
    /\ UNCHANGED <<validations, job, consensus, marks, published>>

LADispatch_silent(l) ==
    /\ l \in fetched
    /\ fetched' = fetched \ {l}
    /\ checkAccept(l)
    /\ UNCHANGED <<validations, job, have, wanted, consensus, published>>

LADispatch(l) ==
    /\ l \in fetched
    /\ fetched' = fetched \ {l}
    /\ setMarks(l)
    /\ tryAdvance
    /\ UNCHANGED <<validations, job, have, wanted, consensus, published>>

-----------------------------------------------------------------------------
(* The consensus thread *)

\* takeInitialPosition, at the close, announces the sequence it is to build.
setBuildingLedger ==
    /\ round.pc = "idle"
    /\ \E l \in Ledger : Child(l, closed)
    /\ SeqOf(closed) < MaxBuilt
    /\ building' = SeqOf(closed) + 1
    /\ round' = [round EXCEPT !.pc = "building"]
    /\ UNCHANGED <<validations, job, ledgers, closed, marks, published>>

\* LedgerConsensus::accept builds a successor of the last closed ledger.
storeLedger(l) ==
    /\ round.pc = "building"
    /\ Child(l, closed)
    /\ have' = have \cup {l}
    /\ round' = [round EXCEPT !.pc = "built", !.ledger = l]
    /\ UNCHANGED <<validations, job, wanted, fetched, building, closed, marks, published>>

consensusBuilt ==
    /\ round.pc = "built"
    /\ building' = 0
    /\ round' = [round EXCEPT !.pc = "accept"]
    /\ UNCHANGED <<validations, job, ledgers, closed, marks, published>>

\* The built ledger may be the new validated one; else other ledgers may be.
AcceptBuilt ==
    /\ round.pc = "accept"
    /\ checkAccept(round.ledger)
    /\ round' = [round EXCEPT !.pc =
                    IF SeqOf(round.ledger) <= SeqOf(valid') THEN "push" ELSE "look"]
    /\ UNCHANGED <<validations, job, ledgers, building, closed, published>>

getCurrentTrustedValidations ==
    /\ round.pc = "look"
    /\ round' = [round EXCEPT !.pc = "pick", !.seen = current]
    /\ UNCHANGED <<validations, job, ledgers, building, closed, marks, published>>

enoughSeen_held ==
    {l \in have : /\ SeqOf(l) > SeqOf(valid)
                  /\ Cardinality({v \in Validator : round.seen[v] = l})
                        > getNeededValidations}

\* Ledgers of the counted validations that are worth a check.
enoughSeen ==
    {l \in Ledger : /\ SeqOf(l) > SeqOf(valid)
                    /\ Cardinality({v \in Validator : round.seen[v] = l})
                          > getNeededValidations}

PickLedger ==
    /\ round.pc = "pick"
    /\ IF enoughSeen = {}
       THEN round' = [round EXCEPT !.pc = "push", !.seen = NoVotes]
       ELSE \E l \in enoughSeen :
               /\ \A k \in enoughSeen : SeqOf(k) <= SeqOf(l)
               /\ round' = [round EXCEPT !.pc = "check", !.seen = NoVotes, !.found = l]
    /\ UNCHANGED <<validations, job, ledgers, building, closed, marks, published>>

CheckFound ==
    /\ round.pc = "check"
    /\ checkAcceptHash(round.found)
    /\ round' = [round EXCEPT !.pc = IF goesOn(round.found) THEN "recheck" ELSE "push"]
    /\ UNCHANGED <<validations, job, fetched, building, closed, marks, published>>

AcceptFound ==
    /\ round.pc = "recheck"
    /\ checkAccept(round.found)
    /\ round' = [round EXCEPT !.pc = "push"]
    /\ UNCHANGED <<validations, job, ledgers, building, closed, published>>

pushLedger ==
    /\ round.pc = "push"
    /\ closed' = round.ledger
    /\ round' = [round EXCEPT !.pc = "idle", !.ledger = None, !.found = None]
    /\ UNCHANGED <<validations, job, ledgers, building, marks, published>>

\* Between rounds NetworkOPs may switch to a ledger the network prefers.  A
\* bound of the model: it does not rewind, which would only let the consensus
\* thread build the same ledgers again.
switchLedgers(l) ==
    /\ round.pc = "idle"
    /\ l \in have \ {closed}
    /\ SeqOf(l) >= SeqOf(closed)
    /\ closed' = l
    /\ checkAccept(l)
    /\ UNCHANGED <<validations, job, ledgers, building, round, published>>

-----------------------------------------------------------------------------
(* The advance job *)

Loop_fetches(p) ==
    /\ pub' = p
    /\ adv' = IF SeqOf(valid) > SeqOf(p) /\ SeqOf(valid) <= SeqOf(p) + MAX_LEDGER_GAP
              THEN [adv EXCEPT !.work = FALSE, !.pc = "find", !.todo = <<>>, !.target = valid]
              ELSE [adv EXCEPT !.work = FALSE, !.pc = "history", !.todo = <<>>]

\* The top of the loop of doAdvance with the lock held, p being the published
\* ledger: findNewLedgersToPublish up to where it lets go of the lock.  A
\* server that is caught up may fetch history, for which it lets go as well.
Loop(p) ==
    IF p = None \/ SeqOf(valid) > SeqOf(p) + MAX_LEDGER_GAP
    THEN /\ pub' = IF p = None THEN p ELSE valid
         /\ adv' = [adv EXCEPT !.work = FALSE, !.pc = "publish", !.todo = <<valid>>]
    ELSE /\ pub' = p
         /\ IF SeqOf(valid) > SeqOf(p)
            THEN adv' = [adv EXCEPT !.work = FALSE, !.pc = "find", !.todo = <<>>,
                                    !.target = valid]
            ELSE \E pc \in {"idle", "history"} :
                    adv' = [adv EXCEPT !.work = FALSE, !.pc = pc, !.todo = <<>>]

\* The end of an iteration that made no progress.
LoopOrReturn ==
    IF adv.work
    THEN Loop(pub)
    ELSE UNCHANGED pub /\ adv' = [adv EXCEPT !.pc = "idle", !.target = None]

advanceThread ==
    /\ adv.pc = "queued"
    /\ Loop(pub)
    /\ UNCHANGED <<validations, job, ledgers, consensus, valid, last, published>>

pubSeq_stale == SeqOf(pub)

\* The next sequence to publish.
pubSeq == SeqOf(pub) + 1

\* The rest of findNewLedgersToPublish: the ledgers pubSeq .. k that we have, k
\* being before the first we lack.  At most three of those we lack are acquired.
findNewLedgersToPublish ==
    LET hash == Chain[adv.target]
        lacking == {n \in pubSeq .. SeqOf(adv.target) - 1 : hash[n] \notin have}
        first == {n \in lacking : Cardinality({m \in lacking : m < n}) < 3}
    IN  /\ adv.pc = "find"
        /\ acquire({hash[n] : n \in first})
        /\ \E k \in pubSeq - 1 .. SeqOf(adv.target) :
              /\ \A n \in lacking : k < n
              /\ k = SeqOf(adv.target) \/ k + 1 \in lacking
              /\ IF k < pubSeq
                 THEN LoopOrReturn
                 ELSE /\ adv' = [adv EXCEPT !.pc = "publish", !.target = None,
                                            !.todo = SubSeq(hash, pubSeq, k)]
                      /\ UNCHANGED pub
        /\ UNCHANGED <<validations, job, fetched, consensus, valid, last, published>>

\* setFullLedger and NetworkOPs::pubLedger, without the lock.
pubLedger ==
    /\ adv.pc = "publish"
    /\ published' = Append(published, Head(adv.todo))
    /\ adv' = [adv EXCEPT !.pc = "published"]
    /\ UNCHANGED <<validations, job, ledgers, consensus, valid, last, pub>>

setPubLedger ==
    /\ adv.pc = "published"
    /\ IF Len(adv.todo) > 1
       THEN /\ pub' = Head(adv.todo)
            /\ adv' = [adv EXCEPT !.pc = "publish", !.todo = Tail(@)]
       ELSE Loop(Head(adv.todo))
    /\ UNCHANGED <<validations, job, ledgers, consensus, valid, last, published>>

\* History was fetched, or not; there is progress too if the validated ledger
\* changed meanwhile.
FetchHistory ==
    /\ adv.pc = "history"
    /\ \E progress \in BOOLEAN :
          IF progress \/ SeqOf(valid) # SeqOf(pub) THEN Loop(pub) ELSE LoopOrReturn
    /\ UNCHANGED <<validations, job, ledgers, consensus, valid, last, published>>

\* advanceThread catches what doAdvance throws and gives up.
doAdvanceThrows ==
    /\ adv.pc \in {"publish", "history"}
    /\ adv' = [adv EXCEPT !.pc = "idle", !.todo = <<>>, !.threw = TRUE]
    /\ UNCHANGED <<validations, job, ledgers, consensus, valid, last, pub, published>>

-----------------------------------------------------------------------------
Jobs ==
    \/ \E v \in Validator : CheckValidated(v) \/ AcceptValidated(v)
    \/ \E l \in Ledger : LedgerAcquired(l) \/ LADispatch(l)

Consensus ==
    \/ \E l \in Ledger : storeLedger(l)
    \/ consensusBuilt \/ AcceptBuilt \/ getCurrentTrustedValidations
    \/ PickLedger \/ CheckFound \/ AcceptFound \/ pushLedger

Advance ==
    \/ advanceThread \/ findNewLedgersToPublish \/ pubLedger
    \/ setPubLedger \/ FetchHistory

Next ==
    \/ \E v \in Validator, l \in Signed : addValidation(v, l)
    \/ Jobs
    \/ \E l \in Ledger : switchLedgers(l)
    \/ setBuildingLedger
    \/ Consensus
    \/ Advance
    \/ doAdvanceThrows

Spec == Init /\ [][Next]_vars

\* Jobs run, a round that started ends, and peers answer requests.  Rounds
\* and validations need not come.
FairSpec ==
    /\ Spec
    /\ WF_vars(Jobs)
    /\ WF_vars(Consensus)
    /\ WF_vars(Advance)

-----------------------------------------------------------------------------
(* Properties *)

Quorum(l) == getTrustedValidationCount(l) >= MinValidations
Follows(a, b) ==
    \/ SeqOf(b) = SeqOf(a) + 1
    \/ SeqOf(b) > SeqOf(a) + MAX_LEDGER_GAP
Confirmed(x) ==
    \E l \in Ledger : /\ Quorum(l)
                      /\ SeqOf(x) <= SeqOf(l)
                      /\ Chain[l][SeqOf(x)] = x
Unanimous(l) == \A v \in Validator : current[v] = l

\* The validated ledger moves only to a ledger of a higher sequence, whichever
\* of the threads in checkAccept (l.818) comes first.
ValidatedAdvances == [][valid' # valid => SeqOf(valid') > SeqOf(valid)]_valid

\* A fully validated ledger has a quorum of trusted validations (l.831), unless
\* it is the one the server was started with.
ValidatedHasQuorum == last # None => valid = last /\ Quorum(last)

\* What clients are given (l.1158) is a continuous stream of ledgers in the
\* order of their sequences, except for jumps over more than MAX_LEDGER_GAP.
PublishedStream ==
    ~adv.threw => \A i \in 1 .. Len(published) - 1 : Follows(published[i], published[i + 1])

\* Every published ledger is, or is in the history of, a ledger that has a
\* quorum (findNewLedgersToPublish, l.1175).
PublishedValidated == \A i \in 1 .. Len(published) : Confirmed(published[i])

\* doAdvance "loops until it cannot make further progress" (ledger/README.md):
\* with the advance job gone, either all validated ledgers are published or the
\* next one is being acquired, which ends in a call of tryAdvance.
AdvanceComplete ==
    (adv.pc = "idle" /\ ~adv.threw /\ SeqOf(valid) > SeqOf(pub)) =>
        Chain[valid][pubSeq] \in wanted \cup fetched

\* Every fully validated ledger is published, or jumped over, in the end.
EventuallyPublished ==
    \A l \in Signed : valid = l ~> (SeqOf(pub) >= SeqOf(l) \/ adv.threw)

\* A ledger all trusted validators stay on becomes the validated one, although
\* validations that come while it is being built are not checked (l.767).
UnanimousValidated ==
    \A l \in Signed :
        Unanimous(l) ~> (SeqOf(valid) >= SeqOf(l) \/ ~Unanimous(l))

\* "Of the ledgers with sufficient validations, find the one with the highest
\* sequence" (l.947): a ledger that checkAccept would take (l.831) and that no
\* validation job or acquisition is about to check is not passed over.
SufficientPicked ==
    [][PickLedger => \A l \in Ledger :
          (/\ \A v \in Validator : job[v] = Idle
           /\ l \notin wanted \cup fetched
           /\ SeqOf(l) > SeqOf(valid)
           /\ Cardinality({v \in Validator : round.seen[v] = l}) >= getNeededValidations)
          => round'.pc = "check"]_vars
=============================================================================
