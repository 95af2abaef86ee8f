---------------------------- MODULE Transactions ----------------------------
(***************************************************************************)
(* The way of a transaction through one server: received from a peer       *)
(* (PeerImp.cpp), found in a peer's transaction set                        *)
(* (ConsensusTransSetSF.cpp) or submitted by a client (Submit.cpp);        *)
(* processed (NetworkOPs.cpp, processTransactionCb) into the open ledger,  *)
(* the held transactions (LedgerMaster.cpp) or the local transactions      *)
(* (LocalTxs.cpp); taken into a position when the ledger closes, agreed on *)
(* or not, and carried into the next open ledger (LedgerConsensus.cpp,     *)
(* accept), while other ledgers may be validated or jumped to.             *)
(*                                                                         *)
(* processTransactionCb, closeLedger, switchLastClosedLedger and the end   *)
(* of accept hold the master mutex, so each is one step.  The building of  *)
(* the next ledger in accept does not, and other steps fall between it and *)
(* the push of the new open ledger.                                        *)
(***************************************************************************)
EXTENDS TransactionEngine

CONSTANTS
    holdLedgers,    \* LocalTx::holdLedgers
    Lag,            \* bound: how far our ledgers run ahead of the validated
    None,
    Setups          \* who knows which transactions; see MCTransactions

Known(s) == s.client \cup s.peer \cup UNION s.sets

ASSUME SetupsAssumption ==
    /\ holdLedgers \in Nat
    /\ \A s \in Setups :
           /\ Known(s) \subseteq Transaction /\ IsFiniteSet(Known(s))
           /\ {s.salted, s.unsalted} \subseteq [Account -> Nat]

ASSUME PayersExist ==
    \A s \in Setups : \A t \in Known(s) :
        t.amt > 0 => Exists(Genesis, t.src) /\ t.src # FeeAccount

VARIABLES
    setup,              \* the scenario, chosen once
    current, closed,    \* mCurrentLedger, mClosedLedger
    valid,              \* mValidLedger
    network,            \* the ledger the network agrees on after valid, or None
    mHeldTransactions,
    m_txns,             \* the local transactions: [txn, expire]
    router,             \* HashRouter: the flags of each transaction
    sent,               \* how often each one was relayed
    submitted,          \* history: every LocalTx there ever was
    jobs,               \* jtTRANSACTION jobs: [type, txn]
    arrivals,           \* bound: what may still arrive, [by, txn]
    state,              \* the consensus round
    mPreviousLedger,    \* the ledger the round builds on
    position,           \* our transaction set
    mDisputes,          \* the disputed transactions
    built               \* accept's newLCL, newOL and retriableTransactions

ledgers == <<current, closed, valid, network>>
queues  == <<mHeldTransactions, m_txns, submitted>>
routing == <<router, sent>>
round   == <<state, mPreviousLedger, position, mDisputes, built>>
vars    == <<setup, ledgers, queues, routing, jobs, arrivals, round>>

Txns == setup.client \cup setup.peer

Init ==
    /\ setup \in Setups
    /\ closed = FirstLedger /\ valid = FirstLedger
    /\ current = NewLedger(FirstLedger)
    /\ network = None
    /\ mHeldTransactions = {} /\ m_txns = {} /\ submitted = {}
    /\ router = [t \in Txns |-> {}]
    /\ sent = [t \in Txns |-> 0]
    /\ jobs = {}
    /\ arrivals = [by : {"client"}, txn : setup.client]
                     \cup [by : {"peer", "set"}, txn : setup.peer]
    /\ state = "idle" /\ mPreviousLedger = closed
    /\ position = {} /\ mDisputes = {} /\ built = None

----------------------------------------------------------------------------
(* HashRouter: the first to set SF_RELAYED relays.                         *)
Flagged(r, t, flags) == [r EXCEPT ![t] = @ \cup {"seen"} \cup flags]

(* The variant that only looks at the flag.                                *)
swapSet_look(r, s, t, relay) ==
    /\ router' = Flagged(r, t, {})
    /\ sent' = [s EXCEPT ![t] = IF relay /\ "RELAYED" \notin r[t]
                                THEN @ + 1 ELSE @]

swapSet(r, s, t, relay) ==
    IF relay /\ "RELAYED" \notin r[t]
    THEN /\ router' = Flagged(r, t, {"RELAYED"})
         /\ sent' = [s EXCEPT ![t] = @ + 1]
    ELSE router' = r /\ sent' = s

(* LocalTx: how long a transaction submitted on the open ledger is kept.   *)
LocalTx(t) ==
    LET held == current.seq + holdLedgers
    IN  [txn |-> t, expire |-> IF t.last > 0 THEN Min({held, t.last + 1})
                                             ELSE held]

(* processTransactionCb: r is the router as the caller left it, a what     *)
(* doTransaction made of the open ledger.                                  *)
doTransaction(t, r, a, bLocal, bFailHard, full) ==
    LET addLocal == /\ bLocal
                    /\ a.ter # "tel"
                    /\ ~(a.ter = "ter" /\ bFailHard)
        new == IF addLocal THEN {LocalTx(t)} ELSE {}
    IN  /\ current' = a.ledger
        /\ mHeldTransactions' =
               mHeldTransactions \cup
                   (IF a.ter = "ter" /\ ~bFailHard THEN {t} ELSE {})
        /\ m_txns' = m_txns \cup new
        /\ submitted' = submitted \cup new
        /\ swapSet(Flagged(r, t, {"SIGGOOD"}), sent, t,
                   a.did \/ (~full /\ ~bFailHard /\ bLocal))

processTransactionCb(t, r, bLocal, bFailHard, full) ==
    IF "BAD" \in r[t] \/ ~t.good
    THEN /\ router' = IF "BAD" \in r[t] THEN r ELSE Flagged(r, t, {"BAD"})
         /\ UNCHANGED <<current, queues, sent>>
    ELSE doTransaction(t, r, applyTransaction(current, t, TRUE, FALSE),
                       bLocal, bFailHard, full)

Arrives(by, t) ==
    /\ [by |-> by, txn |-> t] \in arrivals
    /\ arrivals' = arrivals \ {[by |-> by, txn |-> t]}

(* doSubmit: the client's transaction is checked and processed at once.    *)
doSubmit(t) ==
    /\ Arrives("client", t)
    /\ \E full \in BOOLEAN :
           IF t.good
           THEN processTransactionCb(t, router, TRUE, t \in setup.failHard,
                                     full)
           ELSE UNCHANGED <<current, queues, routing>>
    /\ UNCHANGED <<setup, closed, valid, network, jobs, round>>

(* PeerImp::onMessage (TMTransaction): what was seen is not looked at      *)
(* again.  A full job queue, or a stale validated ledger, drops it.        *)
onTransaction(t) ==
    /\ Arrives("peer", t)
    /\ router' = Flagged(router, t, {})
    /\ jobs' \in IF "seen" \in router[t] THEN {jobs}
                 ELSE {jobs, jobs \cup {[type |-> "check", txn |-> t]}}
    /\ UNCHANGED <<setup, ledgers, queues, sent, round>>

(* ConsensusTransSetSF::gotNode: a set we acquire holds the transaction.   *)
gotNode(t) ==
    /\ Arrives("set", t)
    /\ jobs' = jobs \cup {[type |-> "submit", txn |-> t]}
    /\ UNCHANGED <<setup, ledgers, queues, routing, round>>

Takes(type, t) == [type |-> type, txn |-> t] \in jobs
Done(type, t) == jobs \ {[type |-> type, txn |-> t]}

(* PeerImp::checkTransaction.                                              *)
checkTransaction(t) ==
    /\ Takes("check", t)
    /\ jobs' = Done("check", t)
    /\ IF (t.last > 0 /\ t.last < valid.seq) \/ ~t.good
       THEN /\ router' = Flagged(router, t, {"BAD"})
            /\ UNCHANGED <<current, queues, sent>>
       ELSE \E full \in BOOLEAN :
                processTransactionCb(t, Flagged(router, t, {"SIGGOOD"}),
                                     FALSE, FALSE, full)
    /\ UNCHANGED <<setup, closed, valid, network, arrivals, round>>

(* NetworkOPsImp::submitTransaction; SF_RETRY is never set.                *)
submitTransaction(t) ==
    /\ Takes("submit", t)
    /\ IF "BAD" \in router[t]
       THEN router' = router /\ jobs' = Done("submit", t)
       ELSE IF "SIGGOOD" \notin router[t] /\ ~t.good
       THEN router' = Flagged(router, t, {"BAD"}) /\ jobs' = Done("submit", t)
       ELSE /\ router' = Flagged(router, t, {"SIGGOOD"})
            /\ jobs' = Done("submit", t) \cup {[type |-> "process", txn |-> t]}
    /\ UNCHANGED <<setup, ledgers, queues, sent, arrivals, round>>

(* processTransactionCbVoid, as submitTransaction queued it.               *)
processTransactionCbVoid(t) ==
    /\ Takes("process", t)
    /\ jobs' = Done("process", t)
    /\ \E full \in BOOLEAN :
           processTransactionCb(t, router, FALSE, FALSE, full)
    /\ UNCHANGED <<setup, closed, valid, network, arrivals, round>>

----------------------------------------------------------------------------
(* The consensus round.                                                    *)

(* beginConsensus, on our last closed ledger.                              *)
beginConsensus ==
    /\ state = "idle"
    /\ closed.seq < setup.maxSeq /\ closed.seq <= valid.seq + Lag
    /\ state' = "open" /\ mPreviousLedger' = closed
    /\ position' = {} /\ mDisputes' = {} /\ built' = None
    /\ UNCHANGED <<setup, ledgers, queues, routing, jobs, arrivals>>

(* LedgerMaster::applyHeldTransactions: what still does not apply is       *)
(* forgotten, except by LocalTxs.                                          *)
HeldApplied(l) ==
    Applied(l, mHeldTransactions, Canonical(setup.salted, mHeldTransactions))

closeLedger ==
    /\ state = "open"
    /\ state' = "establish"
    /\ current' = HeldApplied(current)
    /\ router' = [t \in Txns |-> IF t \in mHeldTransactions
                                 THEN router[t] \cup {"seen", "SIGGOOD"}
                                 ELSE router[t]]
    /\ mHeldTransactions' = {}
    /\ position' = current'.txns
    /\ UNCHANGED <<setup, closed, valid, network, m_txns, submitted, sent, jobs,
                   arrivals, mPreviousLedger, mDisputes, built>>

(* addDisputedTransaction: our position and a peer's differ on t.          *)
addDisputedTransaction(t) ==
    /\ state = "establish"
    /\ t \in (position \cup setup.peer) \ mDisputes /\ t.good
    /\ mDisputes' = mDisputes \cup {t}
    /\ swapSet(Flagged(router, t, {}), sent, t, TRUE)
    /\ UNCHANGED <<setup, ledgers, queues, jobs, arrivals, state,
                   mPreviousLedger, position, built>>

(* The sets our votes on the disputes can make of our position.            *)
Positions ==
    {(position \ mDisputes) \cup s : s \in SUBSET mDisputes}

(* A ledger the network is seen to be on, that is not behind l.            *)
Preferred(l) == {n \in {network, valid} \ {None, l} : n.seq >= l.seq}

(* handleLCL: the network builds on another ledger, and we have it.        *)
handleLCL ==
    /\ state \in {"open", "establish"}
    /\ mPreviousLedger' \in Preferred(mPreviousLedger)
    /\ position' \in Positions
    /\ mDisputes' = {}
    /\ UNCHANGED <<setup, ledgers, queues, routing, jobs, arrivals, state,
                   built>>

(* accept, up to the lock: the next ledger is built from the set that was  *)
(* agreed on, and a new open ledger from what was left and what we voted   *)
(* against.                                                                *)
Opened(lcl, ol) == [lcl |-> lcl, ol |-> ol.ledger, left |-> ol.left]

Built(lcl, no) ==
    Opened(lcl.ledger,
           IF no = {}
           THEN [ledger |-> NewLedger(lcl.ledger), left |-> lcl.left]
           ELSE applyTransactions({}, NewLedger(lcl.ledger), lcl.ledger,
                                  lcl.left \cup no, setup.salted, TRUE))

acceptBuild ==
    /\ state = "establish"
    /\ state' = "accept"
    /\ \E set \in Positions :
           /\ position' = set
           /\ built' = Built(applyTransactions(set, NewLedger(mPreviousLedger),
                                              NewLedger(mPreviousLedger), {},
                                              setup.salted, FALSE),
                             mDisputes \ set)
    /\ UNCHANGED <<setup, ledgers, queues, routing, jobs, arrivals,
                   mPreviousLedger, mDisputes>>

(* LocalTxs::apply: one walk in canonical order, unsalted.                 *)
LocalApplied(l) ==
    LET ts == {e.txn : e \in m_txns}
    IN  Applied(l, ts, Canonical(setup.unsalted, ts))

(* accept, under the locks: the old open ledger's transactions, then the   *)
(* local ones, are applied to the new open ledger, which is then pushed.   *)
acceptPush ==
    /\ state = "accept"
    /\ state' = "idle"
    /\ LET old == applyTransactions(current.txns, built.ol, built.lcl,
                                    built.left, setup.salted, TRUE)
       IN  current' = LocalApplied(IF current.txns = {} THEN built.ol
                                                        ELSE old.ledger)
    /\ closed' = built.lcl
    /\ built' = None
    /\ UNCHANGED <<setup, valid, network, queues, routing, jobs, arrivals,
                   mPreviousLedger, position, mDisputes>>

(* checkLastClosedLedger finds a better ledger: switchLastClosedLedger.    *)
switchLastClosedLedger ==
    /\ state = "idle"
    /\ \E l \in Preferred(closed) : closed' = l /\ current' = NewLedger(l)
    /\ UNCHANGED <<setup, valid, network, queues, routing, jobs, arrivals,
                   round>>

----------------------------------------------------------------------------
(* The other servers agree on some set of the transactions they know; it   *)
(* may be ours.                                                            *)
networkCloses ==
    /\ network = None /\ valid.seq < setup.maxSeq
    /\ \E set \in {{}, position} \cup setup.sets :
           network' = applyTransactions(set, NewLedger(valid), NewLedger(valid),
                                        {}, setup.salted, FALSE).ledger
    /\ UNCHANGED <<setup, current, closed, valid, queues, routing, jobs,
                   arrivals, round>>

(* The variant that sweeps against our own last closed ledger.             *)
can_remove_closed(e, l) ==
    l.seq > e.expire \/ closed.acct[e.txn.src].seq > e.txn.seq

(* LocalTxs::can_remove and sweep, against the validated ledger l.         *)
can_remove(e, l) ==
    \/ l.seq > e.expire
    \/ e.txn \in l.txns
    \/ l.acct[e.txn.src].seq > e.txn.seq

(* LedgerMaster::setValidLedger.                                           *)
setValidLedger ==
    /\ network # None
    /\ valid' = network /\ network' = None
    /\ m_txns' = {e \in m_txns : ~can_remove(e, valid')}
    /\ UNCHANGED <<setup, current, closed, mHeldTransactions, submitted, routing,
                   jobs, arrivals, round>>

Arrival(t) == doSubmit(t) \/ onTransaction(t) \/ gotNode(t)
JobRuns(t) ==
    checkTransaction(t) \/ submitTransaction(t) \/ processTransactionCbVoid(t)
Round ==
    \/ beginConsensus \/ closeLedger \/ handleLCL \/ acceptBuild \/ acceptPush
    \/ switchLastClosedLedger
    \/ \E t \in Txns : addDisputedTransaction(t)

Next ==
    \/ \E t \in Txns : Arrival(t) \/ JobRuns(t)
    \/ Round \/ networkCloses \/ setValidLedger

Spec == Init /\ [][Next]_vars

----------------------------------------------------------------------------
(* Properties.                                                             *)

Ledgers == {current, closed, valid}

(* Along the chain of every ledger this server works on, a transaction is  *)
(* applied once and a sequence number is used once, however often and by   *)
(* whatever way the transaction came in: from a client, a peer, a set, the *)
(* held or local transactions, the old open ledger or a dispute.           *)
OncePerSequence ==
    \A l \in Ledgers :
        /\ l.txns \cap l.prior = {}
        /\ \A t, u \in l.txns \cup l.prior :
               t.src = u.src /\ t.seq = u.seq => t = u

Coins(acct) == SumFunction([a \in Account |-> acct[a].bal])
Fees(ts) == SumFunction([t \in ts |-> t.fee])

(* Coins only move between accounts, fees to the fee account included.  No *)
(* account is overdrawn, no transaction makes coins, and the only ones     *)
(* that disappear are the fees of transactions that claimed their fee and  *)
(* did nothing else (TransactionEngine::applyTransaction's reprocessing).  *)
CoinsAccounted ==
    \A l \in Ledgers :
        /\ \A a \in Account : l.acct[a].bal >= 0
        /\ Coins(l.acct) <= Coins(Genesis)
        /\ Coins(l.acct) + Fees(l.claimed) >= Coins(Genesis)

(* A transaction reaches the peers once, although both the thread that     *)
(* processes it and the consensus that disputes it would relay it          *)
(* (HashRouter::swapSet, setFlag).                                         *)
RelayedOnce == \A t \in Txns : sent[t] <= 1

(* t pays its way alone: neither the fees nor a payment of ts are credited *)
(* to its source.                                                          *)
Independent(t, ts) ==
    /\ t.fee > 0 /\ t.src # FeeAccount
    /\ \A u \in ts : ~(u.amt > 0 /\ u.dst = t.src)

Unsettled ==
    {e.txn : e \in {f \in submitted :
        /\ valid.seq <= f.expire
        /\ valid.acct[f.txn.src].seq <= f.txn.seq}}

(* A local transaction in ts has made way for t, which is not local.       *)
Overtaken(t, ts) ==
    /\ \A e \in m_txns : e.txn # t
    /\ \E e \in m_txns : e.txn \in ts /\ e.txn.src = t.src /\ e.txn.seq < t.seq

(* When a new open ledger replaces the old one, nothing this server still  *)
(* holds is left out of it that could be applied to it: no transaction of  *)
(* the old open ledger, none that we voted against, and none a client      *)
(* submitted that the validated ledgers have not settled and that has not  *)
(* expired (LocalTxs.cpp).  LocalTxs::apply comes last and walks the       *)
(* accounts only once, so two kinds are left out: a transaction whose      *)
(* source the new open ledger itself credits, and one that is not local    *)
(* and whose number only comes up by a local one.                          *)
NothingLost ==
    [][acceptPush =>
          \A t \in current.txns \cup (mDisputes \ position) \cup Unsettled :
              Independent(t, current'.txns) /\ ~Overtaken(t, current'.txns)
                  => ~applyTransaction(current', t, TRUE, FALSE).did]_vars

Credited(t, ts) == t.amt > 0 /\ \E u \in ts : u.amt > 0 /\ u.dst = t.src

(* The ledger built from an agreed set follows the ledger the round builds *)
(* on, has no transaction that is not of the set, and has every one that   *)
(* can be applied to it, unless its timestamp puts it off.  The passes of  *)
(* applyTransactions end with a final one; only where the ledger itself    *)
(* credits its source can a transaction be left out, and then only a       *)
(* payment, which the first look at the funds has refused for good, or in  *)
(* a set with at least as many transactions as there are passes.           *)
AgreedApplied ==
    [][acceptBuild =>
          /\ built'.lcl.txns \subseteq position'
          /\ built'.lcl.prior = mPreviousLedger.prior \cup mPreviousLedger.txns
          /\ \A t \in position' :
                 \/ t.ts >= built'.lcl.close - 1
                 \/ ~applyTransaction(built'.lcl, t, FALSE, FALSE).did
                 \/ /\ ~Independent(t, built'.lcl.txns)
                    /\ \/ Credited(t, position')
                       \/ Cardinality(position') >= TOTAL_PASSES]_vars
============================================================================
