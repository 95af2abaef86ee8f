------------------------- MODULE TransactionEngine -------------------------
(***************************************************************************)
(* Applying transactions to a ledger: the transactors (Transactor.cpp,     *)
(* Payment.cpp for native payments, Message.cpp), the transaction engine   *)
(* (TransactionEngine.cpp), the canonical order (CanonicalTXSet.cpp) and   *)
(* the passes a consensus set is applied in (LedgerConsensus.cpp,          *)
(* applyTransactions).                                                     *)
(*                                                                         *)
(* A transaction is a record                                               *)
(*   [id, src, seq, dst, amt, fee, last, ts, good]                         *)
(* amt = 0 is a Message, otherwise a direct native payment; last is        *)
(* LastLedgerSequence (0 when absent); ts the Timestamp field; good says   *)
(* that the signature and the local checks pass.  Of the result codes only *)
(* the class is kept, which is all the callers look at.  Accounts have no  *)
(* offers, frozen amounts or authorisations, and payments only come from   *)
(* accounts the ledger has: Payment::preCheck reads the account root of    *)
(* the source before Transactor::apply has looked whether there is one.    *)
(*                                                                         *)
(* A ledger is [seq, close, txns, claimed, prior, acct]: prior are the     *)
(* transactions of its ancestors, claimed those of it and its ancestors    *)
(* whose result was tec, acct[a] the account root of a, with seq = 0 while *)
(* a does not exist.                                                       *)
(***************************************************************************)
EXTENDS Integers, FiniteSets, FiniteSetsExt

CONSTANTS
    Account,        \* the accounts
    FeeAccount,     \* the one that is paid the fees
    Genesis,        \* the account roots before the first transaction
    feeDue,         \* the load-scaled fee of a transaction
    reserve,        \* getReserve (0)
    resolution,     \* mCloseResolution, taken as constant
    TOTAL_PASSES,   \* LEDGER_TOTAL_PASSES
    RETRY_PASSES    \* LEDGER_RETRY_PASSES

ASSUME EngineAssumption ==
    /\ IsFiniteSet(Account) /\ FeeAccount \in Account
    /\ {feeDue, reserve, resolution, TOTAL_PASSES, RETRY_PASSES} \subseteq Nat
    /\ RETRY_PASSES + 1 < TOTAL_PASSES
    /\ Genesis \in [Account -> [seq : Nat, bal : Nat]]
    /\ \A a \in Account : Genesis[a].seq = 0 => Genesis[a].bal = 0

Transaction ==
    [id : Nat, src : Account, seq : Nat, dst : Account, amt : Nat, fee : Nat,
     last : Nat, ts : Nat, good : BOOLEAN]

(* The first closed ledger, and Ledger (false, prevLedger).                *)
FirstLedger ==
    [seq |-> 1, close |-> resolution, txns |-> {}, claimed |-> {},
     prior |-> {}, acct |-> Genesis]

NewLedger(prev) ==
    [seq |-> prev.seq + 1, close |-> prev.close + resolution,
     txns |-> {}, claimed |-> prev.claimed,
     prior |-> prev.prior \cup prev.txns,
     acct |-> prev.acct]

Exists(acct, a) == acct[a].seq > 0

----------------------------------------------------------------------------
(* Transactors.  Each yields the class of the result and the account roots *)
(* the transaction would leave.                                            *)
Ends(ter, acct) == [ter |-> ter, acct |-> acct]

(* The variant that lets a used sequence number pass.                      *)
checkSeq_past(l, t) ==
    IF l.acct[t.src].seq < t.seq THEN "ter"
    ELSE IF t.last > 0 /\ l.seq > t.last THEN "tef" ELSE "tes"

(* Transactor::checkSeq.  tefALREADY and tefPAST_SEQ are of one class.     *)
checkSeq(l, t) ==
    LET a_seq == l.acct[t.src].seq
    IN  IF a_seq < t.seq THEN "ter"
        ELSE IF a_seq > t.seq \/ (t.last > 0 /\ l.seq > t.last) THEN "tef"
        ELSE "tes"

(* Transactor::payFee: a closed ledger takes what little there is, and the *)
(* engine then claims the fee; an open one waits for the balance to grow.  *)
payFee(l, t, open) ==
    LET bal == l.acct[t.src].bal
    IN  IF open /\ t.fee < feeDue THEN "tel"
        ELSE IF bal >= t.fee THEN "tes"
        ELSE IF bal > 0 /\ ~open THEN "tec" ELSE "ter"

(* The source pays the fee to the fee account, which is created if needed. *)
FeePaid(acct, t) ==
    LET paid == [acct EXCEPT ![t.src] = [seq |-> t.seq + 1, bal |-> @.bal - t.fee]]
    IN  [paid EXCEPT ![FeeAccount] = [seq |-> IF @.seq = 0 THEN 1 ELSE @.seq,
                                      bal |-> @.bal + t.fee]]

(* Message::doApply: the destination has to exist.                         *)
doMessage(t, acct) ==
    Ends(IF Exists(acct, t.dst) THEN "tes" ELSE "tec", acct)

(* Payment::doApply: a destination that does not exist is created, if it   *)
(* is sent the reserve.                                                    *)
Destination(acct, t) ==
    IF Exists(acct, t.dst) THEN {acct[t.dst]}
    ELSE IF t.amt < reserve THEN {}
    ELSE {[seq |-> 1, bal |-> 0]}

(* Payment::doApply, the direct native payment; acct are the account roots *)
(* after the fee.                                                          *)
doApply(l, t, acct) ==
    IF \/ Destination(acct, t) = {}
       \/ l.acct[t.src].bal < t.amt + Max({reserve, t.fee})
    THEN Ends("tec", acct)
    ELSE LET dst == CHOOSE d \in Destination(acct, t) : TRUE
             spent == [acct EXCEPT ![t.src] = [seq |-> @.seq, bal |-> @.bal - t.amt]]
         IN  Ends("tes", [spent EXCEPT ![t.dst] = [seq |-> dst.seq,
                                                   bal |-> dst.bal + t.amt]])

(* Payment::preCheck, accountFundsCheck: a payment beyond what the source  *)
(* holds above the reserve is refused before anything else is looked at.   *)
Unfunded(l, t) == t.amt > 0 /\ l.acct[t.src].bal < reserve + t.amt

(* Payment::preCheck, temREDUNDANT: a native payment to oneself.           *)
Redundant(t) == t.amt > 0 /\ t.src = t.dst

(* Transactor::apply: the checks in their order, then the transaction.     *)
Checked(l, t, open) ==
    IF Redundant(t) THEN "tem"
    ELSE IF Unfunded(l, t) THEN "tel"
    ELSE IF ~t.good THEN "tem"
    ELSE IF ~Exists(l.acct, t.src) THEN "ter"
    ELSE IF checkSeq(l, t) # "tes" THEN checkSeq(l, t)
    ELSE payFee(l, t, open)

transact(l, t, ter) ==
    IF ter # "tes" THEN Ends(ter, l.acct)
    ELSE IF t.amt = 0 THEN doMessage(t, FeePaid(l.acct, t))
    ELSE doApply(l, t, FeePaid(l.acct, t))

----------------------------------------------------------------------------
(* TransactionEngine::applyTransaction.  A tec result is dropped when the  *)
(* transaction may be retried; otherwise everything it did is undone and   *)
(* only the fee is claimed.                                                *)
Claimable(l, t, open) ==
    LET bal == l.acct[t.src].bal
    IN  /\ Exists(l.acct, t.src) /\ l.acct[t.src].seq = t.seq
        /\ bal > 0 /\ (open => bal >= t.fee)

(* The variant that claims the whole fee whatever the balance is.          *)
Claimed_whole(l, t) ==
    [l EXCEPT !.acct[t.src] = [seq |-> t.seq + 1, bal |-> @.bal - t.fee],
              !.txns = @ \cup {t}, !.claimed = @ \cup {t}]

Claimed(l, t) ==
    [l EXCEPT !.acct[t.src] =
                  [seq |-> t.seq + 1, bal |-> @.bal - Min({t.fee, @.bal})],
              !.txns = @ \cup {t}, !.claimed = @ \cup {t}]

Reprocessed(l, t, open, retry, r) ==
    IF r.ter = "tes"
    THEN [ter |-> "tes", did |-> TRUE,
          ledger |-> [l EXCEPT !.acct = r.acct, !.txns = @ \cup {t}]]
    ELSE IF r.ter = "tec" /\ ~retry /\ Claimable(l, t, open)
    THEN [ter |-> "tec", did |-> TRUE, ledger |-> Claimed(l, t)]
    ELSE [ter |-> IF r.ter = "tec" /\ ~retry THEN "ter" ELSE r.ter,
          did |-> FALSE, ledger |-> l]

applyTransaction(l, t, open, retry) ==
    Reprocessed(l, t, open, retry, transact(l, t, Checked(l, t, open)))

----------------------------------------------------------------------------
(* CanonicalTXSet::Key: by salted account, then sequence, then id.  rank   *)
(* orders the accounts the way the salt of the set does.                   *)
Precedes(rank, t, u) ==
    \/ rank[t.src] < rank[u.src]
    \/ /\ t.src = u.src
       /\ t.seq < u.seq \/ (t.seq = u.seq /\ t.id < u.id)

Canonical(rank, ts) == {p \in ts \X ts : Precedes(rank, p[1], p[2])}

(* A transaction set is a SHAMap, walked in the order of the ids.          *)
ById(ts) == {p \in ts \X ts : p[1].id < p[2].id}

LastIn(order, s) == CHOOSE t \in s : \A u \in s : <<t, u>> \notin order

(* Each of ts is tried once on the open ledger l, in that order: the walks *)
(* of LedgerMaster::applyHeldTransactions and LocalTxs::apply.             *)
Applied(l, ts, order) ==
    MapThenFoldSet(LAMBDA t, m : applyTransaction(m, t, TRUE, FALSE).ledger,
                   l, LAMBDA t : t, LAMBDA s : LastIn(order, s), ts)

(* applyTransaction of LedgerConsensus.cpp: a closed ledger puts off a     *)
(* transaction stamped later than its own close time.                      *)
Judged(r) ==
    [out |-> IF r.did THEN "success"
             ELSE IF r.ter \in {"tef", "tem", "tel"} THEN "fail"
             ELSE "retry",
     ledger |-> r.ledger]

Attempt(l, t, open, retry) ==
    IF ~open /\ t.ts >= l.close - 1
    THEN [out |-> "retry", ledger |-> l]
    ELSE Judged(applyTransaction(l, t, open, retry))

(* One walk over ts; what may be retried is left over.                     *)
Walked(s, t, r) ==
    [ledger |-> r.ledger,
     left |-> IF r.out = "retry" THEN s.left \cup {t} ELSE s.left,
     changed |-> s.changed \/ r.out = "success"]

Walk(l, ts, order, open, retry) ==
    MapThenFoldSet(LAMBDA t, s : Walked(s, t, Attempt(s.ledger, t, open, retry)),
                   [ledger |-> l, left |-> {}, changed |-> FALSE],
                   LAMBDA t : t, LAMBDA s : LastIn(order, s), ts)

(* The variant whose passes all are retriable.                             *)
Passes_retry(l, left, rank, open) ==
    MapThenFoldSet(LAMBDA pass, s : Walk(s.ledger, s.left, Canonical(rank, s.left),
                                         open, TRUE),
                   [ledger |-> l, left |-> left],
                   LAMBDA pass : pass, Max, 0 .. TOTAL_PASSES - 1)

(* The passes: retriable ones while they change something, at most         *)
(* RETRY_PASSES after the first, then final ones.                          *)
Passed(s, pass, w) ==
    [ledger |-> w.ledger, left |-> w.left,
     certain |-> s.certain /\ w.changed /\ pass < RETRY_PASSES,
     done |-> ~w.changed /\ ~s.certain]

Pass(s, pass, rank, open) ==
    IF s.done THEN s
    ELSE Passed(s, pass, Walk(s.ledger, s.left, Canonical(rank, s.left), open,
                              s.certain))

Passes(l, left, rank, open) ==
    MapThenFoldSet(LAMBDA pass, s : Pass(s, pass, rank, open),
                   [ledger |-> l, left |-> left, certain |-> TRUE, done |-> FALSE],
                   LAMBDA pass : pass, Max, 0 .. TOTAL_PASSES - 1)

(* applyTransactions of LedgerConsensus.cpp: set is applied to l, skipping *)
(* what check has, and retried together with what was left before.         *)
Retried(first, left, rank, open) ==
    Passes(first.ledger, left \cup first.left, rank, open)

applyTransactions(set, l, check, left, rank, open) ==
    Retried(Walk(l, set \ check.txns, ById(set), open, TRUE), left, rank, open)
============================================================================
