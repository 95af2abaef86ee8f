----------------------------- MODULE Validations -----------------------------
(***************************************************************************)
(* The store of validations (src/common/misc/Validations.cpp): which one   *)
(* is current for each validator, and the way of a validation that is no   *)
(* longer current to the database.                                         *)
(*                                                                         *)
(* Threads: the jobs that handle incoming validations, callers of the      *)
(* queries that purge what expired, the doWrite job, and the thread that   *)
(* stops the server and calls flush.  What happens under mLock is one      *)
(* step; doWrite and flush let go of it.                                   *)
(***************************************************************************)
EXTENDS Integers

CONSTANTS
    Node, Ledger,
    Time,                   \* sign times of validations
    LEDGER_EARLY_INTERVAL,  \* 180 s in the code
    LEDGER_VAL_INTERVAL,    \* 300 s in the code
    CloseTimeOffset,        \* getCloseTimeNC - getNetworkTimeNC
    MaxNow,                 \* bound on the clock
    MaxArrivals,            \* bound on the validations received
    None

Validation == [node : Node, ledger : Ledger, time : Time]

ASSUME ValidationAssumption ==
    /\ None \notin Validation
    /\ Time \subseteq Nat
    /\ MaxNow \in Nat /\ MaxArrivals \in Nat

VARIABLES
    now,       \* getNetworkTimeNC
    arrivals,  \* number of validations received
    job,       \* a validation found current, about to be added
    sets,      \* mValidations: the validators of each ledger
    current,   \* mCurrentValidations
    stale,     \* mStaleValidations: how often each validation is in it
    batch,     \* the vector doWrite writes
    written,   \* rows in the database
    writing,   \* mWriting
    writer,    \* the doWrite job
    flushing,  \* the call of flush
    added,     \* history: how often each validation became current
    toFlush    \* history: added when flush was called

store == <<sets, current, stale>>
vars == <<now, arrivals, job, store, batch, written, writing, writer, flushing,
          added, toFlush>>

Count == [Validation -> Nat]
Nothing == [val \in Validation |-> 0]
Plus(f, g) == [val \in Validation |-> f[val] + g[val]]
Only(S) == [val \in Validation |-> IF val \in S THEN 1 ELSE 0]

TypeOK ==
    /\ now \in Nat /\ arrivals \in Nat
    /\ job \in [Node -> Validation \cup {None}]
    /\ sets \in [Ledger -> SUBSET Node]
    /\ current \in [Node -> Validation \cup {None}]
    /\ \A n \in Node : current[n] # None => current[n].node = n
    /\ \A n \in Node : job[n] # None => job[n].node = n
    /\ stale \in Count /\ batch \in Count /\ written \in Count
    /\ writing \in BOOLEAN
    /\ writer \in {"idle", "queued", "writing"}
    /\ flushing \in {"no", "waiting", "done"}
    /\ added \in Count /\ toFlush \in Count

Init ==
    /\ now = 0 /\ arrivals = 0
    /\ job = [n \in Node |-> None]
    /\ sets = [l \in Ledger |-> {}]
    /\ current = [n \in Node |-> None]
    /\ stale = Nothing /\ batch = Nothing /\ written = Nothing
    /\ writing = FALSE /\ writer = "idle"
    /\ flushing = "no"
    /\ added = Nothing /\ toFlush = Nothing

-----------------------------------------------------------------------------
\* What is pushed goes to the stale validations; a job writes them.
condWrite(push) ==
    /\ stale' = Plus(stale, Only(push))
    /\ IF push # {} /\ ~writing
       THEN writing' = TRUE /\ writer' = "queued"
       ELSE UNCHANGED <<writing, writer>>

\* addValidation up to where it takes the lock: it looks at the clock.
ReceiveValidation(val) ==
    LET closeTime == now + CloseTimeOffset IN
    /\ arrivals < MaxArrivals
    /\ job[val.node] = None
    /\ closeTime > val.time - LEDGER_EARLY_INTERVAL
    /\ closeTime < val.time + LEDGER_VAL_INTERVAL
    /\ arrivals' = arrivals + 1
    /\ job' = [job EXCEPT ![val.node] = val]
    /\ UNCHANGED <<now, store, batch, written, writing, writer, flushing, added, toFlush>>

\* The validation of the node that a newer one replaces.
Replaced(n) == IF current[n] = None THEN {} ELSE {current[n]}

addValidation_forgets(n) ==
    LET val == job[n]
        fresh == n \notin sets[val.ledger]
        newer == fresh /\ (current[n] = None \/ val.time > current[n].time)
    IN  /\ val # None
        /\ sets' = [sets EXCEPT ![val.ledger] = @ \cup {n}]
        /\ current' = [current EXCEPT ![n] = IF newer THEN val ELSE @]
        /\ condWrite({})
        /\ added' = IF newer THEN Plus(added, Only({val})) ELSE added
        /\ job' = [job EXCEPT ![n] = None]
        /\ UNCHANGED <<now, arrivals, batch, written, flushing, toFlush>>

\* The part of addValidation under the lock: one validation per node and
\* ledger, and the newest of a node is its current one.
addValidation(n) ==
    LET val == job[n]
        fresh == n \notin sets[val.ledger]
        newer == fresh /\ (current[n] = None \/ val.time > current[n].time)
    IN  /\ val # None
        /\ sets' = [sets EXCEPT ![val.ledger] = @ \cup {n}]
        /\ current' = [current EXCEPT ![n] = IF newer THEN val ELSE @]
        /\ condWrite(IF newer THEN Replaced(n) ELSE {})
        /\ added' = IF newer THEN Plus(added, Only({val})) ELSE added
        /\ job' = [job EXCEPT ![n] = None]
        /\ UNCHANGED <<now, arrivals, batch, written, flushing, toFlush>>

\* getCurrentTrustedValidations and getCurrentValidations drop what expired.
Expired(n) == current[n] # None /\ current[n].time < now - LEDGER_VAL_INTERVAL

getCurrentValidations ==
    LET expired == {n \in Node : Expired(n)} IN
    /\ expired # {}
    /\ current' = [n \in Node |-> IF n \in expired THEN None ELSE current[n]]
    /\ condWrite({current[n] : n \in expired})
    /\ UNCHANGED <<now, arrivals, job, sets, batch, written, flushing, added, toFlush>>

\* The cache drops the set of a ledger by age or for want of space.
sweep(l) ==
    /\ sets[l] # {}
    /\ sets' = [sets EXCEPT ![l] = {}]
    /\ UNCHANGED <<now, arrivals, job, current, stale, batch, written, writing,
                   writer, flushing, added, toFlush>>

-----------------------------------------------------------------------------
doWrite_endless ==
    /\ writer = "queued"
    /\ batch' = stale /\ stale' = Nothing /\ writer' = "writing"
    /\ UNCHANGED <<now, arrivals, job, sets, current, written, writing, flushing, added, toFlush>>

\* The head of the loop of doWrite, with the lock.
doWrite ==
    /\ writer = "queued"
    /\ IF stale = Nothing
       THEN writing' = FALSE /\ writer' = "idle" /\ UNCHANGED <<batch, stale>>
       ELSE batch' = stale /\ stale' = Nothing /\ writer' = "writing" /\ UNCHANGED writing
    /\ UNCHANGED <<now, arrivals, job, sets, current, written, flushing, added, toFlush>>

\* The transaction of doWrite, without the lock, and back to the loop.
Commit ==
    /\ writer = "writing"
    /\ written' = Plus(written, batch)
    /\ batch' = Nothing
    /\ writer' = "queued"
    /\ UNCHANGED <<now, arrivals, job, store, writing, flushing, added, toFlush>>

flush ==
    /\ flushing = "no"
    /\ current' = [n \in Node |-> None]
    /\ condWrite({current[n] : n \in {m \in Node : current[m] # None}})
    /\ flushing' = "waiting"
    /\ toFlush' = added
    /\ UNCHANGED <<now, arrivals, job, sets, batch, written, added>>

\* flush polls mWriting.
FlushReturns ==
    /\ flushing = "waiting"
    /\ ~writing
    /\ flushing' = "done"
    /\ UNCHANGED <<now, arrivals, job, store, batch, written, writing, writer, added, toFlush>>

Tick ==
    /\ now < MaxNow
    /\ now' = now + 1
    /\ UNCHANGED <<arrivals, job, store, batch, written, writing, writer, flushing,
                   added, toFlush>>

Writer == doWrite \/ Commit

Next ==
    \/ \E val \in Validation : ReceiveValidation(val)
    \/ \E n \in Node : addValidation(n)
    \/ getCurrentValidations
    \/ \E l \in Ledger : sweep(l)
    \/ Writer
    \/ flush \/ FlushReturns
    \/ Tick

Spec == Init /\ [][Next]_vars

\* The job queue runs doWrite; the thread in flush keeps polling.
FairSpec == Spec /\ WF_vars(Writer) /\ WF_vars(FlushReturns)

-----------------------------------------------------------------------------
(* Properties *)

\* A stale validation never waits without a writer, although doWrite lets go of
\* the lock between taking a batch and looking for more (l.449 to 477).
StaleHasWriter ==
    /\ stale # Nothing => writing
    /\ writing <=> writer # "idle"

\* A validation that became current is current, waits, is being written, or is
\* in the database, as often as it became current: none is lost and none is
\* written twice (l.129, 321, 411, 453).
NoneLost ==
    \A val \in Validation :
        added[val] = Only(Replaced(val.node))[val] + stale[val] + batch[val] + written[val]

\* When flush returns (l.427), every validation that had been current when it
\* was called is in the database, whatever arrived meanwhile.
FlushComplete ==
    flushing = "done" => \A val \in Validation : written[val] >= toFlush[val]

\* flush returns (l.420): the writer comes to an end once validations do.
FlushEnds == flushing = "waiting" ~> flushing = "done"
=============================================================================
