-------------------------- MODULE ValidationsProofs --------------------------
(***************************************************************************)
(* Proofs about Validations, for every set of nodes and ledgers, all       *)
(* intervals and any number of validations.  The inductive invariant adds  *)
(* to the properties that a batch is held only while it is written, and    *)
(* that what flush is to write is in the database or on its way there.     *)
(***************************************************************************)
EXTENDS Validations, TLAPS

Batched == writer # "writing" => batch = Nothing

Flushed ==
    flushing # "no" =>
        \A val \in Validation : written[val] + batch[val] + stale[val] >= toFlush[val]

IInv == TypeOK /\ StaleHasWriter /\ NoneLost /\ Batched /\ Flushed /\ FlushComplete

LEMMA CountType ==
    /\ Nothing \in Count
    /\ \A f, g \in Count : Plus(f, g) \in Count
    /\ \A S : Only(S) \in Count
BY DEF Nothing, Count, Plus, Only

LEMMA Pointwise ==
    ASSUME NEW val \in Validation
    PROVE  /\ Nothing[val] = 0
           /\ \A f, g : Plus(f, g)[val] = f[val] + g[val]
           /\ \A S : Only(S)[val] = IF val \in S THEN 1 ELSE 0
BY DEF Nothing, Plus, Only

\* How a validation counts as current.
LEMMA CurrentCount ==
    ASSUME NEW val \in Validation
    PROVE  Only(Replaced(val.node))[val] = IF current[val.node] = val THEN 1 ELSE 0
<1>1. val \in Replaced(val.node) <=> current[val.node] = val
  BY ValidationAssumption DEF Replaced
<1> QED BY <1>1, Pointwise

LEMMA CurrentCountNext ==
    ASSUME NEW val \in Validation
    PROVE  Only(Replaced(val.node)')[val] = IF current'[val.node] = val THEN 1 ELSE 0
<1>1. val \in Replaced(val.node)' <=> current'[val.node] = val
  BY ValidationAssumption DEF Replaced
<1> QED BY <1>1, Pointwise

\* What is pushed is waiting, and then there is a writer.
LEMMA condWriteWrites ==
    ASSUME TypeOK, StaleHasWriter, Batched, NEW push, condWrite(push), batch' = batch
    PROVE  /\ stale' \in Count
           /\ writing' \in BOOLEAN
           /\ writer' \in {"idle", "queued", "writing"}
           /\ StaleHasWriter'
           /\ Batched'
           /\ \A val \in Validation :
                 stale'[val] = stale[val] + IF val \in push THEN 1 ELSE 0
<1>1. stale' \in Count
  BY CountType DEF TypeOK, condWrite
<1>2. \A val \in Validation : stale'[val] = stale[val] + IF val \in push THEN 1 ELSE 0
  BY Pointwise DEF condWrite
<1>3. /\ writing' \in BOOLEAN
      /\ writer' \in {"idle", "queued", "writing"}
      /\ writing' <=> writer' # "idle"
  BY DEF TypeOK, condWrite, StaleHasWriter
<1>4. ASSUME ~writing' PROVE stale' = Nothing
  <2>1. ~writing /\ push = {}
    BY <1>4 DEF TypeOK, condWrite
  <2>2. stale = Nothing
    BY <2>1 DEF StaleHasWriter
  <2>3. \A val \in Validation : stale'[val] = 0
    BY <1>2, <2>1, <2>2, Pointwise
  <2> QED BY <1>1, <2>3 DEF Count, Nothing
<1>5. Batched'
  BY DEF TypeOK, StaleHasWriter, condWrite, Batched
<1> QED BY <1>1, <1>2, <1>3, <1>4, <1>5 DEF StaleHasWriter

-----------------------------------------------------------------------------
LEMMA InitInv == Init => IInv
<1> SUFFICES ASSUME Init PROVE IInv
  OBVIOUS
<1>1. TypeOK
  BY CountType DEF Init, TypeOK
<1>2. NoneLost
  BY CurrentCount, Pointwise, ValidationAssumption DEF Init, NoneLost, Validation
<1> QED BY <1>1, <1>2 DEF Init, IInv, StaleHasWriter, Batched, Flushed, FlushComplete

LEMMA ReceiveInv ==
    ASSUME IInv, NEW val \in Validation, ReceiveValidation(val)
    PROVE  IInv'
<1>1. TypeOK'
  BY DEF IInv, TypeOK, ReceiveValidation, Validation, store
<1>2. NoneLost'
  BY DEF IInv, NoneLost, Replaced, ReceiveValidation, store
<1> QED BY <1>1, <1>2 DEF IInv, ReceiveValidation, store, StaleHasWriter, Batched,
                          Flushed, FlushComplete

LEMMA addValidationInv ==
    ASSUME IInv, NEW n \in Node, addValidation(n)
    PROVE  IInv'
<1> DEFINE v == job[n]
           newer == n \notin sets[v.ledger] /\ (current[n] = None \/ v.time > current[n].time)
           push == IF newer THEN Replaced(n) ELSE {}
<1>1. /\ v \in Validation /\ v.node = n
      /\ condWrite(push)
      /\ current' = [current EXCEPT ![n] = IF newer THEN v ELSE @]
      /\ added' = IF newer THEN Plus(added, Only({v})) ELSE added
      /\ sets' = [sets EXCEPT ![v.ledger] = @ \cup {n}]
      /\ job' = [job EXCEPT ![n] = None]
      /\ UNCHANGED <<now, arrivals, batch, written, flushing, toFlush>>
  BY DEF IInv, TypeOK, addValidation
<1>2. /\ stale' \in Count /\ writing' \in BOOLEAN
      /\ writer' \in {"idle", "queued", "writing"}
      /\ StaleHasWriter' /\ Batched'
      /\ \A w \in Validation : stale'[w] = stale[w] + IF w \in push THEN 1 ELSE 0
  BY <1>1, condWriteWrites DEF IInv
<1>3. added' \in Count
  BY <1>1, CountType DEF IInv, TypeOK
<1>4. ASSUME NEW w \in Validation
      PROVE  added'[w] = added[w] + IF newer /\ w = v THEN 1 ELSE 0
  BY <1>1, Pointwise DEF IInv, TypeOK, Count
<1>5. /\ current' \in [Node -> Validation \cup {None}]
      /\ \A m \in Node : current'[m] # None => current'[m].node = m
  BY <1>1 DEF IInv, TypeOK
<1>6. TypeOK'
  <2>1. v.ledger \in Ledger
    BY <1>1 DEF Validation
  <2>2. sets' \in [Ledger -> SUBSET Node]
    BY <1>1, <2>1 DEF IInv, TypeOK
  <2>3. /\ job' \in [Node -> Validation \cup {None}]
        /\ \A m \in Node : job'[m] # None => job'[m].node = m
    BY <1>1 DEF IInv, TypeOK
  <2> QED BY <1>1, <1>2, <1>3, <1>5, <2>2, <2>3 DEF IInv, TypeOK
<1>7. NoneLost'
  <2> SUFFICES ASSUME NEW w \in Validation
               PROVE  added'[w] = Only(Replaced(w.node)')[w] + stale'[w] + batch'[w] + written'[w]
    BY DEF NoneLost
  <2>1. added[w] = (IF current[w.node] = w THEN 1 ELSE 0) + stale[w] + batch[w] + written[w]
    BY CurrentCount DEF IInv, NoneLost
  <2>2. /\ added[w] \in Nat /\ stale[w] \in Nat /\ batch[w] \in Nat /\ written[w] \in Nat
    BY DEF IInv, TypeOK, Count
  <2>3. w.node \in Node
    BY DEF Validation
  <2>4. CASE ~newer
    BY <1>1, <1>2, <1>4, <2>1, <2>2, <2>3, <2>4, CurrentCountNext DEF IInv, TypeOK
  <2>5. CASE newer /\ w.node # n
    <3>1. w # v /\ current'[w.node] = current[w.node]
      BY <1>1, <2>3, <2>5 DEF IInv, TypeOK
    <3>2. w \notin push
      BY <2>5, ValidationAssumption DEF Replaced, IInv, TypeOK
    <3>3. added'[w] = added[w] /\ stale'[w] = stale[w]
      BY <1>2, <1>4, <2>2, <3>1, <3>2
    <3>4. batch' = batch /\ written' = written
      BY <1>1
    <3> HIDE DEF v, newer, push
    <3> QED BY <2>1, <2>2, <3>1, <3>3, <3>4, CurrentCountNext
  <2>6. CASE newer /\ w.node = n
    <3>1. current'[w.node] = v
      BY <1>1, <2>6 DEF IInv, TypeOK
    <3>2. w \in push <=> current[n] = w
      BY <2>6, ValidationAssumption DEF Replaced
    <3>3. ~(w = v /\ current[n] = w)
      <4> SUFFICES ASSUME w = v, current[n] = w PROVE FALSE
        OBVIOUS
      <4>1. v.time > v.time
        BY <2>6, ValidationAssumption
      <4>2. v.time \in Nat
        BY <1>1, ValidationAssumption DEF Validation
      <4> QED BY <4>1, <4>2
    <3> HIDE DEF v, newer, push
    <3>4. added'[w] = added[w] + IF w = v THEN 1 ELSE 0
      BY <1>4, <2>6
    <3>5. stale'[w] = stale[w] + IF current[n] = w THEN 1 ELSE 0
      BY <1>2, <3>2
    <3>6. batch' = batch /\ written' = written
      BY <1>1
    <3>7. Only(Replaced(w.node)')[w] = IF w = v THEN 1 ELSE 0
      BY <3>1, CurrentCountNext
    <3>8. added[w] = (IF current[n] = w THEN 1 ELSE 0) + stale[w] + batch[w] + written[w]
      BY <2>1, <2>6
    <3> QED BY <2>2, <3>3, <3>4, <3>5, <3>6, <3>7, <3>8
  <2> QED BY <2>4, <2>5, <2>6
<1>8. Flushed' /\ FlushComplete'
  BY <1>1, <1>2 DEF IInv, TypeOK, Count, Flushed, FlushComplete
<1> QED BY <1>2, <1>6, <1>7, <1>8 DEF IInv

\* Validations that leave mCurrentValidations are pushed.
LEMMA DropInv ==
    ASSUME IInv, NEW S \in SUBSET Node, \A n \in S : current[n] # None,
           current' = [n \in Node |-> IF n \in S THEN None ELSE current[n]],
           condWrite({current[n] : n \in S}),
           UNCHANGED <<now, arrivals, job, sets, batch, written, added>>
    PROVE  /\ flushing' \in {"no", "waiting", "done"} /\ toFlush' \in Count => TypeOK'
           /\ StaleHasWriter' /\ Batched' /\ NoneLost'
           /\ \A val \in Validation : stale'[val] \in Nat /\ stale'[val] >= stale[val]
<1> DEFINE push == {current[n] : n \in S}
<1>1. /\ stale' \in Count /\ writing' \in BOOLEAN
      /\ writer' \in {"idle", "queued", "writing"}
      /\ StaleHasWriter' /\ Batched'
      /\ \A w \in Validation : stale'[w] = stale[w] + IF w \in push THEN 1 ELSE 0
  BY condWriteWrites DEF IInv
<1>2. /\ current' \in [Node -> Validation \cup {None}]
      /\ \A m \in Node : current'[m] # None => current'[m].node = m
  BY DEF IInv, TypeOK
<1>3. ASSUME flushing' \in {"no", "waiting", "done"}, toFlush' \in Count
      PROVE  TypeOK'
  BY <1>1, <1>2, <1>3 DEF IInv, TypeOK
<1>4. NoneLost'
  <2> SUFFICES ASSUME NEW w \in Validation
               PROVE  added'[w] = Only(Replaced(w.node)')[w] + stale'[w] + batch'[w] + written'[w]
    BY DEF NoneLost
  <2>1. added[w] = (IF current[w.node] = w THEN 1 ELSE 0) + stale[w] + batch[w] + written[w]
    BY CurrentCount DEF IInv, NoneLost
  <2>2. /\ added[w] \in Nat /\ stale[w] \in Nat /\ batch[w] \in Nat /\ written[w] \in Nat
    BY DEF IInv, TypeOK, Count
  <2>3. w.node \in Node
    BY DEF Validation
  <2>4. w \in push <=> w.node \in S /\ current[w.node] = w
    BY DEF IInv, TypeOK
  <2>5. current'[w.node] = w <=> w.node \notin S /\ current[w.node] = w
    BY <2>3, ValidationAssumption
  <2> QED BY <1>1, <2>1, <2>2, <2>4, <2>5, CurrentCountNext
<1>5. \A val \in Validation : stale'[val] \in Nat /\ stale'[val] >= stale[val]
  BY <1>1 DEF IInv, TypeOK, Count
<1> QED BY <1>1, <1>3, <1>4, <1>5

LEMMA getCurrentInv ==
    ASSUME IInv, getCurrentValidations
    PROVE  IInv'
<1> DEFINE S == {n \in Node : Expired(n)}
<1>1. /\ S \in SUBSET Node /\ \A n \in S : current[n] # None
      /\ current' = [n \in Node |-> IF n \in S THEN None ELSE current[n]]
      /\ condWrite({current[n] : n \in S})
      /\ UNCHANGED <<now, arrivals, job, sets, batch, written, flushing, added, toFlush>>
  BY DEF getCurrentValidations, Expired
<1>2. flushing' \in {"no", "waiting", "done"} /\ toFlush' \in Count
  BY <1>1 DEF IInv, TypeOK
<1> HIDE DEF S
<1>3. TypeOK' /\ StaleHasWriter' /\ Batched' /\ NoneLost'
  BY <1>1, <1>2, DropInv
<1>4. \A val \in Validation : stale'[val] \in Nat /\ stale'[val] >= stale[val]
  BY <1>1, DropInv
<1>5. Flushed' /\ FlushComplete'
  BY <1>1, <1>4 DEF IInv, TypeOK, Count, Flushed, FlushComplete
<1> QED BY <1>3, <1>5 DEF IInv

LEMMA sweepInv ==
    ASSUME IInv, NEW l \in Ledger, sweep(l)
    PROVE  IInv'
<1>1. TypeOK'
  BY DEF IInv, TypeOK, sweep
<1>2. NoneLost'
  BY DEF IInv, NoneLost, Replaced, sweep
<1> QED BY <1>1, <1>2 DEF IInv, sweep, StaleHasWriter, Batched, Flushed, FlushComplete

LEMMA doWriteInv ==
    ASSUME IInv, doWrite
    PROVE  IInv'
<1>1. \A val \in Validation : stale'[val] + batch'[val] = stale[val] + batch[val]
  BY Pointwise DEF IInv, TypeOK, Count, Batched, doWrite
<1>2. TypeOK'
  BY CountType DEF IInv, TypeOK, doWrite
<1>3. StaleHasWriter' /\ Batched'
  BY DEF IInv, TypeOK, StaleHasWriter, Batched, doWrite
<1>4. /\ written' = written /\ added' = added /\ toFlush' = toFlush
      /\ flushing' = flushing /\ current' = current
  BY DEF doWrite
<1>5. \A val \in Validation : /\ stale[val] \in Nat /\ batch[val] \in Nat
                              /\ stale'[val] \in Nat /\ batch'[val] \in Nat
                              /\ written[val] \in Nat /\ toFlush[val] \in Nat
  BY <1>2 DEF IInv, TypeOK, Count
<1>6. NoneLost'
  <2> SUFFICES ASSUME NEW w \in Validation
               PROVE  added'[w] = Only(Replaced(w.node)')[w] + stale'[w] + batch'[w] + written'[w]
    BY DEF NoneLost
  <2>1. added[w] = Only(Replaced(w.node))[w] + stale[w] + batch[w] + written[w]
    BY DEF IInv, NoneLost
  <2>2. Only(Replaced(w.node)')[w] = Only(Replaced(w.node))[w]
    BY <1>4 DEF Replaced
  <2>3. Only(Replaced(w.node))[w] \in Nat
    BY Pointwise
  <2> QED BY <1>1, <1>4, <1>5, <2>1, <2>2, <2>3
<1>7. Flushed' /\ FlushComplete'
  BY <1>1, <1>4, <1>5 DEF IInv, Flushed, FlushComplete
<1> QED BY <1>2, <1>3, <1>6, <1>7 DEF IInv

LEMMA CommitInv ==
    ASSUME IInv, Commit
    PROVE  IInv'
<1>1. \A val \in Validation : /\ batch'[val] = 0
                              /\ written'[val] = written[val] + batch[val]
  BY Pointwise DEF Commit
<1>2. TypeOK'
  BY CountType DEF IInv, TypeOK, Commit, store
<1>3. StaleHasWriter' /\ Batched'
  BY DEF IInv, StaleHasWriter, Batched, Commit, store
<1>4. /\ stale' = stale /\ added' = added /\ toFlush' = toFlush
      /\ flushing' = flushing /\ current' = current
  BY DEF Commit, store
<1>5. \A val \in Validation : /\ stale[val] \in Nat /\ batch[val] \in Nat
                              /\ written[val] \in Nat /\ toFlush[val] \in Nat
  BY DEF IInv, TypeOK, Count
<1>6. NoneLost'
  <2> SUFFICES ASSUME NEW w \in Validation
               PROVE  added'[w] = Only(Replaced(w.node)')[w] + stale'[w] + batch'[w] + written'[w]
    BY DEF NoneLost
  <2>1. added[w] = Only(Replaced(w.node))[w] + stale[w] + batch[w] + written[w]
    BY DEF IInv, NoneLost
  <2>2. Only(Replaced(w.node)')[w] = Only(Replaced(w.node))[w]
    BY <1>4 DEF Replaced
  <2>3. Only(Replaced(w.node))[w] \in Nat
    BY Pointwise
  <2> QED BY <1>1, <1>4, <1>5, <2>1, <2>2, <2>3
<1>7. Flushed' /\ FlushComplete'
  BY <1>1, <1>4, <1>5 DEF IInv, Flushed, FlushComplete
<1> QED BY <1>2, <1>3, <1>6, <1>7 DEF IInv

LEMMA flushInv ==
    ASSUME IInv, flush
    PROVE  IInv'
<1> DEFINE S == {m \in Node : current[m] # None}
<1>1. /\ S \in SUBSET Node /\ \A n \in S : current[n] # None
      /\ condWrite({current[n] : n \in S})
      /\ UNCHANGED <<now, arrivals, job, sets, batch, written, added>>
      /\ flushing' = "waiting" /\ toFlush' = added
  BY DEF flush
<1>2. current' = [n \in Node |-> IF n \in S THEN None ELSE current[n]]
  BY DEF flush
<1>3. flushing' \in {"no", "waiting", "done"} /\ toFlush' \in Count
  BY <1>1 DEF IInv, TypeOK
<1>4. \A n \in Node : current'[n] = None
  BY DEF flush
<1> HIDE DEF S
<1>5. TypeOK' /\ StaleHasWriter' /\ Batched' /\ NoneLost'
  BY <1>1, <1>2, <1>3, DropInv
<1>6. Flushed'
  <2> SUFFICES ASSUME NEW w \in Validation
               PROVE  written'[w] + batch'[w] + stale'[w] >= toFlush'[w]
    BY DEF Flushed
  <2>1. Only(Replaced(w.node)')[w] = 0
    BY <1>4, CurrentCountNext, ValidationAssumption DEF Validation
  <2>2. added'[w] = Only(Replaced(w.node)')[w] + stale'[w] + batch'[w] + written'[w]
    BY <1>5 DEF NoneLost
  <2>3. /\ written'[w] \in Nat /\ batch'[w] \in Nat /\ stale'[w] \in Nat
        /\ toFlush'[w] = added'[w]
    BY <1>1, <1>5 DEF TypeOK, Count
  <2> QED BY <2>1, <2>2, <2>3
<1>7. FlushComplete'
  BY <1>1 DEF FlushComplete
<1> QED BY <1>5, <1>6, <1>7 DEF IInv

LEMMA FlushReturnsInv ==
    ASSUME IInv, FlushReturns
    PROVE  IInv'
<1>1. TypeOK' /\ StaleHasWriter' /\ Batched'
  BY DEF IInv, TypeOK, StaleHasWriter, Batched, FlushReturns, store
<1>2. NoneLost'
  BY DEF IInv, NoneLost, Replaced, FlushReturns, store
<1>3. stale = Nothing /\ batch = Nothing
  BY DEF IInv, StaleHasWriter, Batched, FlushReturns
<1>4. \A val \in Validation : written[val] >= toFlush[val]
  BY <1>3, Pointwise DEF IInv, TypeOK, Count, Flushed, FlushReturns
<1>5. Flushed' /\ FlushComplete'
  BY <1>4 DEF IInv, Flushed, FlushComplete, FlushReturns, store
<1> QED BY <1>1, <1>2, <1>5 DEF IInv

LEMMA StutterInv ==
    ASSUME IInv, Tick \/ UNCHANGED vars
    PROVE  IInv'
<1>1. TypeOK'
  BY DEF IInv, TypeOK, Tick, vars, store
<1>2. NoneLost'
  BY DEF IInv, NoneLost, Replaced, Tick, vars, store
<1> QED BY <1>1, <1>2 DEF IInv, Tick, vars, store, StaleHasWriter, Batched, Flushed,
                          FlushComplete

LEMMA NextInv == IInv /\ [Next]_vars => IInv'
BY ReceiveInv, addValidationInv, getCurrentInv, sweepInv, doWriteInv, CommitInv,
   flushInv, FlushReturnsInv, StutterInv DEF Next, Writer

LEMMA Invariance == Spec => []IInv
BY InitInv, NextInv, PTL DEF Spec

\* The variables of the store keep their types (Validations.cpp).
THEOREM TypeCorrect == Spec => []TypeOK
BY Invariance, PTL DEF IInv

\* Stale validations never wait without a writer (condWrite, doWrite).
THEOREM WriterPresent == Spec => []StaleHasWriter
BY Invariance, PTL DEF IInv

\* Each validation is written as often as it became current, or is on its way
\* (addValidation, the purging queries, flush, doWrite).
THEOREM NoValidationLost == Spec => []NoneLost
BY Invariance, PTL DEF IInv

\* flush returns only when what was current at its call is in the database.
THEOREM FlushWrites == Spec => []FlushComplete
BY Invariance, PTL DEF IInv
=============================================================================
