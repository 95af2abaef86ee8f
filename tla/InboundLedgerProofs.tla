------------------------ MODULE InboundLedgerProofs ------------------------
(***************************************************************************)
(* Proofs about the acquisition of a ledger, for any trees, replies, local *)
(* data, job threads and bounds.                                           *)
(*                                                                         *)
(* The invariant ties what an acquisition believes to the store: a header  *)
(* it has, a root it has and a tree it has finished are there (Good), and  *)
(* a job that found nothing missing while it had let go of the lock still  *)
(* finds nothing missing, since the store only grows (Doing).  Each        *)
(* operator on the acquisition's record gets a lemma (Fine), each action   *)
(* one step lemma with three parts: the invariant, that no reply is left   *)
(* unread (Fed), and that it changes at most one acquisition, as it may    *)
(* (Sound), from which the refinement follows.                             *)
(***************************************************************************)
EXTENDS InboundLedger, TLAPS

USE ZenonT(10), SMTT(30)

IsFcn(f, S) == DOMAIN f = S /\ f = [x \in S |-> f[x]]

Fields == {"reason", "header", "root", "have", "map", "complete", "failed", "signaled",
           "progress", "aggressive", "byHash", "timeouts", "recent", "received",
           "dispatched", "timer", "timerJobs", "dispatches", "local", "accepted",
           "stored", "logged"}

\* Tree p is in the store l, all of it.
Full(p, l) == Root(p) \in l /\ Missing(p, l) = {}
WholeIn(l) == header \in l /\ \A p \in Parts \ Empty : Full(p, l)

Valid(s) == \A p \in Parts : s.map[p] # "invalid"

Record(s) ==
    /\ IsFcn(s, Fields) /\ IsFcn(s.map, Parts)
    /\ s.header \in BOOLEAN /\ s.complete \in BOOLEAN /\ s.failed \in BOOLEAN
    /\ s.root \subseteq Parts /\ s.have \subseteq Parts
    /\ \A p \in Parts : s.map[p] \in {"synching", "modifying", "invalid"}

\* What an acquisition believes it has is in the store l.
Good(s, l) ==
    /\ Record(s)
    /\ s.complete => s.have = Parts /\ ~s.failed
    /\ s.header => header \in l
    /\ \A p \in Parts :
          /\ p \in s.root => s.header /\ Root(p) \in l
          /\ s.map[p] = "modifying" => p \in Empty \/ Full(p, l)
          /\ p \in s.have => s.header /\ (p \in Empty \/ s.map[p] = "invalid" \/ Full(p, l))

\* What no step with the lock held undoes.
Keeps(s, t) ==
    /\ t.received = s.received /\ t.dispatched = s.dispatched
    /\ s.root \subseteq t.root
    /\ isDone(s) => t.complete = s.complete /\ t.failed = s.failed

Fine(s, t, l) == Good(t, l) /\ Keeps(s, t) /\ (Valid(s) => Valid(t))

\* A thread in the middle of a trigger counts on its acquisition, its root, and what it
\* found without the lock.
Doing(w) ==
    /\ pc[w] # "idle" => at[w] \in alive
    /\ pc[w] \in {"missing", "relock"} => "as" \in il[at[w]].root
    /\ pc[w] = "relock" /\ nodeIDs[w] = {} => Missing("as", local) = {}
    /\ batch[w] \in Seq(Packets)

Held(o) == Good(il[o], local) /\ il[o].received \in Seq(Packets)

Frame ==
    /\ bound \in Bounds
    /\ IsFcn(jobs, {"data", "pack"}) /\ jobs.data \in Nat
    /\ IsFcn(pc, Threads) /\ IsFcn(at, Threads) /\ IsFcn(nodeIDs, Threads)
    /\ IsFcn(batch, Threads)
    /\ alive \subseteq Objects /\ cur \in alive \cup {0}
    /\ reader = <<>> \/ reader \in alive \X Packets

Ledgers == IsFcn(il, Objects) /\ \A o \in Objects : Held(o)

Inv == Frame /\ Ledgers /\ \A w \in Threads : Doing(w)

\* The acquisition in the collection has been told of all it was sent.
Fed == cur # 0 =>
         /\ ~il[cur].dispatched => il[cur].received = <<>>
         /\ il[cur].dispatched =>
               jobs.data > 0 \/ \E w \in Threads : at[w] = cur /\ pc[w] = "run"

\* No reply holds a node that lies outside its tree.
NoStray == \A pk \in Packets : pk.bad # "oob"
AllValid == \A o \in Objects : Valid(il[o])

\* What a step may do to the acquisitions: it changes one, begins one, destroys one, or
\* leaves them all alone.
Others(o) == \A i \in Objects \ {o} : il'[i] = il[i]
Vouched(o) == il'[o].complete => WholeIn(local) \/ ~Valid(il'[o])

Advances(o) ==
    /\ alive' = alive /\ Others(o)
    /\ isDone(il[o]) => il'[o].complete = il[o].complete /\ il'[o].failed = il[o].failed
    /\ il[o].complete \/ Vouched(o)
    /\ ~(il'[o].complete /\ il'[o].failed)
Begins(o) ==
    /\ o \notin alive /\ alive' = alive \cup {o} /\ Others(o) /\ Vouched(o)
    /\ ~(il'[o].complete /\ il'[o].failed)
Ends(o) == alive' = alive \ {o} /\ Others(o)
Rests == alive' = alive /\ il' = il

Sound ==
    /\ local \subseteq local'
    /\ Rests \/ \E o \in Objects : Advances(o) \/ Begins(o) \/ Ends(o)
    /\ NoStray /\ AllValid => AllValid'

\* Nothing a thread counts on is taken from it.
Onward ==
    /\ local \subseteq local' /\ alive \subseteq alive'
    /\ \A i \in alive : il[i].root \subseteq il'[i].root

WholeOrInvalid == \A o \in Objects : il[o].complete => WholeIn(local) \/ ~Valid(il[o])


-----------------------------------------------------------------------------
(* The operators on an acquisition's record *)

\* t differs from s in fields the invariant does not read.
Alike(s, t) ==
    /\ IsFcn(t, Fields)
    /\ t.header = s.header /\ t.root = s.root /\ t.have = s.have /\ t.map = s.map
    /\ t.complete = s.complete /\ t.failed = s.failed
    /\ t.received = s.received /\ t.dispatched = s.dispatched

LEMMA AlikeFine ==
    ASSUME NEW s, NEW t, NEW l, Good(s, l), Alike(s, t)
    PROVE  Fine(s, t, l)
  <1>1. Good(t, l)
    BY DEF Alike, Good, Record
  <1>. QED  BY <1>1 DEF Alike, Fine, Keeps, Valid

LEMMA AlikeSelf == ASSUME NEW s, Record(s) PROVE Alike(s, s)
  BY DEF Alike, Record

LEMMA FineSelf == ASSUME NEW s, NEW l, Good(s, l) PROVE Fine(s, s, l)
  BY DEF Fine, Keeps

LEMMA FineTrans ==
    ASSUME NEW s, NEW t, NEW u, NEW l, Fine(s, t, l), Fine(t, u, l)
    PROVE  Fine(s, u, l)
  <1>1. Keeps(s, u)
    BY DEF Fine, Keeps, isDone
  <1>. QED  BY <1>1 DEF Fine

LEMMA doneAlike == ASSUME NEW s, Record(s) PROVE Alike(s, done(s))
  BY DEF Alike, Record, done, IsFcn, Fields

LEMMA settledFine == ASSUME NEW s, NEW l, Good(s, l) PROVE Fine(s, settled(s), l)
  <1>1. Alike(s, settled(s))
    BY doneAlike, AlikeSelf DEF settled, Good
  <1>. QED  BY <1>1, AlikeFine

\* Ending the synching of trees that are whole, or have nothing to hold.
LEMMA SynchedFine ==
    ASSUME NEW s, NEW l, NEW ps, Good(s, l),
           \A p \in ps \cap Parts : p \in Empty \/ Full(p, l)
    PROVE  Fine(s, Synched(s, ps), l)
  <1>. DEFINE t == Synched(s, ps)
  <1>1. /\ IsFcn(t, Fields) /\ t.map = [p \in Parts |-> IF p \in ps THEN "modifying" ELSE s.map[p]]
        /\ t.header = s.header /\ t.root = s.root /\ t.have = s.have
        /\ t.complete = s.complete /\ t.failed = s.failed
        /\ t.received = s.received /\ t.dispatched = s.dispatched
    BY DEF Synched, Good, Record, IsFcn, Fields
  <1>2. IsFcn(t.map, Parts) /\ \A p \in Parts : t.map[p] = IF p \in ps THEN "modifying" ELSE s.map[p]
    BY <1>1 DEF IsFcn
  <1>. HIDE DEF t
  <1>3. Record(t)
    BY <1>1, <1>2 DEF Good, Record
  <1>4. Good(t, l)
    BY <1>1, <1>2, <1>3 DEF Good
  <1>5. Keeps(s, t)
    BY <1>1 DEF Keeps
  <1>6. Valid(s) => Valid(t)
    BY <1>2 DEF Valid
  <1>. QED  BY <1>4, <1>5, <1>6 DEF Fine, t

LEMMA tryLocalFine ==
    ASSUME NEW s, NEW l, Good(s, l), ~isDone(s)
    PROVE  Fine(s, tryLocal(s, l), l)
  <1>1. CASE ~s.header /\ header \notin l /\ corrupt \notin l
    BY <1>1, FineSelf DEF tryLocal
  <1>2. CASE ~s.header /\ header \notin l /\ corrupt \in l
    <2>. DEFINE t == [s EXCEPT !.failed = TRUE]
    <2>1. tryLocal(s, l) = t
      BY <1>2 DEF tryLocal
    <2>2. /\ IsFcn(t, Fields) /\ t.map = s.map /\ t.header = s.header /\ t.root = s.root
          /\ t.have = s.have /\ t.complete = s.complete /\ t.failed = TRUE
          /\ t.received = s.received /\ t.dispatched = s.dispatched
      BY DEF Good, Record, IsFcn, Fields
    <2>. HIDE DEF t
    <2>3. Good(t, l)
      BY <2>2 DEF Good, Record, isDone
    <2>. QED  BY <2>1, <2>2, <2>3 DEF Fine, Keeps, Valid
  <1>3. CASE s.header \/ header \in l
    <2>. DEFINE rooted == {p \in Parts \ s.have : p \in s.root \/ Root(p) \in l}
                full == Empty \cup {p \in rooted : Missing(p, l) = {}}
                u == Synched(s, full)
                t == [u EXCEPT !.header = TRUE, !.root = @ \cup rooted, !.have = @ \cup full,
                               !.complete = @ \/ Parts = s.have \cup full]
    <2>1. tryLocal(s, l) = t
      BY <1>3 DEF tryLocal
    <2>2. \A p \in rooted : p \in Parts /\ Root(p) \in l
      BY DEF Good
    <2>3. full \subseteq Parts
      BY EmptyAssumption DEF Parts
    <2>4. \A p \in full : p \in Empty \/ Full(p, l)
      BY <2>2 DEF Full
    <2>. HIDE DEF rooted, full
    <2>5. Fine(s, u, l)
      BY <2>4, SynchedFine
    <2>6. u.have = s.have /\ u.complete = s.complete /\ u.failed = s.failed
      BY DEF Synched, Good, Record, IsFcn, Fields
    <2>. HIDE DEF u
    <2>7. /\ IsFcn(t, Fields) /\ t.map = u.map /\ t.header = TRUE
          /\ t.root = u.root \cup rooted /\ t.have = u.have \cup full
          /\ t.complete = (u.complete \/ Parts = s.have \cup full) /\ t.failed = u.failed
          /\ t.received = u.received /\ t.dispatched = u.dispatched
      BY <2>5 DEF Fine, Good, Record, IsFcn, Fields
    <2>. HIDE DEF t
    <2>8. Record(t)
      BY <2>2, <2>3, <2>5, <2>7 DEF Fine, Good, Record
    <2>9. t.complete => t.have = Parts /\ ~t.failed
      BY <2>6, <2>7 DEF isDone
    <2>10. header \in l
      BY <1>3 DEF Good
    <2>11. Good(t, l)
      BY <2>2, <2>4, <2>5, <2>7, <2>8, <2>9, <2>10 DEF Fine, Good
    <2>12. Keeps(s, t)
      BY <2>5, <2>7 DEF Fine, Keeps
    <2>. QED  BY <2>1, <2>5, <2>7, <2>11, <2>12 DEF Fine, Valid
  <1>. QED  BY <1>1, <1>2, <1>3

LEMMA checkLocalFine ==
    ASSUME NEW s, NEW l, Good(s, l)
    PROVE  Fine(s, checkLocal(s, l), l)
  <1>1. CASE isDone(s)
    BY <1>1, FineSelf DEF checkLocal
  <1>2. CASE ~isDone(s)
    <2>1. Fine(s, tryLocal(s, l), l)
      BY <1>2, tryLocalFine
    <2>2. Fine(tryLocal(s, l), settled(tryLocal(s, l)), l)
      BY <2>1, settledFine DEF Fine
    <2>. QED  BY <1>2, <2>1, <2>2, FineTrans DEF checkLocal
  <1>. QED  BY <1>1, <1>2

\* What is needed is nothing only when both trees are there.
LEMMA askByHashFine ==
    ASSUME NEW s, NEW l, Good(s, l), ~s.failed
    PROVE  Fine(s, askByHash(s, l), l) /\ ~askByHash(s, l).failed
  <1>. DEFINE seen == {p \in s.root \ s.have : Missing(p, l) = {}}
              u == Synched(s, seen)
  <1>1. Fine(s, u, l)
    <2>1. \A p \in seen \cap Parts : Full(p, l)
      BY DEF Full, Good
    <2>. HIDE DEF seen
    <2>. QED  BY <2>1, SynchedFine
  <1>2. u.have = s.have /\ u.complete = s.complete /\ ~u.failed /\ u.header = s.header
    BY DEF Synched, Good, Record, IsFcn, Fields
  <1>. HIDE DEF u
  <1>3. CASE s.timeouts <= ledgerBecomeAggressiveThreshold \/ s.progress \/ ~s.byHash
    BY <1>3, FineSelf DEF askByHash
  <1>4. CASE /\ ~(s.timeouts <= ledgerBecomeAggressiveThreshold \/ s.progress \/ ~s.byHash)
             /\ getNeededHashes(s, l) # {}
    <2>. DEFINE t == [u EXCEPT !.byHash = FALSE]
    <2>1. askByHash(s, l) = t
      BY <1>4 DEF askByHash, u
    <2>2. Alike(u, t)
      BY <1>1 DEF Alike, Fine, Good, Record, IsFcn, Fields
    <2>. HIDE DEF t
    <2>3. Fine(u, t, l) /\ ~t.failed
      BY <1>1, <1>2, <2>2, AlikeFine DEF Fine, Alike
    <2>. QED  BY <1>1, <2>1, <2>3, FineTrans
  <1>5. CASE /\ ~(s.timeouts <= ledgerBecomeAggressiveThreshold \/ s.progress \/ ~s.byHash)
             /\ getNeededHashes(s, l) = {}
    <2>. DEFINE t == [u EXCEPT !.have = Parts, !.complete = TRUE]
    <2>1. askByHash(s, l) = t
      BY <1>5 DEF askByHash, u
    <2>2. s.header
      BY <1>5 DEF getNeededHashes
    <2>3. \A p \in Parts \ s.have : p \in s.root /\ Missing(p, l) = {}
      BY <1>5, <2>2 DEF getNeededHashes
    <2>4. \A p \in Parts \ s.have : Full(p, l)
      BY <2>3 DEF Full, Good
    <2>5. /\ IsFcn(t, Fields) /\ t.map = u.map /\ t.header = u.header
          /\ t.root = u.root /\ t.have = Parts /\ t.complete = TRUE /\ t.failed = u.failed
          /\ t.received = u.received /\ t.dispatched = u.dispatched
      BY <1>1 DEF Fine, Good, Record, IsFcn, Fields
    <2>. HIDE DEF t
    <2>6. Good(t, l)
      BY <1>1, <1>2, <2>2, <2>4, <2>5 DEF Fine, Good, Record
    <2>7. Keeps(s, t)
      BY <1>1, <1>2, <2>5 DEF Fine, Keeps, isDone, Good, Record
    <2>. QED  BY <1>1, <1>2, <2>1, <2>5, <2>6, <2>7 DEF Fine, Valid
  <1>. QED  BY <1>3, <1>4, <1>5

\* r is what a part of trigger makes of s, and where it goes on: with the lock held
\* again, or at the search for missing state nodes.
Steps(s, r, l) ==
    Fine(s, r[1], l) /\ (r[2] = "missing" => "as" \in r[1].root)

\* Giving the acquisition up for an invalid tree.
LEMMA failedFine ==
    ASSUME NEW s, NEW l, Good(s, l), ~s.complete
    PROVE  Fine(s, [s EXCEPT !.failed = TRUE], l)
  <1>. DEFINE t == [s EXCEPT !.failed = TRUE]
  <1>1. /\ IsFcn(t, Fields) /\ t.map = s.map /\ t.header = s.header /\ t.root = s.root
        /\ t.have = s.have /\ t.complete = s.complete /\ t.failed = TRUE
        /\ t.received = s.received /\ t.dispatched = s.dispatched
    BY DEF Good, Record, IsFcn, Fields
  <1>. HIDE DEF t
  <1>2. Good(t, l)
    BY <1>1 DEF Good, Record
  <1>3. Fine(s, t, l)
    BY <1>1, <1>2 DEF Fine, Keeps, Valid, isDone, Good, Record
  <1>. QED  BY <1>3 DEF t

LEMMA stateTreeSteps ==
    ASSUME NEW s, NEW l, Good(s, l), ~s.failed
    PROVE  Steps(s, stateTree(s), l)
  <1>1. CASE s.header /\ "as" \notin s.have /\ s.map["as"] = "invalid"
    <2>1. ~s.complete
      BY <1>1 DEF Good, Parts
    <2>2. Fine(s, [s EXCEPT !.failed = TRUE], l)
      BY <2>1, failedFine
    <2>3. stateTree(s) = <<[s EXCEPT !.failed = TRUE], "tx">>
      BY <1>1 DEF stateTree
    <2>. QED  BY <2>2, <2>3 DEF Steps
  <1>2. CASE ~(s.header /\ "as" \notin s.have /\ s.map["as"] = "invalid")
    <2>1. /\ stateTree(s)[1] = s
          /\ stateTree(s)[2] = "missing" => "as" \in s.root
      BY <1>2 DEF stateTree
    <2>. QED  BY <2>1, FineSelf DEF Steps
  <1>. QED  BY <1>1, <1>2

LEMMA afterLocalSteps ==
    ASSUME NEW s, NEW l, Good(s, l)
    PROVE  Steps(s, afterLocal(s, l), l)
  <1>1. CASE s.failed
    BY <1>1, FineSelf DEF afterLocal, Steps
  <1>2. CASE ~s.failed
    <2>. DEFINE u == askByHash(s, l)
    <2>1. Fine(s, u, l) /\ ~u.failed
      BY <1>2, askByHashFine
    <2>2. Steps(u, stateTree(u), l)
      BY <2>1, stateTreeSteps DEF Fine
    <2>3. afterLocal(s, l) = stateTree(u)
      BY <1>2 DEF afterLocal
    <2>. HIDE DEF u
    <2>. QED  BY <2>1, <2>2, <2>3, FineTrans DEF Steps
  <1>. QED  BY <1>1, <1>2

LEMMA triggerHeadSteps ==
    ASSUME NEW s, NEW l, Good(s, l)
    PROVE  Steps(s, triggerHead(s, l), l)
  <1>1. CASE isDone(s)
    BY <1>1, FineSelf DEF triggerHead, Steps
  <1>2. CASE ~isDone(s)
    <2>. DEFINE u == IF s.header THEN s ELSE tryLocal(s, l)
    <2>1. Fine(s, u, l)
      BY <1>2, FineSelf, tryLocalFine
    <2>2. Steps(u, afterLocal(u, l), l)
      BY <2>1, afterLocalSteps DEF Fine
    <2>3. triggerHead(s, l) = afterLocal(u, l)
      BY <1>2 DEF triggerHead
    <2>. HIDE DEF u
    <2>. QED  BY <2>1, <2>2, <2>3, FineTrans DEF Steps
  <1>. QED  BY <1>1, <1>2

\* An empty answer is only right about a tree that is all there.
LEMMA gotMissingSteps ==
    ASSUME NEW s, NEW l, NEW p \in Parts, NEW ids, Good(s, l), ~isDone(s), s.header,
           ids = {} => Full(p, l)
    PROVE  Steps(s, gotMissing(s, p, ids), l) /\ gotMissing(s, p, ids)[2] # "missing"
  <1>1. CASE ids = {} /\ s.map[p] = "invalid"
    <2>1. Fine(s, [s EXCEPT !.failed = TRUE], l)
      BY failedFine DEF isDone
    <2>2. gotMissing(s, p, ids) = <<[s EXCEPT !.failed = TRUE], "tx">>
      BY <1>1 DEF gotMissing
    <2>. QED  BY <2>1, <2>2 DEF Steps
  <1>2. CASE ids = {} /\ s.map[p] # "invalid"
    <2>. DEFINE t == [s EXCEPT !.have = @ \cup {p}, !.complete = @ \/ Parts = s.have \cup {p}]
    <2>1. gotMissing(s, p, ids) = <<t, "tx">>
      BY <1>2 DEF gotMissing
    <2>2. /\ IsFcn(t, Fields) /\ t.map = s.map /\ t.header = s.header
          /\ t.root = s.root /\ t.have = s.have \cup {p} /\ t.failed = s.failed
          /\ t.complete = (s.complete \/ Parts = s.have \cup {p})
          /\ t.received = s.received /\ t.dispatched = s.dispatched
      BY DEF Good, Record, IsFcn, Fields
    <2>. HIDE DEF t
    <2>3. Record(t)
      BY <2>2 DEF Good, Record
    <2>4. t.complete => t.have = Parts /\ ~t.failed
      BY <2>2 DEF isDone
    <2>5. Good(t, l)
      BY <1>2, <2>2, <2>3, <2>4 DEF Good
    <2>6. Fine(s, t, l)
      BY <2>2, <2>5 DEF Fine, Keeps, Valid
    <2>. QED  BY <2>1, <2>6 DEF Steps
  <1>3. CASE ids # {}
    <2>1. gotMissing(s, p, ids)[2] \in {"return", "tx"} /\ Alike(s, gotMissing(s, p, ids)[1])
      <3>. DEFINE sent == IF s.aggressive THEN ids ELSE filterNodes(s, ids)
                  t == [s EXCEPT !.recent = IF s.aggressive THEN @ ELSE @ \cup sent]
      <3>1. gotMissing(s, p, ids) = IF sent # {} THEN <<t, "return">> ELSE <<s, "tx">>
        BY <1>3 DEF gotMissing
      <3>2. Alike(s, t) /\ Alike(s, s)
        BY DEF Alike, Good, Record, IsFcn, Fields
      <3>. HIDE DEF t, sent
      <3>. QED  BY <3>1, <3>2
    <2>. QED  BY <2>1, AlikeFine DEF Steps
  <1>. QED  BY <1>1, <1>2, <1>3

LEMMA afterMissingSteps ==
    ASSUME NEW s, NEW l, NEW ids, Good(s, l), "as" \in s.root,
           ids = {} => Missing("as", l) = {}
    PROVE  Steps(s, afterMissing(s, ids), l) /\ afterMissing(s, ids)[2] # "missing"
  <1>1. CASE s.failed \/ s.complete \/ "as" \in s.have
    BY <1>1, FineSelf DEF afterMissing, Steps
  <1>2. CASE ~(s.failed \/ s.complete \/ "as" \in s.have)
    <2>1. "as" \in Parts /\ s.header /\ Root("as") \in l /\ ~isDone(s)
      BY <1>2 DEF Good, Parts, isDone
    <2>2. ids = {} => Full("as", l)
      BY <2>1 DEF Full
    <2>3. afterMissing(s, ids) = gotMissing(s, "as", ids)
      BY <1>2 DEF afterMissing
    <2>. QED  BY <2>1, <2>2, <2>3, gotMissingSteps
  <1>. QED  BY <1>1, <1>2

LEMMA triggerTxSteps ==
    ASSUME NEW s, NEW l, Good(s, l)
    PROVE  Steps(s, triggerTx(s, l), l) /\ triggerTx(s, l)[2] # "missing"
  <1>1. CASE "tx" \in s.have \/ s.failed
    BY <1>1, FineSelf DEF triggerTx, Steps
  <1>2. CASE "tx" \notin s.have /\ ~s.failed /\ s.map["tx"] = "invalid"
    <2>1. ~s.complete
      BY <1>2 DEF Good, Parts
    <2>2. Fine(s, [s EXCEPT !.failed = TRUE], l)
      BY <2>1, failedFine
    <2>3. triggerTx(s, l) = <<[s EXCEPT !.failed = TRUE], "end">>
      BY <1>2 DEF triggerTx
    <2>. QED  BY <2>2, <2>3 DEF Steps
  <1>3. CASE "tx" \notin s.have /\ ~s.failed /\ s.map["tx"] # "invalid" /\ "tx" \notin s.root
    BY <1>3, FineSelf DEF triggerTx, Steps
  <1>4. CASE "tx" \notin s.have /\ ~s.failed /\ s.map["tx"] # "invalid" /\ "tx" \in s.root
    <2>. DEFINE ids == Missing("tx", l)
                u == IF ids = {} THEN Synched(s, {"tx"}) ELSE s
                r == gotMissing(u, "tx", ids)
    <2>1. "tx" \in Parts /\ s.header /\ Root("tx") \in l /\ ~isDone(s)
      BY <1>4 DEF Good, Parts, isDone
    <2>2. ids = {} => Full("tx", l)
      BY <2>1 DEF Full
    <2>3. Fine(s, u, l)
      BY <2>2, SynchedFine, FineSelf
    <2>4. u.header /\ ~isDone(u)
      BY <2>1 DEF Synched, Good, Record, IsFcn, Fields, isDone
    <2>5. triggerTx(s, l) = txEnd(r)
      BY <1>4 DEF triggerTx
    <2>. HIDE DEF u, ids
    <2>6. Steps(u, r, l) /\ r[2] # "missing"
      BY <2>1, <2>2, <2>3, <2>4, gotMissingSteps DEF Fine
    <2>7. txEnd(r)[1] = r[1] /\ txEnd(r)[2] # "missing"
      BY <2>6 DEF txEnd
    <2>. HIDE DEF r
    <2>. QED  BY <2>3, <2>5, <2>6, <2>7, FineTrans DEF Steps
  <1>. QED  BY <1>1, <1>2, <1>3, <1>4

LEMMA searchedFine ==
    ASSUME NEW s, NEW l, Good(s, l), "as" \in s.root
    PROVE  Fine(s, searched(s, l), l)
  <1>1. Root("as") \in l
    BY DEF Good, Parts
  <1>. QED  BY <1>1, SynchedFine, FineSelf DEF searched, Full

LEMMA triggerTailSteps ==
    ASSUME NEW s, NEW r, NEW l, Steps(s, r, l)
    PROVE  /\ Steps(s, triggerTail(r, l), l)
           /\ r[2] # "missing" => triggerTail(r, l)[2] # "missing"
  <1>1. CASE r[2] = "tx"
    <2>1. Good(r[1], l) /\ triggerTail(r, l) = triggerTx(r[1], l)
      BY <1>1 DEF Steps, Fine, triggerTail
    <2>2. Steps(r[1], triggerTx(r[1], l), l) /\ triggerTx(r[1], l)[2] # "missing"
      BY <2>1, triggerTxSteps
    <2>. QED  BY <2>1, <2>2, FineTrans DEF Steps
  <1>2. CASE r[2] # "tx"
    BY <1>2 DEF triggerTail
  <1>. QED  BY <1>1, <1>2

LEMMA triggerFine ==
    ASSUME NEW s, NEW l, Good(s, l)
    PROVE  Fine(s, trigger(s, l), l)
  <1>. DEFINE h == triggerHead(s, l)
              f == stateFound(h, l)
              r == triggerTail(f, l)
  <1>1. Steps(s, h, l)
    BY triggerHeadSteps
  <1>. HIDE DEF h
  <1>2. Steps(s, f, l)
    <2>1. CASE h[2] = "missing"
      <3>. DEFINE u == searched(h[1], l)
                  g == afterMissing(u, Missing("as", l))
      <3>1. Good(h[1], l) /\ "as" \in h[1].root
        BY <1>1, <2>1 DEF Steps, Fine
      <3>2. Fine(h[1], u, l)
        BY <3>1, searchedFine
      <3>3. Good(u, l) /\ "as" \in u.root
        BY <3>1, <3>2 DEF Fine, Keeps
      <3>4. f = g
        BY <2>1 DEF stateFound
      <3>. HIDE DEF u
      <3>5. Steps(u, g, l) /\ g[2] # "missing"
        BY <3>3, afterMissingSteps
      <3>. HIDE DEF g
      <3>6. Fine(s, g[1], l)
        BY <1>1, <3>2, <3>5, FineTrans DEF Steps
      <3>. QED  BY <3>4, <3>5, <3>6 DEF Steps
    <2>2. CASE h[2] # "missing"
      BY <1>1, <2>2 DEF stateFound
    <2>. QED  BY <2>1, <2>2
  <1>. HIDE DEF f
  <1>3. Steps(s, r, l)
    BY <1>2, triggerTailSteps
  <1>4. trigger(s, l) = triggered(r)
    BY DEF trigger, h, f
  <1>. HIDE DEF r
  <1>5. Fine(s, triggered(r), l)
    <2>1. Good(r[1], l) /\ Fine(s, r[1], l)
      BY <1>3 DEF Steps, Fine
    <2>2. Fine(r[1], settled(r[1]), l)
      BY <2>1, settledFine
    <2>3. Fine(s, settled(r[1]), l)
      BY <2>1, <2>2, FineTrans
    <2>. QED  BY <2>1, <2>3 DEF triggered
  <1>. QED  BY <1>4, <1>5

LEMMA addPeersFine ==
    ASSUME NEW s, NEW l, NEW n, Good(s, l)
    PROVE  Fine(s, addPeers(s, l, n), l)
  <1>1. CASE s.reason = "HISTORY" \/ n = 0
    BY <1>1, FineSelf DEF addPeers
  <1>2. CASE ~(s.reason = "HISTORY" \/ n = 0)
    <2>. DEFINE t == trigger(s, l)
    <2>1. Fine(s, t, l)
      BY triggerFine
    <2>2. addPeers(s, l, n) = second(t, l, n)
      BY <1>2 DEF addPeers
    <2>. HIDE DEF t
    <2>3. Fine(t, second(t, l, n), l)
      BY <2>1, triggerFine, FineSelf DEF second, Fine
    <2>. QED  BY <2>1, <2>2, <2>3, FineTrans
  <1>. QED  BY <1>1, <1>2

\* A change of fields the invariant does not read, after a fine step.
LEMMA FineAlike ==
    ASSUME NEW s, NEW t, NEW u, NEW l, Fine(s, t, l), Alike(t, u)
    PROVE  Fine(s, u, l)
  <1>1. Fine(t, u, l)
    BY AlikeFine DEF Fine
  <1>. QED  BY <1>1, FineTrans

LEMMA initFine ==
    ASSUME NEW s, NEW l, NEW n, Good(s, l), ~isDone(s)
    PROVE  Fine(s, init(s, l, n), l)
  <1>. DEFINE t == tryLocal(s, l)
  <1>1. Fine(s, t, l) /\ Good(t, l)
    BY tryLocalFine DEF Fine
  <1>2. init(s, l, n) = afterInit(t, l, n)
    BY DEF init
  <1>. HIDE DEF t
  <1>3. CASE ~t.complete /\ ~t.failed
    <2>. DEFINE u == addPeers(t, l, n)
                v == [u EXCEPT !.timer = TRUE]
    <2>1. Fine(t, u, l)
      BY <1>1, addPeersFine
    <2>2. afterInit(t, l, n) = v
      BY <1>3 DEF afterInit
    <2>. HIDE DEF u
    <2>3. Alike(u, v)
      BY <2>1 DEF Alike, Fine, Good, Record, IsFcn, Fields
    <2>. HIDE DEF v
    <2>. QED  BY <1>1, <1>2, <2>1, <2>2, <2>3, FineTrans, FineAlike
  <1>4. CASE t.failed
    BY <1>1, <1>2, <1>4 DEF afterInit
  <1>5. CASE t.complete /\ ~t.failed
    <2>. DEFINE v == [t EXCEPT !.local = TRUE, !.stored = t.reason # "HISTORY",
                               !.accepted = t.reason \in {"VALIDATION", "CURRENT", "CONSENSUS"}]
    <2>1. afterInit(t, l, n) = v
      BY <1>5 DEF afterInit
    <2>2. Alike(t, v)
      BY <1>1 DEF Alike, Good, Record, IsFcn, Fields
    <2>. HIDE DEF v
    <2>. QED  BY <1>1, <1>2, <2>1, <2>2, FineAlike
  <1>. QED  BY <1>3, <1>4, <1>5

LEMMA askAgainFine ==
    ASSUME NEW s, NEW l, NEW n, Good(s, l)
    PROVE  Fine(s, askAgain(s, l, n), l)
  <1>1. /\ Fine(s, addPeers(s, l, n), l)
        /\ Fine(addPeers(s, l, n), trigger(addPeers(s, l, n), l), l)
    BY addPeersFine, triggerFine DEF Fine
  <1>2. /\ Fine(s, trigger(s, l), l)
        /\ Fine(trigger(s, l), addPeers(trigger(s, l), l, n), l)
    BY addPeersFine, triggerFine DEF Fine
  <1>. QED  BY <1>1, <1>2, FineTrans DEF askAgain

LEMMA onTimerFine ==
    ASSUME NEW s, NEW l, NEW n, NEW wasProgress, Good(s, l), ~isDone(s)
    PROVE  Fine(s, onTimer(s, l, n, wasProgress), l)
  <1>. DEFINE q == [s EXCEPT !.recent = {}]
              f == [s EXCEPT !.recent = {}, !.failed = TRUE]
              c == checkLocal(q, l)
              d == [c EXCEPT !.aggressive = TRUE, !.byHash = TRUE]
  <1>1. Alike(s, q)
    BY DEF Alike, Good, Record, IsFcn, Fields
  <1>2. f = [q EXCEPT !.failed = TRUE]
    BY DEF Good, Record, IsFcn, Fields
  <1>3. Fine(s, q, l) /\ Good(q, l) /\ ~q.complete
    BY <1>1, AlikeFine DEF Fine, Alike, isDone
  <1>4. onTimer(s, l, n, wasProgress) \in {done(f), q, askAgain(d, l, n)}
    BY DEF onTimer
  <1>. HIDE DEF q
  <1>5. Fine(q, f, l)
    BY <1>2, <1>3, failedFine
  <1>. HIDE DEF f
  <1>6. Fine(s, done(f), l)
    <2>1. Alike(f, done(f))
      BY <1>5, doneAlike DEF Fine, Good
    <2>. QED  BY <1>3, <1>5, <2>1, FineTrans, FineAlike
  <1>7. Fine(q, c, l) /\ Good(c, l)
    BY <1>3, checkLocalFine DEF Fine
  <1>. HIDE DEF c
  <1>8. Alike(c, d)
    BY <1>7 DEF Alike, Good, Record, IsFcn, Fields
  <1>. HIDE DEF d
  <1>9. Fine(s, d, l) /\ Good(d, l)
    BY <1>3, <1>7, <1>8, FineTrans, FineAlike DEF Fine
  <1>10. Fine(s, askAgain(d, l, n), l)
    BY <1>9, askAgainFine, FineTrans
  <1>. QED  BY <1>3, <1>4, <1>6, <1>10

LEMMA invokeOnTimerFine ==
    ASSUME NEW s, NEW l, NEW n, Good(s, l)
    PROVE  Fine(s, invokeOnTimer(s, l, n), l)
  <1>1. CASE isDone(s)
    BY <1>1, FineSelf DEF invokeOnTimer
  <1>2. CASE ~isDone(s)
    <2>. DEFINE q == IF s.progress THEN [s EXCEPT !.progress = FALSE]
                     ELSE [s EXCEPT !.timeouts = @ + 1]
                t == onTimer(q, l, n, s.progress)
                v == [t EXCEPT !.timer = TRUE]
    <2>1. Alike(s, q)
      BY DEF Alike, Good, Record, IsFcn, Fields
    <2>2. invokeOnTimer(s, l, n) = IF isDone(t) THEN t ELSE v
      BY <1>2 DEF invokeOnTimer, setTimer
    <2>. HIDE DEF q
    <2>3. Fine(s, q, l) /\ Good(q, l) /\ ~isDone(q)
      BY <1>2, <2>1, AlikeFine DEF Fine, Alike, isDone
    <2>4. Fine(q, t, l)
      BY <2>3, onTimerFine
    <2>. HIDE DEF t
    <2>5. Alike(t, v)
      BY <2>4 DEF Alike, Fine, Good, Record, IsFcn, Fields
    <2>. HIDE DEF v
    <2>6. Fine(s, t, l)
      BY <2>3, <2>4, FineTrans
    <2>. QED  BY <2>2, <2>5, <2>6, FineAlike
  <1>. QED  BY <1>1, <1>2

\* More nodes in the store take nothing away.
LEMMA MoreIsGood ==
    ASSUME NEW s, NEW l, NEW m, l \subseteq m
    PROVE  /\ Good(s, l) => Good(s, m)
           /\ \A p \in Parts : Full(p, l) => Full(p, m)
           /\ WholeIn(l) => WholeIn(m)
           /\ \A p \in Parts : Missing(p, l) = {} => Missing(p, m) = {}
  <1>1. \A p \in Parts : Missing(p, l) = {} => Missing(p, m) = {}
    BY DEF Missing
  <1>2. \A p \in Parts : Full(p, l) => Full(p, m)
    BY <1>1 DEF Full
  <1>3. Good(s, l) => Good(s, m)
    BY <1>2 DEF Good
  <1>4. WholeIn(l) => WholeIn(m)
    BY <1>2 DEF WholeIn
  <1>. QED  BY <1>1, <1>2, <1>3, <1>4

\* A valid acquisition that counts as complete has the whole ledger in the store.
LEMMA CompleteWhole ==
    ASSUME NEW s, NEW l, Good(s, l), s.complete, Valid(s)
    PROVE  WholeIn(l)
  BY DEF Good, Valid, WholeIn, Parts

LEMMA FreshGood ==
    ASSUME NEW reason, NEW l
    PROVE  /\ Good(Fresh(reason), l) /\ Valid(Fresh(reason)) /\ ~isDone(Fresh(reason))
           /\ Fresh(reason).received = <<>> /\ ~Fresh(reason).dispatched
  <1>. DEFINE t == Fresh(reason)
  <1>1. /\ IsFcn(t, Fields) /\ t.map = [p \in Parts |-> "synching"]
        /\ t.header = FALSE /\ t.root = {} /\ t.have = {}
        /\ t.complete = FALSE /\ t.failed = FALSE
        /\ t.received = <<>> /\ t.dispatched = FALSE
    BY DEF Fresh, IsFcn, Fields
  <1>2. IsFcn(t.map, Parts) /\ \A p \in Parts : t.map[p] = "synching"
    BY <1>1 DEF IsFcn
  <1>. HIDE DEF t
  <1>3. Record(t)
    BY <1>1, <1>2 DEF Record
  <1>4. Good(t, l) /\ Valid(t) /\ ~isDone(t)
    BY <1>1, <1>2, <1>3 DEF Good, Valid, isDone
  <1>. QED  BY <1>1, <1>4 DEF t

\* What taking a reply does to an acquisition, whose nodes then are in the store m.
Takes(s, t, l, m, bad) ==
    /\ Good(t, m) /\ Keeps(s, t)
    /\ Valid(s) /\ bad # "oob" => Valid(t)
    /\ t.complete => s.complete \/ WholeIn(l) \/ ~Valid(t)

LEMMA FineTakes ==
    ASSUME NEW s, NEW t, NEW l, NEW m, NEW bad, l \subseteq m, Good(s, l), Alike(s, t)
    PROVE  Takes(s, t, l, m, bad)
  <1>1. Fine(s, t, l)
    BY AlikeFine
  <1>2. Good(t, m)
    BY <1>1, MoreIsGood DEF Fine
  <1>. QED  BY <1>1, <1>2 DEF Takes, Fine, Alike

LEMMA progressAlike == ASSUME NEW s, Record(s) PROVE Alike(s, progress(s))
  BY DEF Alike, Record, progress, IsFcn, Fields

LEMMA TakesAlike ==
    ASSUME NEW s, NEW t, NEW u, NEW l, NEW m, NEW bad, Takes(s, t, l, m, bad), Alike(t, u)
    PROVE  Takes(s, u, l, m, bad)
  <1>1. Fine(t, u, m)
    BY AlikeFine DEF Takes
  <1>2. Keeps(s, u)
    BY DEF Takes, Alike, Keeps, isDone
  <1>. QED  BY <1>1, <1>2 DEF Takes, Fine, Alike, Valid

LEMMA takeBaseTakes ==
    ASSUME NEW s, NEW l, NEW pk \in Packets, Good(s, l)
    PROVE  Takes(s, takeBase(s, pk), l, l \cup baseStored(s, pk), pk.bad)
  <1>. DEFINE m == l \cup baseStored(s, pk)
              t == IF s.header \/ isDone(s) THEN s
                   ELSE [s EXCEPT !.header = TRUE, !.have = @ \cup Empty]
              roots == {p \in Parts \ t.have : Root(p) \in pk.nodes}
              u == IF t.failed THEN t ELSE [t EXCEPT !.root = @ \cup roots]
  <1>1. CASE ~s.header /\ ~isDone(s) /\ header \notin pk.nodes
    <2>1. takeBase(s, pk) = s
      BY <1>1 DEF takeBase
    <2>. QED  BY <2>1, FineTakes, AlikeSelf DEF Good
  <1>2. CASE ~(~s.header /\ ~isDone(s) /\ header \notin pk.nodes)
    <2>1. takeBase(s, pk) = progress(u)
      BY <1>2 DEF takeBase
    <2>2. /\ t.have = s.have \cup (IF s.header \/ isDone(s) THEN {} ELSE Empty)
          /\ t.header = (s.header \/ ~isDone(s))
          /\ t.map = s.map /\ t.root = s.root /\ t.complete = s.complete /\ t.failed = s.failed
          /\ t.received = s.received /\ t.dispatched = s.dispatched /\ IsFcn(t, Fields)
      BY DEF Good, Record, IsFcn, Fields
    <2>. HIDE DEF t
    <2>3. /\ u.have = t.have /\ u.header = t.header /\ u.map = t.map
          /\ u.root = t.root \cup (IF t.failed THEN {} ELSE roots)
          /\ u.complete = t.complete /\ u.failed = t.failed
          /\ u.received = t.received /\ u.dispatched = t.dispatched /\ IsFcn(u, Fields)
      BY <2>2 DEF IsFcn, Fields
    <2>. HIDE DEF u
    <2>4. ~isDone(s) => m = l \cup pk.nodes
      BY <1>2 DEF baseStored
    <2>5. l \subseteq m
      OBVIOUS
    <2>6. Good(s, m)
      BY <2>5, MoreIsGood
    <2>. HIDE DEF m
    <2>7. isDone(s) /\ ~s.failed => roots = {}
      BY <2>2 DEF isDone, Good
    <2>8. roots \subseteq Parts /\ \A p \in roots : Root(p) \in pk.nodes
      OBVIOUS
    <2>. HIDE DEF roots
    <2>9. Empty \subseteq Parts
      BY EmptyAssumption DEF Parts
    <2>10. Record(u)
      BY <2>2, <2>3, <2>8, <2>9 DEF Good, Record
    <2>11. u.header => header \in m
      BY <1>2, <2>2, <2>3, <2>4, <2>6 DEF Good
    <2>12. \A p \in u.root : u.header /\ Root(p) \in m
      BY <2>2, <2>3, <2>4, <2>6, <2>7, <2>8 DEF Good, Record, isDone
    <2>13. \A p \in u.have : u.header /\ (p \in Empty \/ u.map[p] = "invalid" \/ Full(p, m))
      BY <2>2, <2>3, <2>6 DEF Good, Record
    <2>14. u.complete => u.have = Parts /\ ~u.failed
      BY <2>2, <2>3 DEF Good, isDone
    <2>15. Good(u, m)
      <3>1. \A p \in Parts : u.map[p] = "modifying" => p \in Empty \/ Full(p, m)
        BY <2>2, <2>3, <2>6 DEF Good
      <3>. QED  BY <2>10, <2>11, <2>12, <2>13, <2>14, <3>1 DEF Good
    <2>16. Takes(s, u, l, m, pk.bad)
      BY <2>2, <2>3, <2>15 DEF Takes, Keeps, Valid, isDone
    <2>17. Alike(u, progress(u))
      BY <2>10, progressAlike
    <2>. QED  BY <2>1, <2>16, <2>17, TakesAlike DEF m
  <1>. QED  BY <1>1, <1>2

\* A tree that is not valid any more, or is whole, counts as present.
LEMMA gotTreeTakes ==
    ASSUME NEW s, NEW l, NEW m, NEW p \in Parts, Good(s, m), s.header, ~isDone(s),
           \A q \in Parts : (s.map[q] = "modifying" => q \in Empty \/ Full(q, l))
                         /\ (q \in s.have => q \in Empty \/ s.map[q] = "invalid" \/ Full(q, l)),
           header \in l
    PROVE  /\ Good(gotTree(s, p), m) /\ Keeps(s, gotTree(s, p))
           /\ Valid(s) => Valid(gotTree(s, p))
           /\ gotTree(s, p).complete => WholeIn(l) \/ ~Valid(gotTree(s, p))
  <1>. DEFINE c == [s EXCEPT !.have = Parts, !.complete = TRUE]
              h == [s EXCEPT !.have = @ \cup {p}]
              t == gotTree(s, p)
  <1>0. IsFcn(s, Fields)
    BY DEF Good, Record
  <1>1. t = IF s.map[p] = "synching" THEN s ELSE IF Parts = s.have \cup {p} THEN done(c) ELSE h
    BY DEF gotTree
  <1>2. /\ IsFcn(c, Fields) /\ c.have = Parts /\ c.complete = TRUE /\ c.header = s.header
        /\ c.failed = s.failed /\ c.root = s.root /\ c.map = s.map
        /\ c.received = s.received /\ c.dispatched = s.dispatched
    BY <1>0 DEF IsFcn, Fields
  <1>3. /\ IsFcn(h, Fields) /\ h.have = s.have \cup {p} /\ h.header = s.header
        /\ h.complete = s.complete
        /\ h.failed = s.failed /\ h.root = s.root /\ h.map = s.map
        /\ h.received = s.received /\ h.dispatched = s.dispatched
    BY <1>0 DEF IsFcn, Fields
  <1>. HIDE DEF c, h, t
  <1>4. CASE s.map[p] = "synching"
    <2>1. t = s
      BY <1>1, <1>4
    <2>. QED  BY <2>1 DEF Keeps, isDone, t
  <1>5. CASE s.map[p] # "synching"
    <2>1. s.map[p] \in {"modifying", "invalid"}
      BY <1>5 DEF Good, Record
    <2>2. CASE Parts = s.have \cup {p}
      <3>1. t = done(c)
        BY <1>1, <1>5, <2>2
      <3>3. Record(c)
        BY <1>2 DEF Good, Record
      <3>4. Good(c, m)
        BY <2>1, <2>2, <1>2, <3>3 DEF Good, isDone
      <3>5. Alike(c, done(c))
        BY <3>3, doneAlike
      <3>6. Good(t, m)
        BY <3>1, <3>4, <3>5, AlikeFine DEF Fine
      <3>7. Keeps(s, t)
        BY <3>1, <1>2, <3>5 DEF Alike, Keeps, isDone
      <3>8. t.map = s.map
        BY <3>1, <1>2, <3>5 DEF Alike
      <3>9. Valid(t) => WholeIn(l)
        BY <2>1, <2>2, <3>8 DEF Valid, WholeIn
      <3>. QED  BY <3>6, <3>7, <3>8, <3>9 DEF Valid, t
    <2>3. CASE Parts # s.have \cup {p}
      <3>1. t = h
        BY <1>1, <1>5, <2>3
      <3>3. Record(h)
        BY <1>3 DEF Good, Record
      <3>4. Good(h, m)
        BY <2>1, <1>3, <3>3 DEF Good, isDone
      <3>. QED  BY <3>1, <1>3, <3>4 DEF Keeps, isDone, Valid, t
    <2>. QED  BY <2>2, <2>3
  <1>. QED  BY <1>4, <1>5

LEMMA addNodesTakes ==
    ASSUME NEW s, NEW l, NEW p \in Parts, NEW pk \in Packets, NEW hit \in BOOLEAN,
           Good(s, l), s.header, ~isDone(s), hit => s.map[p] = "synching"
    PROVE  Takes(s, addNodes(s, p, pk, hit), l, l \cup pk.nodes, pk.bad)
  <1>. DEFINE m == l \cup pk.nodes
              r == IF Root(p) \in pk.nodes THEN s.root \cup {p} ELSE s.root
              v == IF hit /\ pk.bad = "oob" THEN "invalid" ELSE s.map[p]
              a == [s.map EXCEPT ![p] = v]
              t == [s EXCEPT !.root = r, !.map = a]
              g == gotTree(t, p)
  <1>1. addNodes(s, p, pk, hit) =
            IF hit /\ pk.bad = "corrupt" /\ Cardinality(pk.nodes) <= 1 THEN t ELSE progress(g)
    <2>1. [s EXCEPT !.root = IF Root(p) \in pk.nodes THEN @ \cup {p} ELSE @,
                    !.map[p] = IF hit /\ pk.bad = "oob" THEN "invalid" ELSE @] = t
      BY DEF Good, Record, IsFcn, Fields
    <2>. QED  BY <2>1 DEF addNodes
  <1>0. IsFcn(s, Fields) /\ IsFcn(s.map, Parts)
    BY DEF Good, Record
  <1>2. IsFcn(a, Parts) /\ a[p] = v /\ \A q \in Parts \ {p} : a[q] = s.map[q]
    BY <1>0 DEF IsFcn
  <1>. HIDE DEF a
  <1>3. /\ IsFcn(t, Fields) /\ t.root = r /\ t.map = a /\ t.have = s.have
        /\ t.header = s.header /\ t.complete = s.complete /\ t.failed = s.failed
        /\ t.received = s.received /\ t.dispatched = s.dispatched
    BY <1>0 DEF IsFcn, Fields
  <1>. HIDE DEF t
  <1>4. l \subseteq m /\ pk.nodes \subseteq m
    OBVIOUS
  <1>5. Good(s, m) /\ \A q \in Parts : Full(q, l) => Full(q, m)
    BY <1>4, MoreIsGood
  <1>. HIDE DEF m
  <1>6. v \in {s.map[p], "invalid"} /\ (v # s.map[p] => s.map[p] = "synching" /\ pk.bad = "oob")
    OBVIOUS
  <1>. HIDE DEF v
  <1>7. \A q \in Parts : t.map[q] = s.map[q] \/ (s.map[q] = "synching" /\ t.map[q] = "invalid"
                                                   /\ pk.bad = "oob")
    BY <1>2, <1>3, <1>6
  <1>8. r \subseteq s.root \cup {p} /\ s.root \subseteq r /\ (p \in r => p \in s.root \/ Root(p) \in m)
    BY <1>4
  <1>. HIDE DEF r
  <1>9. Record(t)
    BY <1>2, <1>3, <1>7, <1>8 DEF Good, Record
  <1>10. \A q \in Parts : /\ (t.map[q] = "modifying" => q \in Empty \/ Full(q, l))
                          /\ (q \in t.have => q \in Empty \/ t.map[q] = "invalid" \/ Full(q, l))
    BY <1>3, <1>7 DEF Good
  <1>11. Good(t, m)
    <2>1. \A q \in t.root : Root(q) \in m /\ t.header
      BY <1>3, <1>5, <1>8 DEF Good, Record
    <2>2. t.header => header \in m
      BY <1>3, <1>5 DEF Good
    <2>3. t.complete => t.have = Parts /\ ~t.failed
      BY <1>3 DEF isDone
    <2>. QED  BY <1>3, <1>5, <1>9, <1>10, <2>1, <2>2, <2>3 DEF Good
  <1>12. Keeps(s, t) /\ ~isDone(t) /\ t.header
    BY <1>3, <1>8 DEF Keeps, isDone
  <1>13. Valid(s) /\ pk.bad # "oob" => Valid(t)
    BY <1>7 DEF Valid
  <1>14. Takes(s, t, l, m, pk.bad)
    BY <1>11, <1>12, <1>13 DEF Takes, isDone
  <1>15. header \in l
    BY DEF Good
  <1>16. /\ Good(g, m) /\ Keeps(t, g) /\ (Valid(t) => Valid(g))
         /\ g.complete => WholeIn(l) \/ ~Valid(g)
    BY <1>10, <1>11, <1>12, <1>15, gotTreeTakes
  <1>. HIDE DEF g
  <1>17. Keeps(s, g)
    BY <1>12, <1>16 DEF Keeps, isDone
  <1>18. Takes(s, g, l, m, pk.bad)
    BY <1>13, <1>16, <1>17 DEF Takes
  <1>19. Alike(g, progress(g))
    BY <1>16, progressAlike DEF Good
  <1>20. Takes(s, progress(g), l, m, pk.bad)
    BY <1>18, <1>19, TakesAlike
  <1>. QED  BY <1>1, <1>14, <1>20 DEF m

LEMMA processDataTakes ==
    ASSUME NEW s, NEW l, NEW pk \in Packets, Good(s, l)
    PROVE  Takes(s, processData(s, l, pk), l, l \cup processStored(s, pk), pk.bad)
  <1>1. CASE pk.type = "base"
    BY <1>1, takeBaseTakes DEF processData, processStored
  <1>2. CASE pk.type # "base"
    <2>. DEFINE p == pk.type
    <2>1. p \in Parts
      BY <1>2, PacketsAssumption
    <2>. HIDE DEF p
    <2>2. processData(s, l, pk) = takeNodes(s, l, p, pk) /\ processStored(s, pk) = nodesStored(s, p, pk)
      BY <1>2 DEF processData, processStored, p
    <2>3. CASE ~s.header \/ (p \notin s.have /\ ~s.failed /\ ~hooked(s, p, pk))
      <3>1. takeNodes(s, l, p, pk) = s
        BY <2>3 DEF takeNodes
      <3>. QED  BY <2>2, <3>1, FineTakes, AlikeSelf DEF Good
    <2>4. CASE s.header /\ (p \in s.have \/ s.failed)
      <3>1. takeNodes(s, l, p, pk) = progress(s)
        BY <2>4 DEF takeNodes
      <3>. QED  BY <2>2, <3>1, FineTakes, progressAlike DEF Good
    <2>5. CASE s.header /\ p \notin s.have /\ ~s.failed /\ hooked(s, p, pk)
      <3>1. takeNodes(s, l, p, pk) = addNodes(s, p, pk, badHit(s, l, p, pk))
        BY <2>5 DEF takeNodes
      <3>2. nodesStored(s, p, pk) = pk.nodes
        BY <2>5 DEF nodesStored
      <3>3. ~isDone(s)
        BY <2>1, <2>5 DEF isDone, Good
      <3>4. badHit(s, l, p, pk) \in BOOLEAN /\ (badHit(s, l, p, pk) => s.map[p] = "synching")
        BY DEF badHit
      <3>. QED  BY <2>1, <2>2, <2>5, <3>1, <3>2, <3>3, <3>4, addNodesTakes
    <2>. QED  BY <2>3, <2>4, <2>5
  <1>. QED  BY <1>1, <1>2

-----------------------------------------------------------------------------
(* The steps *)

LEMMA ObjectSet ==
    ASSUME Inv, NEW o \in Objects, NEW t, il' = [il EXCEPT ![o] = t]
    PROVE  IsFcn(il', Objects) /\ il'[o] = t /\ Others(o)
  <1>1. IsFcn(il, Objects)
    BY DEF Inv, Ledgers
  <1>. QED  BY <1>1 DEF IsFcn, Others

\* A step on one acquisition with its lock held.
LEMMA LockStep ==
    ASSUME Inv, NEW o \in Objects, IsFcn(il', Objects), Others(o),
           Fine(il[o], il'[o], local), local' = local, alive' = alive
    PROVE  /\ Ledgers' /\ Sound /\ Onward
           /\ \A i \in Objects : /\ il'[i].received = il[i].received
                                 /\ il'[i].dispatched = il[i].dispatched
  <1>1. \A i \in Objects : Good(il[i], local) /\ il[i].received \in Seq(Packets)
    BY DEF Inv, Ledgers, Held
  <1>2. Good(il'[o], local) /\ Keeps(il[o], il'[o])
    BY DEF Fine
  <1>3. \A i \in Objects : /\ il'[i].received = il[i].received
                           /\ il'[i].dispatched = il[i].dispatched
    BY <1>2 DEF Keeps, Others
  <1>4. \A i \in Objects : Good(il'[i], local')
    BY <1>1, <1>2 DEF Others
  <1>5. Ledgers'
    BY <1>1, <1>3, <1>4 DEF Ledgers, Held
  <1>6. Advances(o)
    <2>1. isDone(il[o]) => il'[o].complete = il[o].complete /\ il'[o].failed = il[o].failed
      BY <1>2 DEF Keeps
    <2>2. Vouched(o)
      BY <1>2, CompleteWhole DEF Vouched
    <2>3. ~(il'[o].complete /\ il'[o].failed)
      BY <1>2 DEF Good
    <2>. QED  BY <2>1, <2>2, <2>3 DEF Advances
  <1>7. AllValid => AllValid'
    BY DEF AllValid, Fine, Others, Valid
  <1>8. Onward
    BY <1>2 DEF Onward, Keeps, Others, Inv, Frame
  <1>. QED  BY <1>3, <1>5, <1>6, <1>7, <1>8 DEF Sound

LEMMA Undisturbed ==
    ASSUME Inv, Onward, NEW v \in Threads, pc'[v] = pc[v], at'[v] = at[v],
           nodeIDs'[v] = nodeIDs[v], batch'[v] = batch[v]
    PROVE  Doing(v)'
  <1>1. Missing("as", local) = {} => Missing("as", local') = {}
    BY MoreIsGood DEF Onward, Parts
  <1>2. Doing(v)
    BY DEF Inv
  <1>. QED  BY <1>1, <1>2 DEF Doing, Onward

LEMMA StillFed ==
    ASSUME Fed, cur' = cur, jobs'.data = jobs.data,
           cur # 0 => il'[cur].received = il[cur].received /\ il'[cur].dispatched = il[cur].dispatched,
           \A v \in Threads : pc[v] = "run" => pc'[v] = "run" /\ at'[v] = at[v]
    PROVE  Fed'
  BY DEF Fed

LEMMA CurObject == ASSUME Inv, cur # 0 PROVE cur \in Objects /\ cur \in alive
  BY DEF Inv, Frame

\* A step on one acquisition that leaves the threads alone.
LEMMA QuietStep ==
    ASSUME Inv, Fed, NEW o \in Objects, IsFcn(il', Objects), Others(o),
           Fine(il[o], il'[o], local), UNCHANGED <<alive, cur, local, threads, reader, bound>>,
           IsFcn(jobs', {"data", "pack"}), jobs'.data = jobs.data
    PROVE  Inv' /\ Fed' /\ Sound
  <1>1. UNCHANGED <<pc, at, nodeIDs, batch>>
    BY DEF threads
  <1>2. /\ Ledgers' /\ Sound /\ Onward
        /\ \A i \in Objects : /\ il'[i].received = il[i].received
                              /\ il'[i].dispatched = il[i].dispatched
    BY LockStep
  <1>3. \A v \in Threads : Doing(v)'
    BY <1>1, <1>2, Undisturbed
  <1>4. Frame'
    BY <1>1 DEF Inv, Frame
  <1>5. Fed'
    BY <1>1, <1>2, CurObject, StillFed
  <1>. QED  BY <1>2, <1>3, <1>4, <1>5 DEF Inv

LEMMA acquireStep ==
    ASSUME Inv, Fed, NEW reason, NEW n, acquire(reason, n)
    PROVE  Inv' /\ Fed' /\ Sound
  <1>. DEFINE t == init(Fresh(reason), local, n)
  <1>1. PICK o \in Objects \ alive : cur' = o /\ alive' = alive \cup {o} /\ il' = [il EXCEPT ![o] = t]
    BY DEF acquire
  <1>2. UNCHANGED <<local, jobs, pc, at, batch, nodeIDs, reader, bound>>
    BY DEF acquire, threads, bounds
  <1>3. Fine(Fresh(reason), t, local) /\ Valid(Fresh(reason))
    BY initFine, FreshGood
  <1>4. Good(t, local) /\ Valid(t)
    BY <1>3 DEF Fine
  <1>5. t.received = <<>> /\ ~t.dispatched
    BY <1>3, FreshGood DEF Fine, Keeps
  <1>. HIDE DEF t
  <1>6. IsFcn(il', Objects) /\ il'[o] = t /\ Others(o)
    BY <1>1, ObjectSet
  <1>7. Ledgers'
    <2>1. <<>> \in Seq(Packets)
      OBVIOUS
    <2>2. \A i \in Objects : Good(il'[i], local') /\ il'[i].received \in Seq(Packets)
      BY <1>2, <1>4, <1>5, <1>6, <2>1 DEF Others, Inv, Ledgers, Held
    <2>. QED  BY <1>6, <2>2 DEF Ledgers, Held
  <1>8. Begins(o)
    <2>1. Vouched(o)
      BY <1>4, <1>6, CompleteWhole DEF Vouched
    <2>2. ~(il'[o].complete /\ il'[o].failed)
      BY <1>4, <1>6 DEF Good
    <2>. QED  BY <1>1, <1>6, <2>1, <2>2 DEF Begins
  <1>9. AllValid => AllValid'
    BY <1>4, <1>6 DEF AllValid, Others, Valid
  <1>10. Onward
    BY <1>1, <1>2, <1>6 DEF Onward, Others, Inv, Frame
  <1>11. \A v \in Threads : Doing(v)'
    BY <1>2, <1>10, Undisturbed
  <1>12. Frame'
    BY <1>1, <1>2 DEF Inv, Frame
  <1>13. Fed'
    BY <1>1, <1>5, <1>6 DEF Fed
  <1>14. Sound
    BY <1>1, <1>2, <1>8, <1>9 DEF Sound
  <1>. QED  BY <1>7, <1>11, <1>12, <1>13, <1>14 DEF Inv

LEMMA destroyStep ==
    ASSUME Inv, NEW o \in alive, ~Referenced(o), destroy(o), cur' \in alive' \cup {0},
           UNCHANGED <<jobs, threads, reader, bound>>
    PROVE  Inv' /\ Sound /\ Others(o)
  <1>1. alive' = alive \ {o} /\ il' = [il EXCEPT ![o] = Fresh("GENERIC")] /\ local \subseteq local'
    BY DEF destroy
  <1>2. UNCHANGED <<pc, at, batch, nodeIDs>>
    BY DEF threads
  <1>3. o \in Objects
    BY DEF Inv, Frame
  <1>4. IsFcn(il', Objects) /\ il'[o] = Fresh("GENERIC") /\ Others(o)
    BY <1>1, <1>3, ObjectSet
  <1>5. \A w \in Threads : at[w] # o
    BY DEF Referenced
  <1>6. Ledgers'
    <2>1. <<>> \in Seq(Packets)
      OBVIOUS
    <2>2. Good(il'[o], local') /\ il'[o].received \in Seq(Packets)
      BY <1>4, <2>1, FreshGood
    <2>3. ASSUME NEW i \in Objects \ {o} PROVE Good(il'[i], local') /\ il'[i].received \in Seq(Packets)
      BY <1>1, <1>4, MoreIsGood DEF Others, Inv, Ledgers, Held
    <2>. QED  BY <1>4, <2>2, <2>3 DEF Ledgers, Held
  <1>7. \A v \in Threads : Doing(v)'
    <2>. SUFFICES ASSUME NEW v \in Threads PROVE Doing(v)'
      OBVIOUS
    <2>1. Missing("as", local) = {} => Missing("as", local') = {}
      BY <1>1, MoreIsGood DEF Parts
    <2>2. Doing(v) /\ at[v] # o
      BY <1>5 DEF Inv
    <2>. QED  BY <1>1, <1>2, <1>4, <2>1, <2>2 DEF Doing, Others, Inv, Frame
  <1>8. Frame'
    <2>1. reader' = <<>> \/ reader' \in alive' \X Packets
      <3>1. CASE reader = <<>>
        BY <3>1
      <3>2. CASE reader # <<>>
        <4>1. reader[1] # o /\ reader \in alive \X Packets
          BY <3>2 DEF Referenced, Inv, Frame
        <4>. QED  BY <1>1, <4>1
      <3>. QED  BY <3>1, <3>2
    <2>. QED  BY <1>1, <1>2, <2>1 DEF Inv, Frame
  <1>9. Ends(o)
    BY <1>1, <1>4 DEF Ends
  <1>10. AllValid => AllValid'
    BY <1>4, FreshGood DEF AllValid, Others, Valid
  <1>11. Sound
    BY <1>1, <1>3, <1>9, <1>10 DEF Sound
  <1>. QED  BY <1>4, <1>6, <1>7, <1>8, <1>11 DEF Inv

\* A sweep.  The new collection is empty, whether or not the object stays.
LEMMA sweepStep == ASSUME Inv, Fed, sweep PROVE Inv' /\ Fed' /\ Sound
  <1>1. cur \in alive /\ cur' = 0 /\ UNCHANGED <<jobs, threads, reader, bound>>
    BY DEF sweep, Inv, Frame
  <1>2. Fed'
    BY <1>1 DEF Fed
  <1>3. CASE Referenced(cur)
    <2>1. UNCHANGED <<il, alive, local, jobs, pc, at, batch, nodeIDs, reader, bound>> /\ cur' = 0
      BY <1>1, <1>3 DEF sweep, threads
    <2>2. Ledgers' /\ \A w \in Threads : Doing(w)'
      BY <2>1 DEF Inv, Ledgers, Held, Doing
    <2>3. Frame'
      BY <2>1 DEF Inv, Frame
    <2>4. Sound
      BY <2>1 DEF Sound, Rests, AllValid
    <2>. QED  BY <1>2, <2>2, <2>3, <2>4 DEF Inv
  <1>4. CASE ~Referenced(cur)
    BY <1>1, <1>2, <1>4, destroyStep DEF sweep
  <1>. QED  BY <1>3, <1>4

LEMMA releaseStep == ASSUME Inv, Fed, NEW o, release(o) PROVE Inv' /\ Fed' /\ Sound
  <1>1. o \in alive /\ o # cur /\ ~Referenced(o) /\ destroy(o)
        /\ UNCHANGED <<cur, jobs, threads, reader, bound>>
    BY DEF release, bounds
  <1>2. cur' \in alive' \cup {0}
    BY <1>1 DEF destroy, Inv, Frame
  <1>3. Inv' /\ Sound /\ Others(o)
    BY <1>1, <1>2, destroyStep
  <1>4. cur # 0 => il'[cur] = il[cur]
    BY <1>1, <1>3, CurObject DEF Others
  <1>5. UNCHANGED <<pc, at>>
    BY <1>1 DEF threads
  <1>6. Fed'
    BY <1>1, <1>4, <1>5, StillFed
  <1>. QED  BY <1>3, <1>6

\* A step that leaves the acquisitions and the threads alone.
LEMMA OutsideStep ==
    ASSUME Inv, Fed, UNCHANGED <<il, alive, cur, pc, at, batch, nodeIDs, bound>>,
           local \subseteq local', IsFcn(jobs', {"data", "pack"}), jobs'.data = jobs.data,
           reader' = <<>> \/ reader' \in alive \X Packets
    PROVE  Inv' /\ Fed' /\ Sound
  <1>1. Onward
    BY DEF Onward
  <1>2. \A v \in Threads : Doing(v)'
    BY <1>1, Undisturbed
  <1>3. Ledgers'
    BY MoreIsGood DEF Inv, Ledgers, Held
  <1>4. Frame'
    BY DEF Inv, Frame
  <1>5. Fed'
    BY StillFed
  <1>6. Sound
    BY DEF Sound, Rests, AllValid
  <1>. QED  BY <1>2, <1>3, <1>4, <1>5, <1>6 DEF Inv

LEMMA gotLedgerDataStep ==
    ASSUME Inv, Fed, NEW pk \in Packets, gotLedgerData(pk)
    PROVE  Inv' /\ Fed' /\ Sound
  <1>1. UNCHANGED <<il, alive, cur, jobs, pc, at, batch, nodeIDs, bound>> /\ local \subseteq local'
    BY DEF gotLedgerData, threads
  <1>2. reader' = <<>> \/ reader' \in alive \X Packets
    BY CurObject DEF gotLedgerData
  <1>3. IsFcn(jobs', {"data", "pack"}) /\ jobs'.data = jobs.data
    BY <1>1 DEF Inv, Frame
  <1>. QED  BY <1>1, <1>2, <1>3, OutsideStep

LEMMA arriveStep ==
    ASSUME Inv, Fed, NEW items, NEW announced, arrive(items, announced)
    PROVE  Inv' /\ Fed' /\ Sound
  <1>1. UNCHANGED <<il, alive, cur, pc, at, batch, nodeIDs, reader, bound>> /\ local \subseteq local'
    BY DEF arrive, threads
  <1>2. IsFcn(jobs, {"data", "pack"}) /\ (jobs' = jobs \/ jobs' = [jobs EXCEPT !.pack = @ + 1])
    BY DEF arrive, Inv, Frame
  <1>3. IsFcn(jobs', {"data", "pack"}) /\ jobs'.data = jobs.data
    BY <1>2 DEF IsFcn
  <1>4. reader' = <<>> \/ reader' \in alive \X Packets
    BY <1>1 DEF Inv, Frame
  <1>. QED  BY <1>1, <1>3, <1>4, OutsideStep

\* Fields that only the queue of packets and its flag differ in.
LEMMA QueueGood ==
    ASSUME NEW s, NEW t, NEW l, Good(s, l), IsFcn(t, Fields),
           t.header = s.header, t.root = s.root, t.have = s.have, t.map = s.map,
           t.complete = s.complete, t.failed = s.failed
    PROVE  Good(t, l) /\ (Valid(s) => Valid(t))
  <1>1. Record(t)
    BY DEF Good, Record
  <1>. QED  BY <1>1 DEF Good, Valid

\* A step on the queue of one acquisition.
LEMMA QueueStep ==
    ASSUME Inv, NEW o \in Objects, IsFcn(il', Objects), Others(o), IsFcn(il'[o], Fields),
           il'[o].header = il[o].header, il'[o].root = il[o].root, il'[o].have = il[o].have,
           il'[o].map = il[o].map, il'[o].complete = il[o].complete,
           il'[o].failed = il[o].failed, il'[o].received \in Seq(Packets),
           local' = local, alive' = alive
    PROVE  Ledgers' /\ Sound /\ Onward
  <1>1. \A i \in Objects : Good(il[i], local) /\ il[i].received \in Seq(Packets)
    BY DEF Inv, Ledgers, Held
  <1>2. Good(il'[o], local) /\ (Valid(il[o]) => Valid(il'[o]))
    BY <1>1, QueueGood
  <1>3. Ledgers'
    BY <1>1, <1>2 DEF Ledgers, Held, Others
  <1>4. Advances(o)
    <2>1. il[o].complete \/ Vouched(o)
      BY DEF Vouched
    <2>2. ~(il'[o].complete /\ il'[o].failed)
      BY <1>2 DEF Good
    <2>. QED  BY <2>1, <2>2 DEF Advances
  <1>5. AllValid => AllValid'
    BY <1>2 DEF AllValid, Others, Valid
  <1>6. Onward
    BY DEF Onward, Others, Inv, Frame
  <1>. QED  BY <1>3, <1>4, <1>5, <1>6 DEF Sound

LEMMA gotDataStep == ASSUME Inv, Fed, gotData PROVE Inv' /\ Fed' /\ Sound
  <1>. DEFINE o == reader[1]
              pk == reader[2]
  <1>1. o \in alive /\ o \in Objects /\ pk \in Packets
    BY DEF gotData, Inv, Frame
  <1>2. /\ il' = [il EXCEPT ![o].received = Append(@, pk), ![o].dispatched = TRUE]
        /\ jobs' = IF il[o].dispatched THEN jobs ELSE [jobs EXCEPT !.data = @ + 1]
        /\ reader' = <<>>
        /\ UNCHANGED <<alive, cur, local, pc, at, batch, nodeIDs, bound>>
    BY DEF gotData, threads, bounds
  <1>. HIDE DEF o, pk
  <1>3. /\ IsFcn(il, Objects) /\ Good(il[o], local) /\ IsFcn(il[o], Fields)
        /\ il[o].received \in Seq(Packets)
    BY <1>1 DEF Inv, Ledgers, Held, Good, Record
  <1>4. IsFcn(il', Objects) /\ Others(o)
    BY <1>1, <1>2, <1>3 DEF IsFcn, Others
  <1>5. il'[o] = [il[o] EXCEPT !.received = Append(@, pk), !.dispatched = TRUE]
    BY <1>1, <1>2, <1>3 DEF IsFcn, Fields
  <1>6. /\ IsFcn(il'[o], Fields) /\ il'[o].received = Append(il[o].received, pk)
        /\ il'[o].dispatched = TRUE
        /\ il'[o].header = il[o].header /\ il'[o].root = il[o].root /\ il'[o].have = il[o].have
        /\ il'[o].map = il[o].map /\ il'[o].complete = il[o].complete
        /\ il'[o].failed = il[o].failed
    BY <1>3, <1>5 DEF IsFcn, Fields
  <1>7. il'[o].received \in Seq(Packets)
    BY <1>1, <1>3, <1>6
  <1>8. Ledgers' /\ Sound /\ Onward
    BY <1>1, <1>2, <1>4, <1>6, <1>7, QueueStep
  <1>9. \A v \in Threads : Doing(v)'
    BY <1>2, <1>8, Undisturbed
  <1>10. /\ IsFcn(jobs', {"data", "pack"}) /\ jobs'.data \in Nat
         /\ jobs'.data = IF il[o].dispatched THEN jobs.data ELSE jobs.data + 1
    BY <1>2 DEF Inv, Frame, IsFcn
  <1>11. Frame'
    BY <1>2, <1>10 DEF Inv, Frame
  <1>12. Fed'
    <2>. SUFFICES ASSUME cur # 0
                  PROVE  /\ ~il'[cur].dispatched => il'[cur].received = <<>>
                         /\ il'[cur].dispatched =>
                              jobs'.data > 0 \/ \E w \in Threads : at[w] = cur /\ pc[w] = "run"
      BY <1>2 DEF Fed
    <2>1. jobs.data \in Nat
      BY DEF Inv, Frame
    <2>2. jobs'.data >= jobs.data /\ (~il[o].dispatched => jobs'.data > 0)
      BY <1>10, <2>1
    <2>3. jobs.data > 0 => jobs'.data > 0
      BY <1>10, <2>1, <2>2
    <2>4. CASE o = cur
      BY <1>6, <2>2, <2>3, <2>4 DEF Fed
    <2>5. CASE o # cur
      BY <1>4, <2>3, <2>5, CurObject DEF Fed, Others
    <2>. QED  BY <2>4, <2>5
  <1>. QED  BY <1>8, <1>9, <1>11, <1>12 DEF Inv

LEMMA TimerEntryStep ==
    ASSUME Inv, Fed, NEW o \in Objects, TimerEntry(o)
    PROVE  Inv' /\ Fed' /\ Sound
  <1>1. /\ il' = [il EXCEPT ![o].timer = FALSE, ![o].timerJobs = @ + 1]
        /\ UNCHANGED <<alive, cur, local, jobs, threads, reader, bound>>
    BY DEF TimerEntry, bounds
  <1>2. IsFcn(il, Objects) /\ Good(il[o], local) /\ IsFcn(il[o], Fields)
    BY DEF Inv, Ledgers, Held, Good, Record
  <1>3. IsFcn(il', Objects) /\ Others(o)
    BY <1>1, <1>2 DEF IsFcn, Others
  <1>4. il'[o] = [il[o] EXCEPT !.timer = FALSE, !.timerJobs = @ + 1]
    BY <1>1, <1>2 DEF IsFcn, Fields
  <1>5. Alike(il[o], il'[o])
    BY <1>2, <1>4 DEF Alike, IsFcn, Fields
  <1>6. Fine(il[o], il'[o], local)
    BY <1>2, <1>5, AlikeFine
  <1>7. IsFcn(jobs', {"data", "pack"}) /\ jobs'.data = jobs.data
    BY <1>1 DEF Inv, Frame
  <1>. QED  BY <1>1, <1>3, <1>6, <1>7, QuietStep

LEMMA gotFetchPackStep ==
    ASSUME Inv, Fed, NEW w, gotFetchPack(w)
    PROVE  Inv' /\ Fed' /\ Sound
  <1>1. /\ jobs' = [jobs EXCEPT !.pack = @ - 1]
        /\ il' = IF cur = 0 THEN il ELSE [il EXCEPT ![cur] = checkLocal(il[cur], local)]
        /\ UNCHANGED <<alive, cur, local, threads, reader, bound>>
    BY DEF gotFetchPack, bounds
  <1>2. IsFcn(jobs', {"data", "pack"}) /\ jobs'.data = jobs.data
    BY <1>1 DEF Inv, Frame, IsFcn
  <1>3. CASE cur = 0
    <2>1. UNCHANGED <<il, alive, cur, local, pc, at, batch, nodeIDs, reader, bound>>
      BY <1>1, <1>3 DEF threads
    <2>2. reader' = <<>> \/ reader' \in alive \X Packets
      BY <2>1 DEF Inv, Frame
    <2>. QED  BY <1>2, <2>1, <2>2, OutsideStep
  <1>4. CASE cur # 0
    <2>1. cur \in Objects
      BY <1>4, CurObject
    <2>2. IsFcn(il', Objects) /\ il'[cur] = checkLocal(il[cur], local) /\ Others(cur)
      BY <1>1, <1>4, <2>1, ObjectSet
    <2>3. Fine(il[cur], il'[cur], local)
      BY <2>1, <2>2, checkLocalFine DEF Inv, Ledgers, Held
    <2>. QED  BY <1>1, <1>2, <2>1, <2>2, <2>3, QuietStep
  <1>. QED  BY <1>3, <1>4

LEMMA TimerJobEntryStep ==
    ASSUME Inv, Fed, NEW w, NEW o \in Objects, NEW n, TimerJobEntry(w, o, n)
    PROVE  Inv' /\ Fed' /\ Sound
  <1>. DEFINE s == [il[o] EXCEPT !.timerJobs = @ - 1]
              t == invokeOnTimer(s, local, n)
  <1>0. UNCHANGED <<alive, cur, local, jobs, threads, reader, bound>>
    BY DEF TimerJobEntry, bounds
  <1>1. il' = [il EXCEPT ![o] = t]
    BY DEF TimerJobEntry
  <1>2. Good(il[o], local) /\ IsFcn(il[o], Fields)
    BY DEF Inv, Ledgers, Held, Good, Record
  <1>3. Alike(il[o], s)
    BY <1>2 DEF Alike, IsFcn, Fields
  <1>. HIDE DEF s
  <1>4. Fine(il[o], s, local) /\ Good(s, local)
    BY <1>2, <1>3, AlikeFine DEF Fine
  <1>5. Fine(il[o], t, local)
    BY <1>4, invokeOnTimerFine, FineTrans
  <1>. HIDE DEF t
  <1>6. IsFcn(il', Objects) /\ il'[o] = t /\ Others(o)
    BY <1>1, ObjectSet
  <1>7. IsFcn(jobs', {"data", "pack"}) /\ jobs'.data = jobs.data
    BY <1>0 DEF Inv, Frame
  <1>. QED  BY <1>0, <1>5, <1>6, <1>7, QuietStep

LEMMA LADispatchStep ==
    ASSUME Inv, Fed, NEW w, NEW o \in Objects, LADispatch(w, o)
    PROVE  Inv' /\ Fed' /\ Sound
  <1>. DEFINE a == il[o].accepted \/ (il[o].complete /\ ~il[o].failed)
  <1>1. /\ il' = [il EXCEPT ![o].dispatches = @ - 1, ![o].accepted = a]
        /\ UNCHANGED <<alive, cur, local, jobs, threads, reader, bound>>
    <2>1. IsFcn(il, Objects) /\ IsFcn(il[o], Fields)
      BY DEF Inv, Ledgers, Held, Good, Record
    <2>. QED  BY <2>1 DEF LADispatch, bounds, IsFcn, Fields
  <1>. HIDE DEF a
  <1>2. IsFcn(il, Objects) /\ Good(il[o], local) /\ IsFcn(il[o], Fields)
    BY DEF Inv, Ledgers, Held, Good, Record
  <1>3. IsFcn(il', Objects) /\ Others(o)
    BY <1>1, <1>2 DEF IsFcn, Others
  <1>4. il'[o] = [il[o] EXCEPT !.dispatches = @ - 1, !.accepted = a]
    BY <1>1, <1>2 DEF IsFcn, Fields
  <1>5. Alike(il[o], il'[o])
    BY <1>2, <1>4 DEF Alike, IsFcn, Fields
  <1>6. Fine(il[o], il'[o], local)
    BY <1>2, <1>5, AlikeFine
  <1>7. IsFcn(jobs', {"data", "pack"}) /\ jobs'.data = jobs.data
    BY <1>1 DEF Inv, Frame
  <1>. QED  BY <1>1, <1>3, <1>6, <1>7, QuietStep

LEMMA doLedgerDataStep ==
    ASSUME Inv, Fed, NEW w \in Threads, doLedgerData(w)
    PROVE  Inv' /\ Fed' /\ Sound
  <1>1. /\ jobs' = [jobs EXCEPT !.data = @ - 1] /\ jobs.data > 0 /\ pc[w] = "idle"
        /\ UNCHANGED <<il, alive, cur, local, batch, nodeIDs, reader, bound>>
    BY DEF doLedgerData, bounds
  <1>2. /\ cur = 0 => UNCHANGED <<pc, at>>
        /\ cur # 0 => pc' = [pc EXCEPT ![w] = "run"] /\ at' = [at EXCEPT ![w] = cur]
    BY DEF doLedgerData, go
  <1>3. IsFcn(jobs', {"data", "pack"}) /\ jobs'.data \in Nat
    <2>1. IsFcn(jobs, {"data", "pack"}) /\ jobs.data \in Nat
      BY DEF Inv, Frame
    <2>2. IsFcn(jobs', {"data", "pack"}) /\ jobs'.data = jobs.data - 1
      BY <1>1, <2>1 DEF IsFcn
    <2>. QED  BY <1>1, <2>1, <2>2
  <1>4. /\ IsFcn(pc', Threads) /\ IsFcn(at', Threads)
        /\ \A v \in Threads \ {w} : pc'[v] = pc[v] /\ at'[v] = at[v]
        /\ cur # 0 => pc'[w] = "run" /\ at'[w] = cur
    BY <1>2 DEF Inv, Frame, IsFcn
  <1>5. Onward
    BY <1>1 DEF Onward
  <1>6. ASSUME NEW v \in Threads PROVE Doing(v)'
    <2>1. CASE v # w \/ cur = 0
      BY <1>1, <1>2, <1>4, <1>5, <2>1, Undisturbed
    <2>2. CASE v = w /\ cur # 0
      BY <1>1, <1>4, <2>2, CurObject DEF Doing, Inv
    <2>. QED  BY <2>1, <2>2
  <1>7. Ledgers'
    BY <1>1 DEF Inv, Ledgers, Held
  <1>8. Frame'
    BY <1>1, <1>3, <1>4 DEF Inv, Frame
  <1>9. Fed'
    BY <1>1, <1>4 DEF Fed
  <1>10. Sound
    BY <1>1 DEF Sound, Rests, AllValid
  <1>. QED  BY <1>6, <1>7, <1>8, <1>9, <1>10 DEF Inv

LEMMA runDataStep ==
    ASSUME Inv, Fed, NEW w \in Threads, runData(w)
    PROVE  Inv' /\ Fed' /\ Sound
  <1>. DEFINE o == at[w]
  <1>1. pc[w] = "run" /\ UNCHANGED <<alive, cur, local, jobs, nodeIDs, reader, bound>>
    BY DEF runData, bounds
  <1>2. o \in Objects /\ o \in alive
    BY <1>1 DEF Inv, Frame, Doing
  <1>3. /\ IsFcn(il, Objects) /\ Good(il[o], local) /\ IsFcn(il[o], Fields)
        /\ il[o].received \in Seq(Packets)
    BY <1>2 DEF Inv, Ledgers, Held, Good, Record
  <1>4. CASE il[o].received = <<>>
    <2>1. il' = [il EXCEPT ![o].dispatched = FALSE] /\ batch' = batch
      BY <1>4 DEF runData
    <2>2. \/ pc' = [pc EXCEPT ![w] = "trigger"] /\ at' = at
          \/ pc' = [pc EXCEPT ![w] = "idle"] /\ at' = [at EXCEPT ![w] = 0]
      BY <1>4 DEF runData, go, leave
    <2>3. /\ IsFcn(pc', Threads) /\ IsFcn(at', Threads)
          /\ \A v \in Threads \ {w} : pc'[v] = pc[v] /\ at'[v] = at[v]
          /\ pc'[w] = "idle" \/ (pc'[w] = "trigger" /\ at'[w] = o)
      BY <2>2 DEF Inv, Frame, IsFcn
    <2>. HIDE DEF o
    <2>4. IsFcn(il', Objects) /\ Others(o)
      BY <1>2, <1>3, <2>1 DEF IsFcn, Others
    <2>5. il'[o] = [il[o] EXCEPT !.dispatched = FALSE]
      BY <1>2, <1>3, <2>1 DEF IsFcn, Fields
    <2>6. /\ IsFcn(il'[o], Fields) /\ il'[o].received = il[o].received
          /\ il'[o].dispatched = FALSE
          /\ il'[o].header = il[o].header /\ il'[o].root = il[o].root
          /\ il'[o].have = il[o].have /\ il'[o].map = il[o].map
          /\ il'[o].complete = il[o].complete /\ il'[o].failed = il[o].failed
      BY <1>3, <2>5 DEF IsFcn, Fields
    <2>7. Ledgers' /\ Sound /\ Onward
      BY <1>1, <1>2, <1>3, <2>4, <2>6, QueueStep
    <2>8. ASSUME NEW v \in Threads PROVE Doing(v)'
      <3>1. CASE v # w
        BY <1>1, <2>1, <2>3, <2>7, <3>1, Undisturbed
      <3>2. CASE v = w
        BY <1>1, <1>2, <2>1, <2>3, <3>2 DEF Doing, Inv
      <3>. QED  BY <3>1, <3>2
    <2>9. Frame'
      BY <1>1, <2>1, <2>3 DEF Inv, Frame
    <2>10. Fed'
      <3>1. CASE o = cur
        BY <1>1, <1>4, <2>6, <3>1 DEF Fed
      <3>2. CASE o # cur
        <4>1. cur # 0 => il'[cur] = il[cur]
          BY <2>4, <3>2, CurObject DEF Others
        <4>2. \A v \in Threads : at[v] = cur /\ pc[v] = "run" => at'[v] = cur /\ pc'[v] = "run"
          BY <2>3, <3>2 DEF o
        <4>. QED  BY <1>1, <4>1, <4>2 DEF Fed
      <3>. QED  BY <3>1, <3>2
    <2>. QED  BY <2>7, <2>8, <2>9, <2>10 DEF Inv
  <1>5. CASE il[o].received # <<>>
    <2>1. /\ il' = [il EXCEPT ![o].received = <<>>]
          /\ batch' = [batch EXCEPT ![w] = il[o].received] /\ UNCHANGED <<pc, at>>
      BY <1>5 DEF runData
    <2>2. /\ IsFcn(batch', Threads) /\ batch'[w] = il[o].received
          /\ \A v \in Threads \ {w} : batch'[v] = batch[v]
      BY <2>1 DEF Inv, Frame, IsFcn
    <2>. HIDE DEF o
    <2>4. IsFcn(il', Objects) /\ Others(o)
      BY <1>2, <1>3, <2>1 DEF IsFcn, Others
    <2>5. il'[o] = [il[o] EXCEPT !.received = <<>>]
      BY <1>2, <1>3, <2>1 DEF IsFcn, Fields
    <2>6. /\ IsFcn(il'[o], Fields) /\ il'[o].received = <<>>
          /\ il'[o].dispatched = il[o].dispatched
          /\ il'[o].header = il[o].header /\ il'[o].root = il[o].root
          /\ il'[o].have = il[o].have /\ il'[o].map = il[o].map
          /\ il'[o].complete = il[o].complete /\ il'[o].failed = il[o].failed
      BY <1>3, <2>5 DEF IsFcn, Fields
    <2>7. il'[o].received \in Seq(Packets)
      BY <2>6
    <2>8. Ledgers' /\ Sound /\ Onward
      BY <1>1, <1>2, <2>4, <2>6, <2>7, QueueStep
    <2>9. ASSUME NEW v \in Threads PROVE Doing(v)'
      <3>1. CASE v # w
        BY <1>1, <2>1, <2>2, <2>8, <3>1, Undisturbed
      <3>2. CASE v = w
        BY <1>1, <1>2, <1>3, <2>1, <2>2, <3>2 DEF Doing, o
      <3>. QED  BY <3>1, <3>2
    <2>10. Frame'
      BY <1>1, <2>1, <2>2 DEF Inv, Frame
    <2>11. Fed'
      <3>1. cur # 0 => il'[cur].dispatched = il[cur].dispatched
                       /\ (il[cur].received = <<>> => il'[cur].received = <<>>)
        BY <2>4, <2>6, CurObject DEF Others
      <3>. QED  BY <1>1, <2>1, <3>1 DEF Fed
    <2>. QED  BY <2>8, <2>9, <2>10, <2>11 DEF Inv
  <1>. QED  BY <1>4, <1>5

\* A step of a thread that is past reading the queue, and of the acquisition it works on.
LEMMA ThreadStep ==
    ASSUME Inv, Fed, NEW w \in Threads, pc[w] \notin {"idle", "run"},
           IsFcn(il', Objects), Others(at[w]), Fine(il[at[w]], il'[at[w]], local),
           UNCHANGED <<alive, cur, local, jobs, reader, bound, batch>>,
           IsFcn(pc', Threads), IsFcn(at', Threads), IsFcn(nodeIDs', Threads),
           \A v \in Threads \ {w} : pc'[v] = pc[v] /\ at'[v] = at[v] /\ nodeIDs'[v] = nodeIDs[v],
           pc'[w] # "idle" => at'[w] = at[w],
           pc'[w] \in {"missing", "relock"} => "as" \in il'[at[w]].root,
           pc'[w] = "relock" /\ nodeIDs'[w] = {} => Missing("as", local) = {}
    PROVE  Inv' /\ Fed' /\ Sound
  <1>1. at[w] \in Objects /\ at[w] \in alive
    BY DEF Inv, Frame, Doing
  <1>2. /\ Ledgers' /\ Sound /\ Onward
        /\ \A i \in Objects : /\ il'[i].received = il[i].received
                              /\ il'[i].dispatched = il[i].dispatched
    BY <1>1, LockStep
  <1>3. ASSUME NEW v \in Threads PROVE Doing(v)'
    <2>1. CASE v # w
      BY <1>2, <2>1, Undisturbed
    <2>2. CASE v = w
      BY <1>1, <2>2 DEF Doing, Inv
    <2>. QED  BY <2>1, <2>2
  <1>4. Frame'
    BY DEF Inv, Frame
  <1>5. \A v \in Threads : pc[v] = "run" => pc'[v] = "run" /\ at'[v] = at[v]
    OBVIOUS
  <1>6. cur # 0 => il'[cur].received = il[cur].received /\ il'[cur].dispatched = il[cur].dispatched
    BY <1>2, CurObject
  <1>7. Fed'
    BY <1>5, <1>6, StillFed
  <1>. QED  BY <1>2, <1>3, <1>4, <1>7 DEF Inv

LEMMA proceedStep ==
    ASSUME Inv, Fed, NEW w \in Threads, pc[w] \notin {"idle", "run"}, NEW r, proceed(w, r),
           Steps(il[at[w]], r, local),
           UNCHANGED <<alive, cur, local, jobs, reader, bound, batch>>,
           IsFcn(nodeIDs', Threads), \A v \in Threads \ {w} : nodeIDs'[v] = nodeIDs[v]
    PROVE  Inv' /\ Fed' /\ Sound
  <1>. DEFINE o == at[w]
  <1>1. o \in Objects
    BY DEF Inv, Frame, Doing
  <1>2. il' = [il EXCEPT ![o] = r[1]]
    BY DEF proceed
  <1>3. \/ r[2] \in {"missing", "end"} /\ pc' = [pc EXCEPT ![w] = r[2]] /\ at' = at
        \/ pc' = [pc EXCEPT ![w] = "idle"] /\ at' = [at EXCEPT ![w] = 0]
    BY DEF proceed, go, leave
  <1>4. /\ IsFcn(pc', Threads) /\ IsFcn(at', Threads)
        /\ \A v \in Threads \ {w} : pc'[v] = pc[v] /\ at'[v] = at[v]
        /\ pc'[w] = "idle" \/ (pc'[w] = r[2] /\ r[2] \in {"missing", "end"} /\ at'[w] = at[w])
    BY <1>3 DEF Inv, Frame, IsFcn
  <1>5. IsFcn(il', Objects) /\ il'[o] = r[1] /\ Others(o)
    BY <1>1, <1>2, ObjectSet
  <1>6. Fine(il[o], il'[o], local) /\ (r[2] = "missing" => "as" \in il'[o].root)
    BY <1>5 DEF Steps
  <1>. QED  BY <1>4, <1>5, <1>6, ThreadStep

LEMMA triggerStartStep ==
    ASSUME Inv, Fed, NEW w \in Threads, triggerStart(w)
    PROVE  Inv' /\ Fed' /\ Sound
  <1>. DEFINE s == il[at[w]]
              h == triggerHead(s, local)
              r == triggerTail(h, local)
  <1>1. /\ pc[w] = "trigger" /\ proceed(w, r)
        /\ UNCHANGED <<alive, cur, local, jobs, batch, nodeIDs, reader, bound>>
    BY DEF triggerStart, bounds
  <1>2. Good(s, local)
    BY <1>1 DEF Inv, Ledgers, Held, Frame, Doing
  <1>3. Steps(s, r, local)
    BY <1>2, triggerHeadSteps, triggerTailSteps
  <1>4. IsFcn(nodeIDs', Threads) /\ \A v \in Threads \ {w} : nodeIDs'[v] = nodeIDs[v]
    BY <1>1 DEF Inv, Frame
  <1>. HIDE DEF r
  <1>. QED  BY <1>1, <1>3, <1>4, proceedStep

LEMMA getMissingNodesStep ==
    ASSUME Inv, Fed, NEW w \in Threads, getMissingNodes(w)
    PROVE  Inv' /\ Fed' /\ Sound
  <1>. DEFINE s == il[at[w]]
              t == searched(s, local)
  <1>1. /\ pc[w] = "missing" /\ nodeIDs' = [nodeIDs EXCEPT ![w] = Missing("as", local)]
        /\ il' = [il EXCEPT ![at[w]] = t] /\ pc' = [pc EXCEPT ![w] = "relock"]
        /\ UNCHANGED <<alive, cur, local, jobs, at, batch, reader, bound>>
    BY DEF getMissingNodes, bounds, go
  <1>2. Good(s, local) /\ "as" \in s.root /\ at[w] \in Objects
    BY <1>1 DEF Inv, Ledgers, Held, Frame, Doing
  <1>3. Fine(s, t, local) /\ "as" \in t.root
    BY <1>2, searchedFine DEF Fine, Keeps
  <1>. HIDE DEF t
  <1>4. IsFcn(il', Objects) /\ il'[at[w]] = t /\ Others(at[w])
    BY <1>1, <1>2, ObjectSet
  <1>5. /\ IsFcn(pc', Threads) /\ IsFcn(nodeIDs', Threads) /\ IsFcn(at', Threads)
        /\ pc'[w] = "relock" /\ nodeIDs'[w] = Missing("as", local)
        /\ \A v \in Threads \ {w} : pc'[v] = pc[v] /\ nodeIDs'[v] = nodeIDs[v]
    BY <1>1 DEF Inv, Frame, IsFcn
  <1>. QED  BY <1>1, <1>3, <1>4, <1>5, ThreadStep

LEMMA triggerEndStep ==
    ASSUME Inv, Fed, NEW w \in Threads, triggerEnd(w)
    PROVE  Inv' /\ Fed' /\ Sound
  <1>. DEFINE s == il[at[w]]
              h == afterMissing(s, nodeIDs[w])
              r == triggerTail(h, local)
  <1>1. /\ pc[w] = "relock" /\ proceed(w, r) /\ nodeIDs' = [nodeIDs EXCEPT ![w] = {}]
        /\ UNCHANGED <<alive, cur, local, jobs, batch, reader, bound>>
    BY DEF triggerEnd, bounds
  <1>2. Good(s, local) /\ "as" \in s.root /\ (nodeIDs[w] = {} => Missing("as", local) = {})
    BY <1>1 DEF Inv, Ledgers, Held, Frame, Doing
  <1>3. Steps(s, h, local)
    BY <1>2, afterMissingSteps
  <1>4. Steps(s, r, local)
    BY <1>3, triggerTailSteps
  <1>5. IsFcn(nodeIDs', Threads) /\ \A v \in Threads \ {w} : nodeIDs'[v] = nodeIDs[v]
    BY <1>1 DEF Inv, Frame, IsFcn
  <1>. HIDE DEF r
  <1>. QED  BY <1>1, <1>4, <1>5, proceedStep

LEMMA doneCheckStep ==
    ASSUME Inv, Fed, NEW w \in Threads, doneCheck(w)
    PROVE  Inv' /\ Fed' /\ Sound
  <1>1. /\ pc[w] = "end"
        /\ UNCHANGED <<il, alive, cur, local, jobs, batch, nodeIDs, reader, bound>>
    BY DEF doneCheck, bounds
  <1>2. \/ pc' = [pc EXCEPT ![w] = "done"] /\ at' = at
        \/ pc' = [pc EXCEPT ![w] = "idle"] /\ at' = [at EXCEPT ![w] = 0]
    BY DEF doneCheck, go, leave
  <1>3. /\ IsFcn(pc', Threads) /\ IsFcn(at', Threads) /\ IsFcn(nodeIDs', Threads)
        /\ \A v \in Threads \ {w} : pc'[v] = pc[v] /\ at'[v] = at[v] /\ nodeIDs'[v] = nodeIDs[v]
        /\ pc'[w] = "idle" \/ (pc'[w] = "done" /\ at'[w] = at[w])
    BY <1>1, <1>2 DEF Inv, Frame, IsFcn
  <1>4. IsFcn(il', Objects) /\ Others(at[w]) /\ Good(il[at[w]], local)
    BY <1>1 DEF Inv, Ledgers, Held, Frame, Doing, Others
  <1>5. Fine(il[at[w]], il'[at[w]], local)
    BY <1>1, <1>4, FineSelf
  <1>. QED  BY <1>1, <1>3, <1>4, <1>5, ThreadStep

LEMMA doneBodyStep ==
    ASSUME Inv, Fed, NEW w \in Threads, doneBody(w)
    PROVE  Inv' /\ Fed' /\ Sound
  <1>. DEFINE s == il[at[w]]
              q == [s EXCEPT !.signaled = FALSE]
              t == done(q)
  <1>1. /\ pc[w] = "done" /\ il' = [il EXCEPT ![at[w]] = t]
        /\ pc' = [pc EXCEPT ![w] = "idle"] /\ at' = [at EXCEPT ![w] = 0]
        /\ UNCHANGED <<alive, cur, local, jobs, batch, nodeIDs, reader, bound>>
    BY DEF doneBody, leave, go, bounds
  <1>2. at[w] \in Objects /\ Good(s, local) /\ IsFcn(s, Fields)
    BY <1>1 DEF Inv, Ledgers, Held, Frame, Doing, Good, Record
  <1>3. Alike(s, q)
    BY <1>2 DEF Alike, IsFcn, Fields
  <1>4. Fine(s, q, local)
    BY <1>2, <1>3, AlikeFine
  <1>. HIDE DEF q
  <1>5. Alike(q, t)
    BY <1>4, doneAlike DEF Fine, Good
  <1>6. Fine(s, t, local)
    BY <1>4, <1>5, FineAlike
  <1>. HIDE DEF t
  <1>7. IsFcn(il', Objects) /\ il'[at[w]] = t /\ Others(at[w])
    BY <1>1, <1>2, ObjectSet
  <1>8. /\ IsFcn(pc', Threads) /\ IsFcn(at', Threads) /\ IsFcn(nodeIDs', Threads)
        /\ \A v \in Threads \ {w} : pc'[v] = pc[v] /\ at'[v] = at[v] /\ nodeIDs'[v] = nodeIDs[v]
        /\ pc'[w] = "idle"
    BY <1>1 DEF Inv, Frame, IsFcn
  <1>. QED  BY <1>1, <1>6, <1>7, <1>8, ThreadStep

LEMMA processStep ==
    ASSUME Inv, Fed, NEW w \in Threads, NEW c \in BOOLEAN, process(w, c)
    PROVE  Inv' /\ Fed' /\ Sound
  <1>. DEFINE o == at[w]
              pk == Head(batch[w])
              t == processData(il[o], local, pk)
  <1>1. /\ pc[w] = "run" /\ batch[w] # <<>> /\ batch' = [batch EXCEPT ![w] = Tail(@)]
        /\ UNCHANGED <<alive, cur, jobs, pc, at, nodeIDs, reader, bound>>
    BY DEF process, bounds
  <1>2. o \in Objects /\ o \in alive /\ batch[w] \in Seq(Packets)
    BY <1>1 DEF Inv, Frame, Doing
  <1>3. pk \in Packets /\ Tail(batch[w]) \in Seq(Packets)
    BY <1>1, <1>2
  <1>4. /\ IsFcn(batch', Threads) /\ batch'[w] = Tail(batch[w])
        /\ \A v \in Threads \ {w} : batch'[v] = batch[v]
    BY <1>1 DEF Inv, Frame, IsFcn
  <1>5. Frame'
    BY <1>1, <1>4 DEF Inv, Frame
  <1>6. ASSUME Onward PROVE \A v \in Threads : Doing(v)'
    <2>. SUFFICES ASSUME NEW v \in Threads PROVE Doing(v)'
      OBVIOUS
    <2>1. CASE v # w
      BY <1>1, <1>4, <1>6, <2>1, Undisturbed
    <2>2. CASE v = w
      BY <1>1, <1>2, <1>3, <1>4, <2>2 DEF Doing
    <2>. QED  BY <2>1, <2>2
  <1>7. CASE ~c
    <2>1. UNCHANGED <<il, local>>
      BY <1>7 DEF process
    <2>2. Onward /\ Ledgers' /\ Sound
      BY <1>1, <2>1 DEF Onward, Inv, Ledgers, Held, Sound, Rests, AllValid
    <2>3. Fed'
      BY <1>1, <2>1, StillFed
    <2>. QED  BY <1>5, <1>6, <2>2, <2>3 DEF Inv
  <1>8. CASE c
    <2>1. il' = [il EXCEPT ![o] = t] /\ local' = local \cup processStored(il[o], pk)
      BY <1>8 DEF process
    <2>2. Good(il[o], local) /\ il[o].received \in Seq(Packets)
      BY <1>2 DEF Inv, Ledgers, Held
    <2>3. Takes(il[o], t, local, local', pk.bad)
      BY <1>3, <2>1, <2>2, processDataTakes
    <2>. HIDE DEF t, pk, o
    <2>4. IsFcn(il', Objects) /\ il'[o] = t /\ Others(o)
      BY <1>2, <2>1, ObjectSet
    <2>5. local \subseteq local'
      BY <2>1
    <2>6. Good(t, local') /\ Keeps(il[o], t)
      BY <2>3 DEF Takes
    <2>7. Ledgers'
      <3>1. Good(il'[o], local') /\ il'[o].received \in Seq(Packets)
        BY <2>2, <2>4, <2>6 DEF Keeps
      <3>2. ASSUME NEW i \in Objects \ {o}
            PROVE  Good(il'[i], local') /\ il'[i].received \in Seq(Packets)
        BY <2>4, <2>5, MoreIsGood DEF Others, Inv, Ledgers, Held
      <3>. QED  BY <2>4, <3>1, <3>2 DEF Ledgers, Held
    <2>8. Onward
      BY <1>1, <2>4, <2>5, <2>6 DEF Onward, Others, Keeps, Inv, Frame
    <2>9. Advances(o)
      <3>1. isDone(il[o]) => il'[o].complete = il[o].complete /\ il'[o].failed = il[o].failed
        BY <2>4, <2>6 DEF Keeps
      <3>2. il[o].complete \/ Vouched(o)
        BY <2>3, <2>4 DEF Takes, Vouched
      <3>3. ~(il'[o].complete /\ il'[o].failed)
        BY <2>4, <2>6 DEF Good
      <3>. QED  BY <1>1, <2>4, <3>1, <3>2, <3>3 DEF Advances
    <2>10. NoStray /\ AllValid => AllValid'
      <3>1. NoStray /\ Valid(il[o]) => Valid(t)
        BY <1>3, <2>3 DEF NoStray, Takes
      <3>. QED  BY <1>2, <2>4, <3>1 DEF AllValid, Others, Valid
    <2>11. Sound
      BY <1>2, <2>5, <2>9, <2>10 DEF Sound
    <2>12. cur # 0 => il'[cur].received = il[cur].received /\ il'[cur].dispatched = il[cur].dispatched
      BY <2>4, <2>6, CurObject DEF Others, Keeps
    <2>13. Fed'
      BY <1>1, <2>12, StillFed
    <2>. QED  BY <1>5, <1>6, <2>7, <2>8, <2>11, <2>13 DEF Inv
  <1>. QED  BY <1>7, <1>8

-----------------------------------------------------------------------------
(* The theorems *)

LEMMA InitInv == Init => Inv /\ Fed /\ AllValid
  <1>. SUFFICES ASSUME Init PROVE Inv /\ Fed /\ AllValid
    OBVIOUS
  <1>1. IsFcn(il, Objects) /\ \A o \in Objects : il[o] = Fresh("GENERIC")
    BY DEF Init, IsFcn
  <1>2. <<>> \in Seq(Packets)
    OBVIOUS
  <1>3. Ledgers
    BY <1>1, <1>2, FreshGood DEF Ledgers, Held
  <1>4. AllValid
    BY <1>1, FreshGood DEF AllValid
  <1>5. IsFcn(jobs, {"data", "pack"}) /\ jobs.data = 0
    BY DEF Init, IsFcn
  <1>6. IsFcn(pc, Threads) /\ IsFcn(at, Threads) /\ IsFcn(nodeIDs, Threads) /\ IsFcn(batch, Threads)
    BY DEF Init, IsFcn
  <1>7. Frame
    BY <1>5, <1>6 DEF Init, Frame
  <1>8. \A w \in Threads : Doing(w)
    BY <1>2 DEF Init, Doing
  <1>9. Fed
    BY DEF Init, Fed
  <1>. QED  BY <1>3, <1>4, <1>7, <1>8, <1>9 DEF Inv

LEMMA WorkStep == ASSUME Inv, Fed, NEW w \in Threads, Work(w) PROVE Inv' /\ Fed' /\ Sound
  <1>1. CASE gotFetchPack(w)
    BY <1>1, gotFetchPackStep
  <1>2. CASE \E o \in Objects, n \in Peers : TimerJobEntry(w, o, n)
    BY <1>2, TimerJobEntryStep
  <1>3. CASE \E o \in Objects : LADispatch(w, o)
    BY <1>3, LADispatchStep
  <1>4. CASE doLedgerData(w)
    BY <1>4, doLedgerDataStep
  <1>5. CASE runData(w)
    BY <1>5, runDataStep
  <1>6. CASE \E c \in BOOLEAN : process(w, c)
    BY <1>6, processStep
  <1>7. CASE triggerStart(w)
    BY <1>7, triggerStartStep
  <1>8. CASE getMissingNodes(w)
    BY <1>8, getMissingNodesStep
  <1>9. CASE triggerEnd(w)
    BY <1>9, triggerEndStep
  <1>10. CASE doneCheck(w)
    BY <1>10, doneCheckStep
  <1>11. CASE doneBody(w)
    BY <1>11, doneBodyStep
  <1>. QED  BY <1>1, <1>2, <1>3, <1>4, <1>5, <1>6, <1>7, <1>8, <1>9, <1>10, <1>11 DEF Work

LEMMA NextInv == ASSUME Inv, Fed, [Next]_vars PROVE Inv' /\ Fed' /\ Sound
  <1>1. CASE \E reason \in bound.reasons, n \in Peers : acquire(reason, n)
    BY <1>1, acquireStep
  <1>2. CASE sweep
    BY <1>2, sweepStep
  <1>3. CASE \E o \in Objects : release(o)
    BY <1>3, releaseStep
  <1>4. CASE \E pk \in Packets : gotLedgerData(pk)
    BY <1>4, gotLedgerDataStep
  <1>5. CASE gotData
    BY <1>5, gotDataStep
  <1>6. CASE \E items \in LocalData, announced \in BOOLEAN : arrive(items, announced)
    BY <1>6, arriveStep
  <1>7. CASE \E o \in Objects : TimerEntry(o)
    BY <1>7, TimerEntryStep
  <1>8. CASE \E w \in bound.threads : Work(w)
    <2>1. bound.threads \subseteq Threads
      BY BoundsAssumption DEF Inv, Frame
    <2>. QED  BY <1>8, <2>1, WorkStep
  <1>9. CASE UNCHANGED vars
    <2>1. UNCHANGED <<il, alive, cur, local, jobs, pc, at, batch, nodeIDs, reader, bound>>
      BY <1>9 DEF vars, bounds
    <2>2. /\ IsFcn(jobs', {"data", "pack"}) /\ jobs'.data = jobs.data
          /\ reader' = <<>> \/ reader' \in alive \X Packets
      BY <2>1 DEF Inv, Frame
    <2>. QED  BY <2>1, <2>2, OutsideStep
  <1>. QED  BY <1>1, <1>2, <1>3, <1>4, <1>5, <1>6, <1>7, <1>8, <1>9 DEF Next

\* What an acquisition believes it has is in the store, and whoever reads its queue
\* knows of it: the inductive invariant.
THEOREM Invariant == Spec => [](Inv /\ Fed)
  <1>1. Init => Inv /\ Fed
    BY InitInv
  <1>2. Inv /\ Fed /\ [Next]_vars => (Inv /\ Fed)'
    BY NextInv
  <1>. QED  BY <1>1, <1>2, PTL DEF Spec

\* Whatever replies the peers send, a ledger is reported complete only with its header
\* and every node of both trees in the store, or after one of its trees was found to be
\* invalid: the answer of a search made without the lock is never taken for more than
\* it says (InboundLedger.cpp:572-595, 655-668).
THEOREM WholeOrInvalidHolds == Spec => []WholeOrInvalid
  <1>1. Inv => WholeOrInvalid
    BY CompleteWhole DEF Inv, Ledgers, Held, WholeOrInvalid
  <1>. QED  BY <1>1, Invariant, PTL

\* Replies whose nodes lie inside their trees leave every tree valid, whatever else is
\* wrong with them.
THEOREM ValidHolds == ASSUME NoStray PROVE Spec => []AllValid
  <1>1. Init => AllValid
    BY InitInv
  <1>2. Inv /\ Fed /\ AllValid /\ [Next]_vars => AllValid'
    BY NextInv DEF Sound
  <1>. QED  BY <1>1, <1>2, Invariant, PTL DEF Spec

\* With such replies a ledger that is reported complete is whole in the store.
THEOREM CompleteHolds == ASSUME NoStray PROVE Spec => []CompleteIsWhole
  <1>1. WholeOrInvalid /\ AllValid => CompleteIsWhole
    BY DEF WholeOrInvalid, AllValid, CompleteIsWhole, Whole, WholeIn, Full
  <1>. QED  BY <1>1, WholeOrInvalidHolds, ValidHolds, PTL

\* What a peer's reply put in the queue of the acquisition in the collection will be
\* looked at: a job is queued, or a thread has yet to see the queue empty
\* (InboundLedger.cpp:1064-1077, 1218-1230).
THEOREM NotStranded == Spec => []NoStrandedData
  <1>1. Fed => NoStrandedData
    BY DEF Fed, NoStrandedData
  <1>. QED  BY <1>1, Invariant, PTL

LEMMA StatusIs ==
    /\ DOMAIN status = Objects
    /\ status = [o \in Objects |-> status[o]]
    /\ \A o \in Objects :
          status[o] = IF o \notin alive THEN "none"
                      ELSE IF il[o].failed /\ il[o].complete THEN "both"
                      ELSE IF il[o].failed THEN "failed"
                      ELSE IF il[o].complete THEN "complete" ELSE "active"
  BY DEF status

\* A step changes the status of one acquisition at most, as it may.
LEMMA SoundStep ==
    ASSUME Sound, AllValid'
    PROVE  [A!Next]_<<status, Whole>>
  <1>1. Whole => Whole'
    <2>1. WholeIn(local) => WholeIn(local')
      BY MoreIsGood DEF Sound
    <2>. QED  BY <2>1 DEF Whole, WholeIn, Full
  <1>2. A!Gather
    BY <1>1 DEF A!Gather
  <1>3. status' = [o \in Objects |-> status'[o]] /\ DOMAIN status' = Objects
    BY DEF status
  <1>4. \A o \in Objects :
          status'[o] = IF o \notin alive' THEN "none"
                       ELSE IF il'[o].failed /\ il'[o].complete THEN "both"
                       ELSE IF il'[o].failed THEN "failed"
                       ELSE IF il'[o].complete THEN "complete" ELSE "active"
    BY DEF status
  <1>5. ASSUME NEW o \in Objects, \A i \in Objects \ {o} : status'[i] = status[i]
        PROVE  status' = [status EXCEPT ![o] = status'[o]]
    BY <1>3, <1>5, StatusIs
  <1>6. CASE Rests
    <2>1. status' = status
      BY <1>6 DEF Rests, status
    <2>. QED  BY <1>2, <2>1 DEF A!Next
  <1>7. ASSUME NEW o \in Objects, Others(o), Vouched(o), status'[o] = "complete"
        PROVE  Whole
    <2>1. o \in alive' /\ il'[o].complete
      BY <1>4, <1>7
    <2>2. WholeIn(local)
      BY <1>7, <2>1 DEF Vouched, AllValid
    <2>. QED  BY <2>2 DEF Whole, WholeIn, Full
  <1>8. ASSUME NEW o \in Objects, Advances(o) PROVE A!Next
    <2>1. \A i \in Objects \ {o} : status'[i] = status[i]
      BY <1>4, <1>8, StatusIs DEF Advances, Others
    <2>2. CASE status'[o] = status[o]
      <3>1. status' = status
        BY <1>3, <2>1, <2>2, StatusIs
      <3>. QED  BY <1>2, <3>1 DEF A!Next
    <2>3. CASE status'[o] # status[o]
      <3>1. o \in alive /\ ~isDone(il[o])
        BY <1>4, <1>8, <2>3, StatusIs DEF Advances, isDone
      <3>2. status[o] = "active"
        BY <3>1, StatusIs DEF isDone
      <3>3. status'[o] \in {"complete", "failed"}
        BY <1>4, <1>8, <2>3, <3>2, StatusIs DEF Advances
      <3>4. status'[o] = "complete" => Whole
        BY <1>7, <1>8, <3>1 DEF Advances, isDone
      <3>5. A!Becomes(o, status'[o])
        BY <1>2, <1>5, <2>1, <3>4 DEF A!Becomes
      <3>. QED  BY <3>2, <3>3, <3>5 DEF A!Next, A!Finish
    <2>. QED  BY <2>2, <2>3
  <1>9. ASSUME NEW o \in Objects, Begins(o) PROVE A!Next
    <2>1. \A i \in Objects \ {o} : status'[i] = status[i]
      BY <1>4, <1>9, StatusIs DEF Begins, Others
    <2>2. status[o] = "none" /\ status'[o] \in {"active", "complete", "failed"}
      BY <1>4, <1>9, StatusIs DEF Begins
    <2>3. status'[o] = "complete" => Whole
      BY <1>7, <1>9 DEF Begins
    <2>4. A!Becomes(o, status'[o])
      BY <1>2, <1>5, <2>1, <2>3 DEF A!Becomes
    <2>. QED  BY <2>2, <2>4 DEF A!Next, A!Start
  <1>10. ASSUME NEW o \in Objects, Ends(o) PROVE A!Next
    <2>1. \A i \in Objects \ {o} : status'[i] = status[i]
      BY <1>4, <1>10, StatusIs DEF Ends, Others
    <2>2. status'[o] = "none"
      BY <1>4, <1>10 DEF Ends
    <2>3. A!Becomes(o, "none")
      BY <1>2, <1>5, <2>1, <2>2 DEF A!Becomes
    <2>. QED  BY <2>3 DEF A!Next, A!Forget
  <1>. QED  BY <1>6, <1>8, <1>9, <1>10 DEF Sound

\* The acquisition implements what its callers rely on: it ends once, complete or
\* failed, and complete only if the ledger was whole in the store by then.
THEOREM Acquires == ASSUME NoStray PROVE Spec => ImplementsAcquisition
  <1>1. Init => A!Init
    <2>. SUFFICES ASSUME Init PROVE A!Init
      OBVIOUS
    <2>1. status = [o \in Objects |-> "none"]
      BY DEF Init, status
    <2>2. Whole = FALSE
      BY DEF Init, Whole
    <2>. QED  BY <2>1, <2>2 DEF A!Init
  <1>2. Inv /\ Fed /\ AllValid' /\ [Next]_vars => [A!Next]_<<status, Whole>>
    BY NextInv, SoundStep
  <1>. QED  BY <1>1, <1>2, Invariant, ValidHolds, PTL DEF Spec, ImplementsAcquisition, A!Spec
=============================================================================
