--------------------------- MODULE InboundLedger ---------------------------
(***************************************************************************)
(* The acquisition of one ledger from the network: the timer of PeerSet    *)
(* (src/network/peers/PeerSet.cpp), the object that gathers header, state  *)
(* and transactions (src/ledger/InboundLedger.cpp) and the collection that *)
(* creates, feeds and sweeps such objects (src/ledger/InboundLedgers.cpp). *)
(*                                                                         *)
(* The ledger is a header and two trees, "as" and "tx", each a root with   *)
(* leaves below it.  Every node an acquisition takes is stored and every   *)
(* tree looks a missing node up in the store and the fetch packs, so what  *)
(* the trees hold below their roots is what is in "local".                 *)
(*                                                                         *)
(* mLock is recursive.  Under onTimer and init it is held throughout; a    *)
(* trigger called by runData really lets go of it twice: to look for the   *)
(* missing state nodes, and before done().  Those are the steps of a job.  *)
(***************************************************************************)
EXTENDS Integers, Sequences, FiniteSets

CONSTANTS
    Leaves,       \* Leaves[p]: the nodes of tree p below its root
    Empty,        \* the trees the header gives a zero hash
    Packets,      \* the TMLedgerData replies peers send
    LocalData,    \* sets of items that reach the store by another way
    Threads,      \* job queue threads that run this ledger's jobs
    ledgerTimeoutRetriesMax,
    ledgerBecomeAggressiveThreshold,
    deferAbove,   \* a timer is put off while more jtLEDGER_DATA jobs than this wait
    MaxObjects,   \* bound: InboundLedgers of the hash alive at a time
    Bounds        \* bounds to choose from: replies received, arrivals of local data,
                  \* sweeps, the threads that have jobs, the reasons to acquire

Reasons == {"HISTORY", "GENERIC", "VALIDATION", "CURRENT", "CONSENSUS"}
Parts == {"as", "tx"}
header == <<"header", "header">>
corrupt == <<"header", "corrupt">>    \* a stored object that is not this header
Root(p) == <<p, "root">>
Items == {header, corrupt} \cup {Root(p) : p \in Parts}
            \cup UNION {{p} \X Leaves[p] : p \in Parts}

ASSUME LeavesAssumption == \A p \in Parts : IsFiniteSet(Leaves[p])
ASSUME EmptyAssumption == Empty \subseteq {"tx"}
ASSUME PacketsAssumption ==
    Packets \subseteq [type : {"base"} \cup Parts, nodes : SUBSET Items,
                       bad : {"none", "corrupt", "oob"}]
ASSUME LocalAssumption == LocalData \subseteq SUBSET Items
ASSUME BoundsAssumption ==
    /\ ledgerTimeoutRetriesMax \in Nat /\ ledgerBecomeAggressiveThreshold \in Nat
    /\ deferAbove \in Nat /\ MaxObjects \in Nat
    /\ Bounds \subseteq [packets : Nat, arrivals : Nat, sweeps : Nat,
                        threads : SUBSET Threads, reasons : SUBSET Reasons]

Objects == 1..MaxObjects

VARIABLES
    il,        \* il[o]: an InboundLedger made for the hash
    alive,     \* the ones that have not been destroyed
    cur,       \* mLedgers: the one the hash maps to, 0 if none
    local,     \* the items in the node store and the fetch packs
    jobs,      \* waiting jtLEDGER_DATA jobs that are not tied to an object
    pc, at,    \* where a thread is in runData, and on which object
    batch,     \* data: the packets a thread swapped out of mReceivedData
    chosen,    \* chosenPeer is set
    nodeIDs,   \* the missing state nodes a thread found without the lock
    reader,    \* gotLedgerData between find and gotData
    bound,     \* the bounds chosen
    packets, arrivals, sweeps

bounds == <<bound, packets, arrivals, sweeps>>
vars == <<il, alive, cur, local, jobs, pc, at, batch, chosen, nodeIDs, reader,
          bounds>>

\* The InboundLedger as constructed, before init.
Fresh(reason) ==
    [reason |-> reason, header |-> FALSE, root |-> {}, have |-> {},
     map |-> [p \in Parts |-> "synching"], complete |-> FALSE, failed |-> FALSE,
     signaled |-> FALSE, progress |-> FALSE, aggressive |-> FALSE, byHash |-> TRUE,
     timeouts |-> 0, recent |-> {}, received |-> <<>>, dispatched |-> FALSE,
     timer |-> FALSE, timerJobs |-> 0, dispatches |-> 0,
     local |-> FALSE, accepted |-> FALSE, stored |-> FALSE, logged |-> FALSE]

isDone(s) == s.complete \/ s.failed

-----------------------------------------------------------------------------
(* What an acquisition does with its lock held: operators on its record.   *)

Missing(p, l) == ({p} \X Leaves[p]) \ l

\* getMissingNodes with nothing missing ends the tree's synching.
Synched(s, ps) == [s EXCEPT !.map = [p \in Parts |-> IF p \in ps THEN "modifying" ELSE @[p]]]

tryLocal(s, l) ==
    IF ~s.header /\ header \notin l /\ corrupt \notin l
    THEN s
    ELSE IF ~s.header /\ header \notin l
    THEN [s EXCEPT !.failed = TRUE]
    ELSE LET rooted == {p \in Parts \ s.have : p \in s.root \/ Root(p) \in l}
             full == Empty \cup {p \in rooted : Missing(p, l) = {}}
         IN  [Synched(s, full) EXCEPT !.header = TRUE, !.root = @ \cup rooted,
                                      !.have = @ \cup full,
                                      !.complete = @ \/ Parts = s.have \cup full]

\* Marks the ledger signalled, stores it or logs the failure, and queues LADispatch.
done_currentOnly(s) ==
    [s EXCEPT !.signaled = TRUE, !.dispatches = IF s.reason = "HISTORY" THEN @ ELSE @ + 1]

done(s) ==
    IF s.signaled
    THEN s
    ELSE LET good == s.complete /\ ~s.failed
         IN  [s EXCEPT !.signaled = TRUE, !.dispatches = @ + 1,
                       !.stored = @ \/ (good /\ s.reason # "HISTORY"),
                       !.logged = @ \/ ~good]

settled(s) == IF isDone(s) THEN done(s) ELSE s

checkLocal(s, l) == IF isDone(s) THEN s ELSE settled(tryLocal(s, l))

getNeededHashes(s, l) ==
    IF ~s.header THEN {header}
    ELSE UNION {IF p \in s.root THEN Missing(p, l) ELSE {Root(p)} : p \in Parts \ s.have}

\* filterNodes: prefer what was not asked for lately.
filterNodes(s, ids) ==
    IF ids \subseteq s.recent THEN (IF s.progress THEN {} ELSE ids) ELSE ids \ s.recent

-----------------------------------------------------------------------------
(* trigger, in the parts its lock releases leave.  Each gives the record   *)
(* and where to go on: "return", "missing", "tx" or "end".                 *)

\* An idle acquisition asks for the nodes by their hashes, if any is needed.
askByHash(s, l) ==
    LET seen == {p \in s.root \ s.have : Missing(p, l) = {}}
    IN  IF s.timeouts <= ledgerBecomeAggressiveThreshold \/ s.progress \/ ~s.byHash THEN s
        ELSE IF getNeededHashes(s, l) # {} THEN [Synched(s, seen) EXCEPT !.byHash = FALSE]
        ELSE [Synched(s, seen) EXCEPT !.have = Parts, !.complete = TRUE]

\* Is there a state tree to search?
stateTree(s) ==
    IF ~s.header THEN <<s, "return">>
    ELSE IF "as" \in s.have THEN <<s, "tx">>
    ELSE IF s.map["as"] = "invalid" THEN <<[s EXCEPT !.failed = TRUE], "tx">>
    ELSE IF "as" \notin s.root THEN <<s, "return">>
    ELSE <<s, "missing">>

\* Up to the search for missing state nodes.
afterLocal(s, l) == IF s.failed THEN <<s, "return">> ELSE stateTree(askByHash(s, l))

triggerHead(s, l) ==
    IF isDone(s) THEN <<s, "return">>
    ELSE afterLocal(IF s.header THEN s ELSE tryLocal(s, l), l)

\* What the answer for tree p leads to: the tree is complete, a request, or neither.
\* ids are the missing nodes found, and the lock is held.
gotMissing_filteredFirst(s, p, ids) ==
    LET sent == IF s.aggressive THEN ids ELSE filterNodes(s, ids)
    IN  IF sent = {}
        THEN <<[s EXCEPT !.have = @ \cup {p}, !.complete = @ \/ Parts = s.have \cup {p}], "tx">>
        ELSE <<[s EXCEPT !.recent = @ \cup sent], "return">>

gotMissing(s, p, ids) ==
    LET sent == IF s.aggressive THEN ids ELSE filterNodes(s, ids)
    IN  IF ids = {}
        THEN IF s.map[p] = "invalid"
             THEN <<[s EXCEPT !.failed = TRUE], "tx">>
             ELSE <<[s EXCEPT !.have = @ \cup {p}, !.complete = @ \/ Parts = s.have \cup {p}],
                    "tx">>
        ELSE IF sent # {}
        THEN <<[s EXCEPT !.recent = IF s.aggressive THEN @ ELSE @ \cup sent], "return">>
        ELSE <<s, "tx">>

\* The lock is held again: go on only if nothing happened meanwhile.
afterMissing_unchecked(s, ids) == gotMissing(s, "as", ids)

afterMissing(s, ids) ==
    IF s.failed \/ s.complete \/ "as" \in s.have THEN <<s, "tx">> ELSE gotMissing(s, "as", ids)

txEnd(r) == <<r[1], IF r[2] = "tx" THEN "end" ELSE r[2]>>

triggerTx(s, l) ==
    IF "tx" \in s.have \/ s.failed THEN <<s, "end">>
    ELSE IF s.map["tx"] = "invalid" THEN <<[s EXCEPT !.failed = TRUE], "end">>
    ELSE IF "tx" \notin s.root THEN <<s, "return">>
    ELSE LET ids == Missing("tx", l)
         IN  txEnd(gotMissing(IF ids = {} THEN Synched(s, {"tx"}) ELSE s, "tx", ids))

\* getMissingNodes on the state tree.
searched(s, l) == IF Missing("as", l) = {} THEN Synched(s, {"as"}) ELSE s

\* The transactions follow, unless a request for state was sent.
triggerTail(r, l) == IF r[2] = "tx" THEN triggerTx(r[1], l) ELSE r

\* trigger by a caller that holds mLock already: in one step, done() included.
stateFound(h, l) ==
    IF h[2] = "missing" THEN afterMissing(searched(h[1], l), Missing("as", l)) ELSE h

triggered(r) == IF r[2] = "end" THEN settled(r[1]) ELSE r[1]

trigger(s, l) == triggered(triggerTail(stateFound(triggerHead(s, l), l), l))

\* selectPeers finds n peers the set does not have; each one is asked unless the
\* ledger is wanted for history.
second(s, l, n) == IF n > 1 THEN trigger(s, l) ELSE s

addPeers(s, l, n) ==
    IF s.reason = "HISTORY" \/ n = 0 THEN s ELSE second(trigger(s, l), l, n)

afterInit(s, l, n) ==
    IF ~s.complete /\ ~s.failed THEN [addPeers(s, l, n) EXCEPT !.timer = TRUE]
    ELSE IF s.failed THEN s
    ELSE [s EXCEPT !.local = TRUE, !.stored = s.reason # "HISTORY",
                   !.accepted = s.reason \in {"VALIDATION", "CURRENT", "CONSENSUS"}]

init(s, l, n) == afterInit(tryLocal(s, l), l, n)

\* Peers are added before the request for history, and after any other.
askAgain(s, l, n) ==
    IF s.reason = "HISTORY" THEN trigger(addPeers(s, l, n), l)
    ELSE addPeers(trigger(s, l), l, n)

onTimer(s, l, n, wasProgress) ==
    IF s.timeouts > ledgerTimeoutRetriesMax THEN done([s EXCEPT !.recent = {}, !.failed = TRUE])
    ELSE IF wasProgress THEN [s EXCEPT !.recent = {}]
    ELSE askAgain([checkLocal([s EXCEPT !.recent = {}], l) EXCEPT !.aggressive = TRUE,
                                                                  !.byHash = TRUE], l, n)

\* The timer is set again until the acquisition is done.
setTimer(s) == IF isDone(s) THEN s ELSE [s EXCEPT !.timer = TRUE]

invokeOnTimer_idleOnly(s, l, n) ==
    IF isDone(s) THEN s
    ELSE IF s.progress THEN onTimer([s EXCEPT !.progress = FALSE], l, n, TRUE)
    ELSE setTimer(onTimer([s EXCEPT !.timeouts = @ + 1], l, n, FALSE))

invokeOnTimer(s, l, n) ==
    IF isDone(s) THEN s
    ELSE setTimer(onTimer(IF s.progress THEN [s EXCEPT !.progress = FALSE]
                          ELSE [s EXCEPT !.timeouts = @ + 1], l, n, s.progress))

-----------------------------------------------------------------------------
(* processData: a reply to one of our requests.                            *)

progress(s) == [s EXCEPT !.progress = TRUE, !.aggressive = FALSE]

\* A "base" reply: the header, then the roots that came with it.
takeBase(s, pk) ==
    LET t == IF s.header \/ isDone(s) THEN s
             ELSE [s EXCEPT !.header = TRUE, !.have = @ \cup Empty]
        roots == {p \in Parts \ t.have : Root(p) \in pk.nodes}
    IN  IF ~s.header /\ ~isDone(s) /\ header \notin pk.nodes THEN s
        ELSE progress(IF t.failed THEN t ELSE [t EXCEPT !.root = @ \cup roots])

\* The nodes of a "base" reply that are stored.
baseStored(s, pk) ==
    IF isDone(s) \/ (~s.header /\ header \notin pk.nodes) THEN {} ELSE pk.nodes

\* Does the bad node of the reply count against it?  Not if its place is taken.
badHit(s, l, p, pk) ==
    pk.bad # "none" /\ s.map[p] = "synching" /\ ~(Missing(p, l) \subseteq pk.nodes)

hooked(s, p, pk) == p \in s.root \/ Root(p) \in pk.nodes

\* A tree that is no longer synching counts as present.
gotTree(s, p) ==
    IF s.map[p] = "synching" THEN s
    ELSE IF Parts = s.have \cup {p}
    THEN done([s EXCEPT !.have = Parts, !.complete = TRUE])
    ELSE [s EXCEPT !.have = @ \cup {p}]

\* The good nodes first, then the bad one, if it is hit.  An out-of-bounds node makes
\* the tree invalid, and an invalid tree is no longer synching.
addNodes(s, p, pk, hit) ==
    LET t == [s EXCEPT !.root = IF Root(p) \in pk.nodes THEN @ \cup {p} ELSE @,
                       !.map[p] = IF hit /\ pk.bad = "oob" THEN "invalid" ELSE @]
    IN  IF hit /\ pk.bad = "corrupt" /\ Cardinality(pk.nodes) <= 1 THEN t
        ELSE progress(gotTree(t, p))

\* A reply with nodes of tree p.
takeNodes(s, l, p, pk) ==
    IF ~s.header THEN s
    ELSE IF p \in s.have \/ s.failed THEN progress(s)
    ELSE IF ~hooked(s, p, pk) THEN s
    ELSE addNodes(s, p, pk, badHit(s, l, p, pk))

nodesStored(s, p, pk) ==
    IF s.header /\ p \notin s.have /\ ~s.failed /\ hooked(s, p, pk) THEN pk.nodes ELSE {}

processData(s, l, pk) == IF pk.type = "base" THEN takeBase(s, pk) ELSE takeNodes(s, l, pk.type, pk)

processStored(s, pk) == IF pk.type = "base" THEN baseStored(s, pk) ELSE nodesStored(s, pk.type, pk)

-----------------------------------------------------------------------------
(* The collection, the jobs and the timer.                                 *)

Init ==
    /\ il = [o \in Objects |-> Fresh("GENERIC")]
    /\ alive = {}
    /\ cur = 0
    /\ local = {}
    /\ jobs = [data |-> 0, pack |-> 0]
    /\ pc = [w \in Threads |-> "idle"]
    /\ at = [w \in Threads |-> 0]
    /\ batch = [w \in Threads |-> <<>>]
    /\ chosen = [w \in Threads |-> FALSE]
    /\ nodeIDs = [w \in Threads |-> {}]
    /\ reader = <<>>
    /\ bound \in Bounds
    /\ packets = 0
    /\ arrivals = 0
    /\ sweeps = 0

threads == <<pc, at, batch, chosen, nodeIDs>>

\* InboundLedgers::acquire of a hash that is not in the collection.  For one that is,
\* it only touches the object and returns the ledger.
acquire(reason, n) ==
    /\ cur = 0
    /\ \E o \in Objects \ alive :
          /\ \A i \in Objects \ alive : o <= i
          /\ cur' = o
          /\ alive' = alive \cup {o}
          /\ il' = [il EXCEPT ![o] = init(Fresh(reason), local, n)]
    /\ UNCHANGED <<local, jobs, threads, reader, bounds>>

\* Something besides the collection holds the object: a job, a thread or the reader.
\* Its timer has only a weak pointer to it.
Referenced(o) ==
    \/ il[o].timerJobs > 0 \/ il[o].dispatches > 0
    \/ \E w \in Threads : at[w] = o
    \/ reader # <<>> /\ reader[1] = o

\* ~InboundLedger.  gotStaleData: state nodes nobody processed go to the fetch packs.
destroy(o) ==
    /\ local' = local \cup UNION {il[o].received[i].nodes :
                        i \in {j \in DOMAIN il[o].received : il[o].received[j].type = "as"}}
    /\ alive' = alive \ {o}
    /\ il' = [il EXCEPT ![o] = Fresh("GENERIC")]

\* sweep (a minute without a touch), dropLedger or clearFailures.
sweep ==
    /\ cur # 0 /\ sweeps < bound.sweeps
    /\ cur' = 0
    /\ sweeps' = sweeps + 1
    /\ IF Referenced(cur) THEN UNCHANGED <<il, alive, local>> ELSE destroy(cur)
    /\ UNCHANGED <<jobs, threads, reader, bound, packets, arrivals>>

\* The last job or thread that held a swept object lets go of it.
release(o) ==
    /\ o \in alive /\ o # cur /\ ~Referenced(o)
    /\ destroy(o)
    /\ UNCHANGED <<cur, jobs, threads, reader, bounds>>

\* gotLedgerData: find the acquisition.  State nodes nobody wants are stashed.
gotLedgerData(pk) ==
    /\ reader = <<>> /\ packets < bound.packets
    /\ packets' = packets + 1
    /\ reader' = IF cur = 0 THEN <<>> ELSE <<cur, pk>>
    /\ local' = IF cur = 0 /\ pk.type = "as" THEN local \cup pk.nodes ELSE local
    /\ UNCHANGED <<il, alive, cur, jobs, threads, bound, arrivals, sweeps>>

\* InboundLedger::gotData, and the job it asks for.
gotData ==
    /\ reader # <<>>
    /\ LET o == reader[1]
       IN  /\ il' = [il EXCEPT ![o].received = Append(@, reader[2]), ![o].dispatched = TRUE]
           /\ jobs' = IF il[o].dispatched THEN jobs ELSE [jobs EXCEPT !.data = @ + 1]
    /\ reader' = <<>>
    /\ UNCHANGED <<alive, cur, local, threads, bounds>>

\* Another acquisition, or a fetch pack (which is announced by a job), brings nodes.
arrive(items, announced) ==
    /\ arrivals < bound.arrivals
    /\ arrivals' = arrivals + 1
    /\ local' = local \cup items
    /\ jobs' = IF announced THEN [jobs EXCEPT !.pack = @ + 1] ELSE jobs
    /\ UNCHANGED <<il, alive, cur, threads, reader, bound, packets, sweeps>>

\* The job of gotFetchPack.
gotFetchPack(w) ==
    /\ pc[w] = "idle" /\ jobs.pack > 0
    /\ jobs' = [jobs EXCEPT !.pack = @ - 1]
    /\ il' = IF cur = 0 THEN il ELSE [il EXCEPT ![cur] = checkLocal(@, local)]
    /\ UNCHANGED <<alive, cur, local, threads, reader, bounds>>

jobCount ==
    jobs.data + jobs.pack + Cardinality({w \in Threads : pc[w] # "idle"})
        + Cardinality({o \in Objects : il[o].timerJobs > 0})
        + Cardinality({o \in Objects : il[o].dispatches > 0})

\* PeerSet::TimerEntry.  With too many jobs waiting the timer is set again.
TimerEntry(o) ==
    /\ il[o].timer /\ (o = cur \/ Referenced(o))
    /\ jobCount <= deferAbove
    /\ il' = [il EXCEPT ![o].timer = FALSE, ![o].timerJobs = @ + 1]
    /\ UNCHANGED <<alive, cur, local, jobs, threads, reader, bounds>>

\* PeerSet::TimerJobEntry.
TimerJobEntry(w, o, n) ==
    /\ pc[w] = "idle" /\ il[o].timerJobs > 0
    /\ il' = [il EXCEPT ![o] = invokeOnTimer([il[o] EXCEPT !.timerJobs = @ - 1], local, n)]
    /\ UNCHANGED <<alive, cur, local, jobs, threads, reader, bounds>>

\* The job done() queued: checkAccept and tryAdvance for a ledger that is complete.
LADispatch(w, o) ==
    /\ pc[w] = "idle" /\ il[o].dispatches > 0
    /\ il' = [il EXCEPT ![o].dispatches = @ - 1,
                        ![o].accepted = @ \/ (il[o].complete /\ ~il[o].failed)]
    /\ UNCHANGED <<alive, cur, local, jobs, threads, reader, bounds>>

go(w, where) == pc' = [pc EXCEPT ![w] = where]

leave(w) ==
    /\ go(w, "idle")
    /\ at' = [at EXCEPT ![w] = 0]
    /\ chosen' = [chosen EXCEPT ![w] = FALSE]

\* The job of gotLedgerData: it looks the hash up again.
doLedgerData(w) ==
    /\ pc[w] = "idle" /\ jobs.data > 0
    /\ jobs' = [jobs EXCEPT !.data = @ - 1]
    /\ IF cur = 0 THEN UNCHANGED <<pc, at>> ELSE go(w, "run") /\ at' = [at EXCEPT ![w] = cur]
    /\ UNCHANGED <<il, alive, cur, local, batch, chosen, nodeIDs, reader, bounds>>

\* The top of runData's loop, under mReceivedDataLock.
runData_oneBatch(w) ==
    /\ pc[w] = "run" /\ batch[w] = <<>>
    /\ IF chosen[w] \/ il[at[w]].received = <<>>
       THEN /\ il' = [il EXCEPT ![at[w]].dispatched = FALSE]
            /\ go(w, "trigger")
            /\ UNCHANGED batch
       ELSE /\ batch' = [batch EXCEPT ![w] = il[at[w]].received]
            /\ il' = [il EXCEPT ![at[w]].received = <<>>]
            /\ UNCHANGED pc
    /\ UNCHANGED <<alive, cur, local, jobs, at, chosen, nodeIDs, reader, bounds>>

runData(w) ==
    /\ pc[w] = "run" /\ batch[w] = <<>>
    /\ LET o == at[w]
       IN  IF il[o].received = <<>>
           THEN /\ il' = [il EXCEPT ![o].dispatched = FALSE]
                /\ IF chosen[w] THEN go(w, "trigger") /\ UNCHANGED <<at, chosen>> ELSE leave(w)
                /\ UNCHANGED batch
           ELSE /\ batch' = [batch EXCEPT ![w] = il[o].received]
                /\ il' = [il EXCEPT ![o].received = <<>>]
                /\ UNCHANGED <<pc, at, chosen>>
    /\ UNCHANGED <<alive, cur, local, jobs, nodeIDs, reader, bounds>>

\* One packet of the batch; its peer may be gone by now.
process(w, connected) ==
    /\ pc[w] = "run" /\ batch[w] # <<>>
    /\ LET o == at[w]
           pk == Head(batch[w])
       IN  IF connected
           THEN /\ il' = [il EXCEPT ![o] = processData(@, local, pk)]
                /\ local' = local \cup processStored(il[o], pk)
                /\ chosen' = [chosen EXCEPT ![w] = TRUE]
           ELSE UNCHANGED <<il, local, chosen>>
    /\ batch' = [batch EXCEPT ![w] = Tail(@)]
    /\ UNCHANGED <<alive, cur, jobs, pc, at, nodeIDs, reader, bounds>>

\* Where trigger goes with result r: it returns, lets go of the lock, or ends.
proceed(w, r) ==
    /\ il' = [il EXCEPT ![at[w]] = r[1]]
    /\ IF r[2] = "missing" \/ (r[2] = "end" /\ isDone(r[1]))
       THEN go(w, r[2]) /\ UNCHANGED <<at, chosen>>
       ELSE leave(w)

triggerStart(w) ==
    /\ pc[w] = "trigger"
    /\ proceed(w, triggerTail(triggerHead(il[at[w]], local), local))
    /\ UNCHANGED <<alive, cur, local, jobs, batch, nodeIDs, reader, bounds>>

\* The search for missing state nodes, without the lock.
getMissingNodes(w) ==
    /\ pc[w] = "missing"
    /\ nodeIDs' = [nodeIDs EXCEPT ![w] = Missing("as", local)]
    /\ il' = [il EXCEPT ![at[w]] = searched(@, local)]
    /\ go(w, "relock")
    /\ UNCHANGED <<alive, cur, local, jobs, at, batch, chosen, reader, bounds>>

triggerEnd(w) ==
    /\ pc[w] = "relock"
    /\ proceed(w, triggerTail(afterMissing(il[at[w]], nodeIDs[w]), local))
    /\ nodeIDs' = [nodeIDs EXCEPT ![w] = {}]
    /\ UNCHANGED <<alive, cur, local, jobs, batch, reader, bounds>>

\* done() after the lock was given up: mSignaled is read here, and set with all that
\* follows in the next step.
doneCheck(w) ==
    /\ pc[w] = "end"
    /\ IF il[at[w]].signaled THEN leave(w) ELSE go(w, "done") /\ UNCHANGED <<at, chosen>>
    /\ UNCHANGED <<il, alive, cur, local, jobs, batch, nodeIDs, reader, bounds>>

doneBody(w) ==
    /\ pc[w] = "done"
    /\ il' = [il EXCEPT ![at[w]] = done([@ EXCEPT !.signaled = FALSE])]
    /\ leave(w)
    /\ UNCHANGED <<alive, cur, local, jobs, batch, nodeIDs, reader, bounds>>

Peers == 0..2

Work(w) ==
    \/ gotFetchPack(w)
    \/ \E o \in Objects, n \in Peers : TimerJobEntry(w, o, n)
    \/ \E o \in Objects : LADispatch(w, o)
    \/ doLedgerData(w)
    \/ runData(w)
    \/ \E c \in BOOLEAN : process(w, c)
    \/ triggerStart(w)
    \/ getMissingNodes(w)
    \/ triggerEnd(w)
    \/ doneCheck(w)
    \/ doneBody(w)

Next ==
    \/ \E reason \in bound.reasons, n \in Peers : acquire(reason, n)
    \/ sweep
    \/ \E o \in Objects : release(o)
    \/ \E pk \in Packets : gotLedgerData(pk)
    \/ gotData
    \/ \E items \in LocalData, announced \in BOOLEAN : arrive(items, announced)
    \/ \E o \in Objects : TimerEntry(o)
    \/ \E w \in bound.threads : Work(w)

Spec == Init /\ [][Next]_vars

\* A job is waiting, and one is taken off the queue.
Waiting ==
    jobs.data > 0 \/ jobs.pack > 0 \/ \E o \in Objects : il[o].timerJobs > 0 \/ il[o].dispatches > 0
Taken ==
    \/ jobs'.data < jobs.data \/ jobs'.pack < jobs.pack
    \/ \E o \in Objects : il'[o].timerJobs < il[o].timerJobs \/ il'[o].dispatches < il[o].dispatches

Moves(w) == pc'[w] # pc[w] \/ batch'[w] # batch[w]

\* Weak fairness of the job queue, told by what its steps change: while jobs wait some
\* are taken, and a thread inside a job goes on.  Timers go off.  Peers owe nothing.
Fairness ==
    /\ WF_vars(gotData)
    /\ []<>~Waiting \/ []<><<Taken>>_vars
    /\ \A w \in Threads : []<>(pc[w] = "idle") \/ []<><<Moves(w)>>_vars
    /\ \A o \in Objects : WF_vars(TimerEntry(o))

FairSpec == Spec /\ Fairness

-----------------------------------------------------------------------------
TypeOK ==
    /\ alive \subseteq Objects /\ cur \in alive \cup {0}
    /\ local \subseteq Items
    /\ pc \in [Threads -> {"idle", "run", "trigger", "missing", "relock", "end", "done"}]
    /\ at \in [Threads -> alive \cup {0}]
    /\ \A o \in Objects : /\ il[o].have \subseteq Parts /\ il[o].root \subseteq Parts
                          /\ il[o].timeouts \in Nat /\ il[o].recent \subseteq Items

\* A ledger is reported complete only when its header and every node of both trees
\* are in the store: the answer of a search made without the lock, the by-hash check
\* and the filtering of requests never let a part pass for complete that is not
\* (InboundLedger.cpp:490, 572-595, 655-668).
Whole == header \in local /\ \A p \in Parts \ Empty : Root(p) \in local /\ Missing(p, local) = {}
CompleteIsWhole == \A o \in Objects : il[o].complete => Whole

\* Whatever a peer's reply put in mReceivedData of the acquisition in the collection
\* will be looked at: a job is queued for it or a thread has yet to see the queue
\* empty, also when the job was queued for a predecessor that was swept
\* (InboundLedger.cpp:1064-1077, 1218-1230, InboundLedgers.cpp:212).
NoStrandedData ==
    cur # 0 /\ il[cur].received # <<>> =>
        jobs.data > 0 \/ \E w \in Threads : at[w] = cur /\ pc[w] = "run"

\* A tree that is made immutable with a completed ledger is not one known to be
\* invalid, as SHAMap::setImmutable asserts (SHAMap.h:293).
ImmutableIsValid ==
    \A o \in Objects : il[o].signaled /\ ~il[o].failed => \A p \in Parts : il[o].map[p] # "invalid"

status ==
    [o \in Objects |-> IF o \notin alive THEN "none"
                      ELSE IF il[o].failed /\ il[o].complete THEN "both"
                      ELSE IF il[o].failed THEN "failed"
                      ELSE IF il[o].complete THEN "complete" ELSE "active"]

\* The acquisition does what its callers rely on (module Acquisition): it ends once,
\* whatever a thread that was inside trigger meanwhile finds when it has the lock
\* again, and it ends as complete only with the ledger whole (InboundLedger.cpp:578).
A == INSTANCE Acquisition WITH Acquirers <- Objects, status <- status, whole <- Whole
ImplementsAcquisition == A!Spec

\* An acquisition that stays in the collection completes or fails, even if no peer
\* ever answers: the timer is set again until it does (PeerSet.cpp:83-105).
EventuallyDone == cur # 0 ~> (cur = 0 \/ isDone(il[cur]))

\* A ledger completed by the acquisition, rather than found when it began, reaches
\* checkAccept, whichever of the threads in trigger notices (InboundLedger.cpp:705-710).
Undelivered == \E o \in Objects : il[o].complete /\ ~il[o].local /\ ~il[o].accepted
CompleteDelivered == Undelivered ~> ~Undelivered
=============================================================================
