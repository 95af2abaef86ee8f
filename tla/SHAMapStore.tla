------------------------------ MODULE SHAMapStore ------------------------------
(***************************************************************************)
(* Online deletion: the rotation thread of SHAMapStoreImp, the two          *)
(* rotating backends of the node store (DatabaseRotatingImp), the fetch and *)
(* store paths of DatabaseImp that run beside it, the BatchWriter of a      *)
(* RocksDB backend, the saved state, and a crash and restart at any point.  *)
(*                                                                         *)
(* The node store is seen through the hashes it holds: the account state    *)
(* map of ledger s is the set nodesOf[s] of nodes.  Closing ledger s stores *)
(* the nodes that ledger s-1 did not have, one at a time.                   *)
(***************************************************************************)
EXTENDS Naturals, FiniteSets

CONSTANTS Node,          \* the hashes of tree nodes
          LastLedger,    \* bound: at most ledgers 1..LastLedger close
          nodesOf,       \* the nodes of each ledger's account state map
          Backend,       \* names of backend directories
          none,          \* no backend, the empty name of the saved state
          Fetcher,       \* threads that fetch: callers and read threads
          deleteBatch,         \* setup_.deleteBatch
          checkHealthInterval, \* checkHealthInterval_
          Setups         \* configurations, with the bounds of the instance

Ledger == 1..LastLedger
Tables == 1..3    \* Ledgers, Transactions, AccountTransactions

ASSUME StoreAssumption ==
    /\ LastLedger \in Nat
    /\ nodesOf \in [0..LastLedger -> SUBSET Node]
    /\ nodesOf[0] = {}
    /\ none \notin Backend
    /\ \E p, q \in Backend : p # q
    /\ deleteBatch \in Nat \ {0}
    /\ checkHealthInterval \in Nat \ {0}
    /\ \A s \in Setups : /\ s.deleteInterval \in Nat \ {0}
                          /\ s.advisoryDelete \in BOOLEAN /\ s.batched \in BOOLEAN
                          /\ s.ledgers \in 0..LastLedger

VARIABLES
    setup,         \* the configuration (a member of Setups)
    \* on disk
    dirs,          \* backend directories that exist
    disk,          \* disk[b]: the nodes written to backend b
    saved,         \* the state database: writable, archive, lastRotated, canDelete
    cleared,       \* cleared[t]: rows of table t below this sequence are deleted
    \* the node store
    writable,      \* writableBackend_
    archive,       \* archiveBackend_
    pending,       \* pending[b]: accepted by b's BatchWriter, not yet written
    cache,         \* m_cache
    negCache,      \* m_negCache
    fetcher,       \* fetcher[w]: where the fetch of thread w is
    \* the rest of the server
    phase,         \* "down", "paths", "opened", "up"
    built,         \* the last ledger closed, with all its nodes stored
    writer,        \* the thread that closes ledgers: pc, key, db, unsaved nodes
    validated,     \* the last ledger passed to onLedgerClosed
    sound,         \* omFULL, and the validated ledger is recent
    complete,      \* mCompleteLedgers
    \* SHAMapStoreImp
    run,           \* the rotation thread: pc and the locals of run()
    newLedger,     \* newLedger_ (0: null)
    notified,      \* cond_ was notified while the thread waits
    stop,          \* stop_
    canDelete,     \* canDelete_
    \* history
    lost,          \* nodes accepted by a BatchWriter and lost in a crash
    allowed,       \* the highest ledger ever passed to setCanDelete
    count          \* what has been spent of the bounds of setup

store == <<dirs, disk, writable, archive, pending>>
server == <<phase, built, writer, validated, sound, complete>>
imp == <<run, newLedger, notified, stop, canDelete>>
vars == <<setup, store, saved, cleared, cache, negCache, fetcher, server, imp,
          lost, allowed, count>>

Unlimited == LastLedger + 1     \* numeric_limits<LedgerIndex>::max()

Idle == [pc |-> "idle", key |-> none, db |-> none, live |-> FALSE]
Quiet == [pc |-> "idle", key |-> none, db |-> none, unsaved |-> {}]
Thread0 == [pc |-> "top", ledger |-> 0, lastRotated |-> 0, healthy |-> TRUE,
            left |-> {}, visited |-> 0, table |-> 1, newDb |-> none, oldDb |-> none]

Spend(what) == /\ count[what] < setup[what]
               /\ count' = [count EXCEPT ![what] = @ + 1]

\* The nodes a backend has accepted.
Held(b) == IF b = none THEN {} ELSE disk[b] \cup pending[b]

Init ==
    /\ setup \in Setups
    /\ dirs = {} /\ disk = [b \in Backend |-> {}]
    /\ saved = [writable |-> none, archive |-> none, lastRotated |-> 0, canDelete |-> 0]
    /\ cleared = [t \in Tables |-> 1]
    /\ writable = none /\ archive = none
    /\ pending = [b \in Backend |-> {}]
    /\ cache = {} /\ negCache = {}
    /\ fetcher = [w \in Fetcher |-> Idle]
    /\ phase = "down" /\ built = 0 /\ writer = Quiet /\ validated = 0
    /\ sound = TRUE /\ complete = {}
    /\ run = Thread0 /\ newLedger = 0 /\ notified = FALSE /\ stop = FALSE
    /\ canDelete = Unlimited
    /\ lost = {} /\ allowed = 0
    /\ count = [fetches |-> 0, crashes |-> 0, flips |-> 0, stops |-> 0, permits |-> 0,
                sweeps |-> 0]

--------------------------------------------------------------------------------
(* Starting up: the constructor, makeDatabase, onStart.                        *)

\* Directories that the saved state does not name are removed.  A saved name
\* without its directory is the "state db error" that stops the server.
dbPathsAgree == {saved.writable, saved.archive} \subseteq dirs \cup {none}

\* Mutant: the directory of the archive is taken for a leftover.
dbPaths_writableOnly ==
    /\ phase = "down" /\ dbPathsAgree
    /\ dirs' = dirs \cap {saved.writable}
    /\ phase' = "paths"
    /\ UNCHANGED <<setup, disk, writable, archive, pending, saved, cleared, cache,
                   negCache, fetcher, built, writer, validated, sound, complete,
                   imp, lost, allowed, count>>

dbPaths ==
    /\ phase = "down" /\ dbPathsAgree
    /\ dirs' = dirs \cap {saved.writable, saved.archive}
    /\ phase' = "paths"
    /\ UNCHANGED <<setup, disk, writable, archive, pending, saved, cleared, cache,
                   negCache, fetcher, built, writer, validated, sound, complete,
                   imp, lost, allowed, count>>

FreshDb == CHOOSE b \in Backend : b \notin dirs
FreshPair == CHOOSE p \in Backend \X Backend :
                 p[1] # p[2] /\ p[1] \notin dirs /\ p[2] \notin dirs

\* makeDatabase opens the two backends that are named, or makes two.
openBackends ==
    /\ phase = "paths"
    /\ \E p \in {IF saved.writable = none THEN FreshPair
                 ELSE <<saved.writable, saved.archive>>} :
          /\ writable' = p[1] /\ archive' = p[2]
          /\ dirs' = dirs \cup {p[1], p[2]}
          /\ disk' = [b \in Backend |->
                         IF b \in dirs' \ dirs THEN {} ELSE disk[b]]
    /\ phase' = "opened"
    /\ UNCHANGED <<setup, pending, saved, cleared, cache, negCache, fetcher, built,
                   writer, validated, sound, complete, imp, lost, allowed, count>>

\* makeDatabase saves new names; run() then reads its locals from the saved state.
onStart ==
    /\ phase = "opened"
    /\ saved' = [saved EXCEPT !.writable = writable, !.archive = archive]
    /\ run' = [Thread0 EXCEPT !.lastRotated = saved.lastRotated]
    /\ canDelete' = IF setup.advisoryDelete THEN saved.canDelete ELSE Unlimited
    /\ phase' = "up"
    /\ UNCHANGED <<setup, store, cleared, cache, negCache, fetcher, built, writer,
                   validated, sound, complete, newLedger, notified, stop, lost,
                   allowed, count>>

\* The process ends at any point: what is in memory, the batches that were not
\* written and the ledger being closed are gone.
Crashed ==
    /\ phase' = "down"
    /\ pending' = [b \in Backend |-> {}]
    /\ lost' = lost \cup UNION {pending[b] \ disk[b] : b \in Backend}
    /\ writable' = none /\ archive' = none /\ cache' = {} /\ negCache' = {}
    /\ fetcher' = [w \in Fetcher |-> Idle] /\ writer' = Quiet
    /\ complete' = {} /\ newLedger' = 0 /\ notified' = FALSE /\ stop' = FALSE
    /\ run' = Thread0 /\ canDelete' = Unlimited
    /\ UNCHANGED <<setup, dirs, disk, saved, cleared, built, validated, sound, allowed>>

crash == phase # "down" /\ Spend("crashes") /\ Crashed

--------------------------------------------------------------------------------
(* The node store.                                                             *)

\* Backend::store: RocksDB queues the object in its BatchWriter, NuDB inserts it.
Accept(b, S) ==
    IF setup.batched
    THEN pending' = [pending EXCEPT ![b] = @ \cup S] /\ UNCHANGED disk
    ELSE disk' = [disk EXCEPT ![b] = @ \cup S] /\ UNCHANGED pending

\* BatchWriter::writeBatch: the queue is swapped out and written.
writeBatch(b) ==
    /\ phase = "up" /\ pending[b] # {} /\ b \in dirs
    /\ disk' = [disk EXCEPT ![b] = @ \cup pending[b]]
    /\ pending' = [pending EXCEPT ![b] = {}]
    /\ UNCHANGED <<setup, dirs, writable, archive, saved, cleared, cache, negCache,
                   fetcher, server, imp, lost, allowed, count>>

\* rotateMutex_ is held from the saving of the state to the rotation.
Unlocked == run.pc # "locked"

\* TaggedCache::sweep and KeyCache::sweep let an entry expire.
sweep ==
    /\ phase = "up" /\ Spend("sweeps")
    /\ \/ \E n \in cache : cache' = cache \ {n} /\ UNCHANGED negCache
       \/ \E n \in negCache : negCache' = negCache \ {n} /\ UNCHANGED cache
    /\ UNCHANGED <<setup, store, saved, cleared, fetcher, server, imp, lost, allowed>>

\* DatabaseImp::storeInternal, one node of the ledger being closed: the writable
\* backend is looked up once, then the cache, the backend and the negative cache
\* change in that order.
storeInternal(n) ==
    /\ phase = "up" /\ writer.pc = "closing" /\ Unlocked
    /\ writer' = [writer EXCEPT !.pc = "cached", !.key = n, !.db = writable,
                                !.unsaved = @ \ {n}]
    /\ cache' = cache \cup {n}
    /\ UNCHANGED <<setup, store, saved, cleared, negCache, fetcher, phase, built,
                   validated, sound, complete, imp, lost, allowed, count>>

storeBackend ==
    /\ phase = "up" /\ writer.pc = "cached"
    /\ Accept(writer.db, {writer.key})
    /\ writer' = [writer EXCEPT !.pc = "stored"]
    /\ UNCHANGED <<setup, dirs, writable, archive, saved, cleared, cache, negCache,
                   fetcher, phase, built, validated, sound, complete, imp, lost,
                   allowed, count>>

storeEnd ==
    /\ phase = "up" /\ writer.pc = "stored"
    /\ negCache' = negCache \ {writer.key}
    /\ writer' = [writer EXCEPT !.pc = "closing", !.key = none, !.db = none]
    /\ UNCHANGED <<setup, store, saved, cleared, cache, fetcher, phase, built,
                   validated, sound, complete, imp, lost, allowed, count>>

Step(w, to) == fetcher' = [fetcher EXCEPT ![w].pc = to]
EndFetch(w) == fetcher' = [fetcher EXCEPT ![w] = Idle]
Fetching(w, pc) == phase = "up" /\ fetcher[w].pc = pc

\* DatabaseImp::doFetch beyond the caches, with DatabaseRotatingImp::fetchFrom.
\* getBackends returns references: each backend is looked up when it is read.
\* live records that the node belongs to the last closed ledger and is on disk.
doFetch(w, n) ==
    /\ Fetching(w, "idle") /\ n \notin cache \cup negCache /\ Unlocked
    /\ Spend("fetches")
    /\ fetcher' = [fetcher EXCEPT ![w] =
                     [pc |-> "writable", key |-> n, db |-> writable,
                      live |-> /\ ~setup.batched /\ n \in nodesOf[built]
                               /\ n \in disk[writable] \cup disk[archive]]]
    /\ UNCHANGED <<setup, store, saved, cleared, cache, negCache, server, imp, lost, allowed>>

fetchWritable(w) ==
    /\ Fetching(w, "writable")
    /\ Step(w, IF fetcher[w].key \in disk[fetcher[w].db] THEN "found" ELSE "missed")
    /\ UNCHANGED <<setup, store, saved, cleared, cache, negCache, server, imp, lost,
                   allowed, count>>

\* Mutant: the writable backend is asked twice.
fetchArchive_again(w) ==
    /\ Fetching(w, "missed")
    /\ fetcher' = [fetcher EXCEPT ![w].pc = "archive", ![w].db = writable]
    /\ UNCHANGED <<setup, store, saved, cleared, cache, negCache, server, imp, lost,
                   allowed, count>>

fetchArchive(w) ==
    /\ Fetching(w, "missed")
    /\ fetcher' = [fetcher EXCEPT ![w].pc = "archive", ![w].db = archive]
    /\ UNCHANGED <<setup, store, saved, cleared, cache, negCache, server, imp, lost,
                   allowed, count>>

\* A backend destroyed under the read answers anything, or ends the process.
fetchArchiveEnd(w) ==
    /\ Fetching(w, "archive")
    /\ \/ /\ fetcher[w].db \in dirs
          /\ Step(w, IF fetcher[w].key \in disk[fetcher[w].db] THEN "archived" ELSE "absent")
          /\ UNCHANGED <<setup, store, saved, cleared, cache, negCache, server, imp,
                         lost, allowed>>
       \/ /\ fetcher[w].db \notin dirs
          /\ \E to \in {"archived", "absent"} : Step(w, to)
          /\ UNCHANGED <<setup, store, saved, cleared, cache, negCache, server, imp,
                         lost, allowed>>
       \/ fetcher[w].db \notin dirs /\ Crashed
    /\ UNCHANGED count

\* An object found in the archive is stored in the writable backend of now.
fetchCopy(w) ==
    /\ Fetching(w, "archived") /\ Unlocked
    /\ Accept(writable, {fetcher[w].key})
    /\ negCache' = negCache \ {fetcher[w].key}
    /\ Step(w, "found")
    /\ UNCHANGED <<setup, dirs, writable, archive, saved, cleared, cache, server, imp,
                   lost, allowed, count>>

fetchFound(w) ==
    /\ Fetching(w, "found")
    /\ cache' = cache \cup {fetcher[w].key}
    /\ EndFetch(w)
    /\ UNCHANGED <<setup, store, saved, cleared, negCache, server, imp, lost, allowed, count>>

\* "Just in case a write occurred" the cache is tried again before giving up.
fetchRetry(w) ==
    /\ Fetching(w, "absent")
    /\ IF fetcher[w].key \in cache THEN EndFetch(w) ELSE Step(w, "give up")
    /\ UNCHANGED <<setup, store, saved, cleared, cache, negCache, server, imp, lost,
                   allowed, count>>

fetchGiveUp(w) ==
    /\ Fetching(w, "give up")
    /\ negCache' = negCache \cup {fetcher[w].key}
    /\ EndFetch(w)
    /\ UNCHANGED <<setup, store, saved, cleared, cache, server, imp, lost, allowed, count>>

--------------------------------------------------------------------------------
(* The rest of the server, as the store sees it.                               *)

Rotating == run.pc \in {"clear", "sql", "copy", "freshen", "made", "locked", "drop"}

\* run() takes the first validated ledger it sees for the last rotated one, and
\* rotates when a ledger is deleteInterval further.
First(s) == IF run.lastRotated = 0 THEN s ELSE run.lastRotated
due(s) == /\ s \geq First(s) + setup.deleteInterval
          /\ canDelete \geq First(s) - 1

Pending == newLedger # 0 /\ due(newLedger)

\* The ledger being closed, or else the last one closed.
Closing == IF writer.pc = "idle" THEN built ELSE built + 1

\* A ledger closes: its map is flushed, node by node.  Assumed is
\* that a rotation takes less than deleteInterval (at least 256) ledgers, and
\* that closing is less than deleteInterval ahead of the ledger to rotate at.
closeLedger ==
    /\ phase = "up" /\ writer.pc = "idle" /\ built < setup.ledgers
    /\ Rotating => built + 1 < run.ledger + setup.deleteInterval
    /\ Pending => built + 1 < newLedger + setup.deleteInterval
    /\ writer' = [Quiet EXCEPT !.pc = "closing",
                               !.unsaved = nodesOf[built + 1] \ nodesOf[built]]
    /\ UNCHANGED <<setup, store, saved, cleared, cache, negCache, fetcher, phase, built,
                   validated, sound, complete, imp, lost, allowed, count>>

setFullLedger ==
    /\ phase = "up" /\ writer.pc = "closing" /\ writer.unsaved = {}
    /\ built' = built + 1
    /\ complete' = complete \cup {built'}
    /\ writer' = Quiet
    /\ UNCHANGED <<setup, store, saved, cleared, cache, negCache, fetcher, phase,
                   validated, sound, imp, lost, allowed, count>>

\* LedgerMaster::setValidLedger hands on the ledger that became validated.
onLedgerClosed ==
    /\ phase = "up"
    /\ \E s \in Ledger :
          /\ validated < s /\ s \leq built
          /\ due(s) => Closing < s + setup.deleteInterval
          /\ validated' = s /\ newLedger' = s
    /\ notified' = (run.pc = "wait")
    /\ UNCHANGED <<setup, store, saved, cleared, cache, negCache, fetcher, phase, built,
                   writer, sound, complete, run, stop, canDelete, lost, allowed, count>>

\* The operating mode or the age of the validated ledger changes.
changeHealth ==
    /\ phase = "up" /\ Spend("flips")
    /\ sound' = ~sound
    /\ UNCHANGED <<setup, store, saved, cleared, cache, negCache, fetcher, phase, built,
                   writer, validated, complete, imp, lost, allowed>>

\* The can_delete command.
setCanDelete ==
    /\ phase = "up" /\ Spend("permits")
    /\ \E s \in Ledger :
          /\ canDelete' = IF setup.advisoryDelete THEN s ELSE canDelete
          /\ saved' = [saved EXCEPT !.canDelete = s]
          /\ allowed' = IF s > allowed THEN s ELSE allowed
    /\ UNCHANGED <<setup, store, cleared, cache, negCache, fetcher, server, run,
                   newLedger, notified, stop, lost>>

\* Mutant: the thread is not notified.
onStop_silent ==
    /\ phase = "up" /\ ~stop /\ Spend("stops")
    /\ stop' = TRUE
    /\ UNCHANGED notified
    /\ UNCHANGED <<setup, store, saved, cleared, cache, negCache, fetcher, server, run,
                   newLedger, canDelete, lost, allowed>>

onStop ==
    /\ phase = "up" /\ ~stop /\ Spend("stops")
    /\ stop' = TRUE
    /\ notified' = (run.pc = "wait")
    /\ UNCHANGED <<setup, store, saved, cleared, cache, negCache, fetcher, server, run,
                   newLedger, canDelete, lost, allowed>>

--------------------------------------------------------------------------------
(* SHAMapStoreImp::run.                                                        *)

At(pc) == phase = "up" /\ run.pc = pc

\* Mutant: ill health is forgotten when the server recovers.
healthy_now == sound

\* health(): once unhealthy, unhealthy until the thread is back at the top.
healthy == run.healthy /\ sound

\* The switches on health(): stopping ends the thread, unhealthy goes back to
\* the top, ok goes on.
Halt == IF stop THEN "stopped" ELSE "top"
ok == ~stop /\ healthy

\* Everything a step of run() leaves alone outside the store and its own locals.
Elsewhere == UNCHANGED <<setup, fetcher, server, newLedger, notified, stop, canDelete,
                         lost, allowed, count>>

Interrupted(pc) ==
    /\ At(pc) /\ run.left = {} /\ ~ok
    /\ run' = [run EXCEPT !.pc = Halt, !.healthy = FALSE]
    /\ UNCHANGED <<store, saved, cleared, cache, negCache>> /\ Elsewhere

\* Mutant: healthy_ is not reset.
top_latched ==
    /\ At("top")
    /\ run' = [run EXCEPT !.pc = IF stop THEN "stopped" ELSE "wait",
                          !.ledger = 0]
    /\ notified' = FALSE
    /\ UNCHANGED <<setup, store, saved, cleared, cache, negCache, fetcher, server,
                   newLedger, stop, canDelete, lost, allowed, count>>

\* The top of the loop, under mutex_, up to the wait.
top ==
    /\ At("top")
    /\ run' = [run EXCEPT !.pc = IF stop THEN "stopped" ELSE "wait",
                          !.healthy = TRUE, !.ledger = 0]
    /\ notified' = FALSE
    /\ UNCHANGED <<setup, store, saved, cleared, cache, negCache, fetcher, server,
                   newLedger, stop, canDelete, lost, allowed, count>>

\* What 256 ledgers between rotations leave time for: the batches of the backend
\* that was retired are written, no call made before that is still running, and
\* the ledgers that close are less than deleteInterval ahead of the validated one.
Timely == /\ pending[archive] = {}
          /\ Closing < newLedger + setup.deleteInterval
          /\ writer.db \in {none, writable}
          /\ \A w \in Fetcher : fetcher[w].pc = "idle"

\* The wait ends, by a notification or spuriously.
wake ==
    /\ At("wait")
    /\ IF newLedger = 0
       THEN /\ run' = [run EXCEPT !.pc = "top"]
            /\ UNCHANGED <<saved, newLedger>>
       ELSE /\ due(newLedger) => Timely
            /\ run' = [run EXCEPT !.pc = IF due(newLedger) THEN "clear" ELSE "top",
                                  !.ledger = newLedger, !.lastRotated = First(newLedger)]
            /\ saved' = [saved EXCEPT !.lastRotated =
                                          IF run.lastRotated = 0 THEN newLedger ELSE @]
            /\ newLedger' = 0
    /\ UNCHANGED <<setup, store, cleared, cache, negCache, fetcher, server, notified,
                   stop, canDelete, lost, allowed, count>>

\* Mutant: one ledger too many is still listed.
clearPriorLedgers_through ==
    /\ At("clear") /\ ok
    /\ complete' = {s \in complete : s + 1 \geq run.lastRotated}
    /\ run' = [run EXCEPT !.pc = "sql", !.table = 1]
    /\ UNCHANGED <<setup, store, saved, cleared, cache, negCache, fetcher, phase, built,
                   writer, validated, sound, newLedger, notified, stop, canDelete,
                   lost, allowed, count>>

\* clearPrior: LedgerMaster forgets the ledgers, then the rows are deleted.
clearPriorLedgers ==
    /\ At("clear") /\ ok
    /\ complete' = {s \in complete : s \geq run.lastRotated}
    /\ run' = [run EXCEPT !.pc = "sql", !.table = 1]
    /\ UNCHANGED <<setup, store, saved, cleared, cache, negCache, fetcher, phase, built,
                   writer, validated, sound, newLedger, notified, stop, canDelete,
                   lost, allowed, count>>

\* clearSql: one batch of one table, or on to the next table, or to the copy.
clearSql ==
    /\ At("sql") /\ ok
    /\ IF cleared[run.table] < run.lastRotated
       THEN /\ cleared' = [cleared EXCEPT ![run.table] =
                              IF @ + deleteBatch \geq run.lastRotated
                              THEN run.lastRotated ELSE @ + deleteBatch]
            /\ UNCHANGED run
       ELSE /\ run' = IF run.table < 3
                      THEN [run EXCEPT !.table = @ + 1]
                      ELSE [run EXCEPT !.pc = "copy", !.visited = 0,
                                         !.left = nodesOf[run.ledger]]
            /\ UNCHANGED cleared
    /\ UNCHANGED <<store, saved, cache, negCache>> /\ Elsewhere

\* copyNode and the loop of freshenCache: the fetch copies what only the archive
\* has; every checkHealthInterval_ nodes a bad health() ends the walk.
visit(n) ==
    /\ phase = "up" /\ run.pc \in {"copy", "freshen"}
    /\ IF n \in disk[archive] \ disk[writable]
       THEN Accept(writable, {n}) /\ negCache' = negCache \ {n}
       ELSE UNCHANGED <<disk, pending, negCache>>
    /\ LET visited == (run.visited + 1) % checkHealthInterval
           aborts == visited = 0 /\ ~ok
       IN run' = [run EXCEPT !.visited = visited,
                             !.left = IF aborts THEN {} ELSE @ \ {n},
                             !.healthy = @ /\ ~(aborts /\ ~stop)]
    /\ UNCHANGED <<dirs, writable, archive, saved, cleared, cache>> /\ Elsewhere

\* The caches whose keys are fetched: the positive cache, and a tree node cache
\* that holds the last closed ledger or nothing.
freshenCaches ==
    /\ At("copy") /\ run.left = {} /\ ok
    /\ \E tree \in {{}, nodesOf[built]} :
          run' = [run EXCEPT !.pc = "freshen", !.visited = 0, !.left = cache \cup tree]
    /\ UNCHANGED <<store, saved, cleared, cache, negCache>> /\ Elsewhere

\* A backend opened under a new name; clearCaches touches nothing modelled here.
makeBackendRotating ==
    /\ At("freshen") /\ run.left = {} /\ ok /\ dirs # Backend
    /\ dirs' = dirs \cup {FreshDb}
    /\ disk' = [disk EXCEPT ![FreshDb] = {}]
    /\ run' = [run EXCEPT !.pc = "made", !.newDb = FreshDb]
    /\ UNCHANGED <<writable, archive, pending, saved, cleared, cache, negCache>> /\ Elsewhere

\* Under rotateMutex_ the new names are saved first ...
setState ==
    /\ At("made") /\ ok
    /\ saved' = [saved EXCEPT !.writable = run.newDb, !.archive = writable,
                              !.lastRotated = run.ledger]
    /\ run' = [run EXCEPT !.pc = "locked", !.lastRotated = run.ledger]
    /\ UNCHANGED <<store, cleared, cache, negCache>> /\ Elsewhere

\* ... and then the backends change places.
rotateBackends ==
    /\ At("locked")
    /\ writable' = run.newDb /\ archive' = writable
    /\ run' = [run EXCEPT !.pc = "drop", !.oldDb = archive]
    /\ UNCHANGED <<dirs, disk, pending, saved, cleared, cache, negCache>> /\ Elsewhere

\* setDeletePath, and the last reference to the old archive goes.
dropOld ==
    /\ At("drop")
    /\ dirs' = dirs \ {run.oldDb}
    /\ pending' = [pending EXCEPT ![run.oldDb] = {}]
    /\ run' = [run EXCEPT !.pc = "top", !.newDb = none, !.oldDb = none]
    /\ UNCHANGED <<disk, writable, archive, saved, cleared, cache, negCache>> /\ Elsewhere

RunStep ==
    \/ top \/ clearPriorLedgers \/ clearSql \/ (\E n \in run.left : visit(n))
    \/ freshenCaches \/ makeBackendRotating \/ setState \/ rotateBackends \/ dropOld
    \/ \E pc \in {"clear", "sql", "copy", "freshen", "made"} : Interrupted(pc)

FetchStep(w) ==
    \/ fetchWritable(w) \/ fetchArchive(w) \/ fetchArchiveEnd(w) \/ fetchCopy(w)
    \/ fetchFound(w) \/ fetchRetry(w) \/ fetchGiveUp(w)

WriteStep ==
    \/ \E n \in writer.unsaved : storeInternal(n)
    \/ storeBackend \/ storeEnd \/ setFullLedger

Next ==
    \/ dbPaths \/ openBackends \/ onStart \/ crash
    \/ closeLedger \/ WriteStep
    \/ onLedgerClosed \/ changeHealth \/ setCanDelete \/ onStop
    \/ wake \/ RunStep
    \/ sweep \/ \E b \in Backend : writeBatch(b)
    \/ \E w \in Fetcher : FetchStep(w) \/ \E n \in Node : doFetch(w, n)

Spec == Init /\ [][Next]_vars

\* The threads that run are scheduled; nobody has to close or validate ledgers.
Fairness ==
    /\ WF_vars(RunStep) /\ WF_vars(notified /\ wake)
    /\ WF_vars(WriteStep) /\ WF_vars(\E b \in Backend : writeBatch(b))
    /\ \A w \in Fetcher : WF_vars(FetchStep(w))

FairSpec == Spec /\ Fairness

--------------------------------------------------------------------------------
(* Properties.                                                                 *)

TypeOK ==
    /\ setup \in Setups
    /\ dirs \subseteq Backend
    /\ disk \in [Backend -> SUBSET Node] /\ pending \in [Backend -> SUBSET Node]
    /\ saved.writable \in Backend \cup {none} /\ saved.archive \in Backend \cup {none}
    /\ saved.lastRotated \in 0..LastLedger /\ saved.canDelete \in 0..LastLedger
    /\ cleared \in [Tables -> 1..LastLedger + 1]
    /\ writable \in Backend \cup {none} /\ archive \in Backend \cup {none}
    /\ cache \subseteq Node /\ negCache \subseteq Node
    /\ built \in 0..LastLedger /\ validated \in 0..built
    /\ complete \subseteq Ledger /\ newLedger \in 0..LastLedger

\* "To ensure that no necessary data for transaction processing is lost": every
\* node of every closed ledger from the last rotated one on is in one of the two
\* backends that the saved state names, at every instant of a rotation and after
\* a crash at any instant, short of what a BatchWriter lost in that crash.
Kept ==
    \A s \in Ledger :
        saved.lastRotated \leq s /\ s \leq built /\ saved.lastRotated # 0 =>
            nodesOf[s] \ lost \subseteq Held(saved.writable) \cup Held(saved.archive)

\* A restart never meets the "state db error": whenever the process may die, the
\* directories named by the saved state exist.
RestartOpens == dbPathsAgree

\* Rows of old ledgers only are deleted: none of a ledger the server says it
\* has (clearPriorLedgers takes it off mCompleteLedgers first), and with
\* advisory deletion none above the highest ledger that was ever released by
\* can_delete ("up to and including").
DeletedIsOld ==
    \A t \in Tables :
        /\ \A s \in complete : cleared[t] \leq s
        /\ setup.advisoryDelete => cleared[t] \leq allowed + 1

\* A rotation is invisible to a reader: a fetch of a node of the last closed
\* ledger that was on disk when the fetch began only comes back empty when the
\* archive was destroyed under the read (of backends that write at once: a queued
\* node cannot be read).
FetchFinds ==
    \A w \in Fetcher :
        fetcher[w].live /\ fetcher[w].pc = "absent" => fetcher[w].db \notin dirs

\* Once onStop has been called the thread reports that it has stopped.
StopCompletes == stop ~> (run.pc = "stopped" \/ phase # "up")

\* "If interrupted, the routine will start again at the next validated ledger
\* close": a ledger that is due and arrives while the thread waits is rotated,
\* unless the server turns unhealthy, stops or dies.
Rotates ==
    (~setup.advisoryDelete /\ run.pc = "wait" /\ notified /\ Pending)
        ~> (run.pc = "drop" \/ ~sound \/ stop \/ phase # "up")

\* What the comment on the rotation says of deletion ("up to (not including)
\* lastRotated"): a ledger the server says it has is whole.
CompleteIsStored ==
    phase = "up" =>
        \A s \in complete : nodesOf[s] \ lost \subseteq Held(writable) \cup Held(archive)
================================================================================
