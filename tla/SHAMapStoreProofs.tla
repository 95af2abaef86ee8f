--------------------------- MODULE SHAMapStoreProofs ---------------------------
(***************************************************************************)
(* For every number of ledgers, nodes, backends and readers and every       *)
(* deleteInterval: rotations lose no node of a kept ledger, a restart finds *)
(* the directories it looks for, with a crash at any step, only rows of old *)
(* ledgers are deleted, and a rotation is invisible to a fetch.             *)
(*                                                                         *)
(* Kept is not inductive: the rotation that saves the new names needs to    *)
(* know that the writable backend alone holds the ledger it rotates at and  *)
(* all later ones.  Recent says that the ledgers deleteInterval past the    *)
(* last rotation were stored in today's writable backend, up to nodes they  *)
(* share with any such ledger; Copied follows the walk of the tree.         *)
(*                                                                         *)
(* The other two need invariants beside Inv.  For the rows: Clearing and    *)
(* Released, which tie how far they are deleted to the last rotation and to *)
(* can_delete.  For the fetches: Reading says where the node of each one    *)
(* is, before, at and after the exchange of the backends; that the node is  *)
(* in the new archive when they change places is Kept again.                *)
(***************************************************************************)
EXTENDS SHAMapStore, TLAPS

USE ZenonT(10), SMTT(30)

Name == Backend \cup {none}
D == setup.deleteInterval
SW == saved.writable
SA == saved.archive

IsRecord(r, fields) == DOMAIN r = fields /\ r = [f \in fields |-> r[f]]

Types ==
    /\ setup \in Setups
    /\ dirs \subseteq Backend
    /\ IsRecord(disk, Backend) /\ IsRecord(pending, Backend)
    /\ saved \in [writable : Name, archive : Name, lastRotated : Nat, canDelete : Nat]
    /\ writable \in Name /\ archive \in Name
    /\ built \in 0..LastLedger /\ newLedger \in 0..built
    /\ IsRecord(writer, {"pc", "key", "db", "unsaved"})
    /\ writer.pc \in {"idle", "closing", "cached", "stored"}
    /\ IsRecord(run, {"pc", "ledger", "lastRotated", "healthy", "left", "visited",
                      "table", "newDb", "oldDb"})
    /\ run.ledger \in 0..built /\ run.lastRotated \in 0..built
    /\ phase \in {"down", "paths", "opened", "up"}

Names ==
    /\ SW = none <=> SA = none
    /\ SW = none => built = 0
    /\ SW # none => SW # SA /\ SW \in dirs /\ SA \in dirs
    /\ saved.lastRotated \leq built
    /\ phase = "paths" => dirs \subseteq {SW, SA}
    /\ phase \in {"opened", "up"} =>
          writable \in dirs /\ archive \in dirs /\ writable # archive
    /\ phase = "opened" => SW = none \/ (SW = writable /\ SA = archive)
    /\ phase # "up" => run.pc = "top" /\ writer.pc = "idle"
    /\ phase = "up" =>
          /\ SW # none /\ run.lastRotated = saved.lastRotated
          /\ run.pc # "locked" => SW = writable /\ SA = archive
          /\ run.pc = "locked" => SW = run.newDb /\ SA = writable
          /\ run.pc = "made" => run.newDb \in dirs /\ run.newDb \notin {writable, archive}
          /\ run.pc = "locked" => run.newDb \in dirs /\ run.newDb \notin {writable, archive}
          /\ run.pc = "drop" => run.oldDb \in Backend /\ run.oldDb \notin {writable, archive}

KeptAll ==
    \A s \in Ledger : saved.lastRotated \leq s /\ s \leq built =>
        nodesOf[s] \ lost \subseteq Held(SW) \cup Held(SA)

Recent ==
    \A r, s \in Ledger : saved.lastRotated + D \leq r /\ r \leq s /\ s \leq built =>
        nodesOf[s] \ lost \subseteq Held(SW) \cup nodesOf[r]

InHand == IF writer.pc = "cached" THEN {writer.key} ELSE {}
Stored == ((nodesOf[built + 1] \ nodesOf[built]) \ (writer.unsaved \cup InHand)) \ lost

Writing ==
    writer.pc # "idle" =>
        /\ built < LastLedger
        /\ Stored \subseteq Held(SW) \cup Held(SA)
        /\ writer.pc = "cached" => writer.db \in {SW, SA}
        /\ saved.lastRotated + D \leq built + 1 =>
              /\ Stored \subseteq Held(SW)
              /\ writer.pc = "cached" => writer.db = SW

Before == {"clear", "sql", "copy", "freshen", "made"}

Copied ==
    /\ run.pc \in Before =>
          /\ run.ledger \in Ledger /\ saved.lastRotated + D \leq run.ledger
          /\ Closing < run.ledger + D
          /\ pending[archive] = {}
    /\ run.pc = "copy" /\ ~stop /\ run.healthy =>
          nodesOf[run.ledger] \ lost \subseteq Held(writable) \cup run.left
    /\ run.pc \in {"freshen", "made"} => nodesOf[run.ledger] \ lost \subseteq Held(writable)

Inv == Types /\ Names /\ KeptAll /\ Recent /\ Writing /\ Copied

--------------------------------------------------------------------------------
LEMMA SetupFacts ==
    ASSUME setup \in Setups
    PROVE  D \in Nat /\ D > 0 /\ setup.ledgers \in 0..LastLedger
  BY StoreAssumption DEF D

LEMMA InitInv == Init => Inv
  <1>. SUFFICES ASSUME Init PROVE Inv
    OBVIOUS
  <1>1. Types
    <2>1. IsRecord(disk, Backend) /\ IsRecord(pending, Backend)
      BY DEF Init, IsRecord
    <2>2. IsRecord(run, {"pc", "ledger", "lastRotated", "healthy", "left", "visited",
                        "table", "newDb", "oldDb"})
      BY DEF Init, Thread0, IsRecord
    <2>3. IsRecord(writer, {"pc", "key", "db", "unsaved"})
      BY DEF Init, Quiet, IsRecord
    <2>4. saved \in [writable : Name, archive : Name, lastRotated : Nat, canDelete : Nat]
      BY DEF Init, Name
    <2>5. built \in 0..LastLedger /\ newLedger \in 0..built
      BY StoreAssumption DEF Init
    <2>6. /\ writer.pc = "idle" /\ run.ledger \in 0..built
          /\ run.lastRotated \in 0..built
      BY DEF Init, Quiet, Thread0
    <2>. QED  BY <2>1, <2>2, <2>3, <2>4, <2>5, <2>6 DEF Init, Types, Name
  <1>2. Names
    BY DEF Init, Names, SW, SA, Quiet, Thread0
  <1>3. KeptAll /\ Recent /\ Writing /\ Copied
    BY DEF Init, KeptAll, Recent, Writing, Copied, Ledger, Quiet, Thread0, Before
  <1>. QED  BY <1>1, <1>2, <1>3 DEF Inv

\* What a step that leaves the store, the writer and the rotation alone keeps.
Core == <<setup, dirs, disk, pending, saved, writable, archive, built, writer, run,
          phase, lost, stop>>

LEMMA FrameInv ==
    ASSUME Inv, UNCHANGED Core, newLedger' \in 0..built
    PROVE  Inv'
  <1>1. Types'
    BY DEF Inv, Core, Types, Name, IsRecord
  <1>2. Names'
    BY DEF Inv, Core, Names, SW, SA
  <1>3. KeptAll' /\ Recent'
    BY DEF Inv, Core, KeptAll, Recent, SW, SA, D, Held
  <1>4. Writing'
    BY DEF Inv, Core, Writing, Stored, InHand, SW, SA, D, Held
  <1>5. Copied'
    BY DEF Inv, Core, Copied, Before, Closing, SW, SA, D, Held
  <1>. QED  BY <1>1, <1>2, <1>3, <1>4, <1>5 DEF Inv

\* Backends only grow; during a rotation nothing is queued in the archive.
LEMMA GrowInv ==
    ASSUME Inv,
           UNCHANGED <<setup, dirs, saved, writable, archive, built, newLedger, writer,
                       run, phase, lost, stop>>,
           IsRecord(disk', Backend), IsRecord(pending', Backend),
           \A c \in Backend : Held(c) \subseteq Held(c)',
           run.pc \in Before => pending'[archive] = {}
    PROVE  Inv'
  <1>1. Types'
    BY DEF Inv, Types, Name, IsRecord
  <1>2. Names'
    BY DEF Inv, Names, SW, SA
  <1>. DEFINE w == Held(SW)
              a == Held(SA)
  <1>3. w \subseteq w' /\ a \subseteq a' /\ Held(writable) \subseteq Held(writable)'
    BY DEF Inv, Types, Name, SW, SA, Held
  <1>4. KeptAll'
    BY <1>3 DEF Inv, KeptAll, SW, SA
  <1>5. Recent'
    BY <1>3 DEF Inv, Recent, SW, D
  <1>6. Writing'
    BY <1>3 DEF Inv, Writing, Stored, InHand, SW, SA, D
  <1>7. Copied'
    BY <1>3 DEF Inv, Copied, Before, Closing, D
  <1>. QED  BY <1>1, <1>2, <1>4, <1>5, <1>6, <1>7 DEF Inv

LEMMA AcceptGrows ==
    ASSUME NEW b \in Backend, NEW N, Types, Accept(b, N)
    PROVE  /\ IsRecord(disk', Backend) /\ IsRecord(pending', Backend)
           /\ \A c \in Backend : Held(c) \subseteq Held(c)'
           /\ N \subseteq Held(b)'
           /\ \A c \in Backend : c # b => pending'[c] = pending[c]
  <1>1. CASE setup.batched
    <2>1. pending' = [pending EXCEPT ![b] = @ \cup N] /\ disk' = disk
      BY <1>1 DEF Accept
    <2>2. /\ IsRecord(pending', Backend) /\ pending'[b] = pending[b] \cup N
          /\ \A c \in Backend : c # b => pending'[c] = pending[c]
      BY <2>1 DEF Types, IsRecord
    <2>. QED  BY <2>1, <2>2, StoreAssumption DEF Types, Held
  <1>2. CASE ~setup.batched
    <2>1. disk' = [disk EXCEPT ![b] = @ \cup N] /\ pending' = pending
      BY <1>2 DEF Accept
    <2>2. /\ IsRecord(disk', Backend) /\ disk'[b] = disk[b] \cup N
          /\ \A c \in Backend : c # b => disk'[c] = disk[c]
      BY <2>1 DEF Types, IsRecord
    <2>. QED  BY <2>1, <2>2, StoreAssumption DEF Types, Held
  <1>. QED  BY <1>1, <1>2

LEMMA FrameSteps ==
    ASSUME Inv,
           \/ sweep \/ changeHealth \/ onLedgerClosed
           \/ \E w \in Fetcher :
                 \/ \E n \in Node : doFetch(w, n)
                 \/ fetchWritable(w) \/ fetchArchive(w) \/ fetchFound(w)
                 \/ fetchRetry(w) \/ fetchGiveUp(w)
    PROVE  Inv'
  <1>1. UNCHANGED Core
    BY DEF Core, sweep, doFetch, fetchWritable, fetchArchive, fetchFound, fetchRetry,
           fetchGiveUp, changeHealth, onLedgerClosed, store, server, imp, vars
  <1>2. newLedger' \in 0..built
    <2>1. CASE onLedgerClosed
      BY <2>1, StoreAssumption DEF onLedgerClosed, Inv, Types, Ledger
    <2>2. CASE ~onLedgerClosed
      BY <2>2 DEF sweep, doFetch, fetchWritable, fetchArchive, fetchFound, fetchRetry,
                  fetchGiveUp, changeHealth, imp, Inv, Types
    <2>. QED  BY <2>1, <2>2
  <1>. QED  BY <1>1, <1>2, FrameInv

LEMMA PermitInv == ASSUME Inv, setCanDelete PROVE Inv'
  <1>. USE DEF store, server
  <1>1. /\ saved' \in [writable : Name, archive : Name, lastRotated : Nat, canDelete : Nat]
        /\ SW' = SW /\ SA' = SA /\ saved'.lastRotated = saved.lastRotated
    BY StoreAssumption DEF setCanDelete, Inv, Types, SW, SA, Ledger
  <1>2. UNCHANGED <<setup, dirs, disk, pending, writable, archive, built, newLedger, writer,
                    run, phase, lost, stop>>
    BY DEF setCanDelete, imp
  <1>3. Types'
    BY <1>1, <1>2 DEF Inv, Types, Name, IsRecord
  <1>4. Names'
    BY <1>1, <1>2 DEF Inv, Names
  <1>5. KeptAll' /\ Recent'
    BY <1>1, <1>2 DEF Inv, KeptAll, Recent, D, Held
  <1>6. Writing'
    BY <1>1, <1>2 DEF Inv, Writing, Stored, InHand, D, Held
  <1>7. Copied'
    BY <1>1, <1>2 DEF Inv, Copied, Before, Closing, D, Held
  <1>. QED  BY <1>3, <1>4, <1>5, <1>6, <1>7 DEF Inv

LEMMA StopInv == ASSUME Inv, onStop PROVE Inv'
  <1>. USE DEF store, server
  <1>1. Types'
    BY DEF onStop, Inv, Types, Name, IsRecord
  <1>2. Names'
    BY DEF onStop, Inv, Names, SW, SA
  <1>3. KeptAll' /\ Recent'
    BY DEF onStop, Inv, KeptAll, Recent, SW, SA, D, Held
  <1>4. Writing'
    BY DEF onStop, Inv, Writing, Stored, InHand, SW, SA, D, Held
  <1>5. Copied'
    BY DEF onStop, Inv, Copied, Before, Closing, SW, SA, D, Held
  <1>. QED  BY <1>1, <1>2, <1>3, <1>4, <1>5 DEF Inv

LEMMA CopyInv == ASSUME Inv, NEW w \in Fetcher, fetchCopy(w) PROVE Inv'
  <1>. USE DEF store, server, imp
  <1>1. /\ writable \in Backend /\ archive \in Backend /\ archive # writable
        /\ Accept(writable, {fetcher[w].key})
    BY DEF fetchCopy, Fetching, Inv, Types, Names
  <1>2. /\ IsRecord(disk', Backend) /\ IsRecord(pending', Backend)
        /\ \A c \in Backend : Held(c) \subseteq Held(c)'
        /\ pending'[archive] = pending[archive]
    BY <1>1, AcceptGrows DEF Inv
  <1>3. run.pc \in Before => pending'[archive] = {}
    BY <1>2 DEF Inv, Copied
  <1>4. UNCHANGED <<setup, dirs, saved, writable, archive, built, newLedger, writer,
                    run, phase, lost, stop>>
    BY DEF fetchCopy
  <1>. QED  BY <1>2, <1>3, <1>4, GrowInv

LEMMA WriteBatchInv == ASSUME Inv, NEW b \in Backend, writeBatch(b) PROVE Inv'
  <1>. USE DEF store, server, imp
  <1>1. disk' = [disk EXCEPT ![b] = @ \cup pending[b]] /\ pending' = [pending EXCEPT ![b] = {}]
    BY DEF writeBatch
  <1>2. IsRecord(disk', Backend) /\ IsRecord(pending', Backend)
    BY <1>1 DEF Inv, Types, IsRecord
  <1>3. /\ disk'[b] = disk[b] \cup pending[b] /\ pending'[b] = {}
        /\ \A c \in Backend : c # b => disk'[c] = disk[c] /\ pending'[c] = pending[c]
    BY <1>1 DEF Inv, Types, IsRecord
  <1>4. \A c \in Backend : Held(c) \subseteq Held(c)'
    BY <1>3, StoreAssumption DEF Held
  <1>5. archive \in Backend
    BY DEF writeBatch, Inv, Types, Names
  <1>6. run.pc \in Before => pending'[archive] = {}
    BY <1>3, <1>5 DEF Inv, Copied
  <1>7. UNCHANGED <<setup, dirs, saved, writable, archive, built, newLedger, writer,
                    run, phase, lost, stop>>
    BY DEF writeBatch
  <1>. QED  BY <1>2, <1>4, <1>6, <1>7, GrowInv

\* What the batches held is written off; the rest is on disk.
LEMMA CrashInv == ASSUME Inv, Crashed PROVE Inv'
  <1>1. /\ IsRecord(pending', Backend) /\ \A c \in Backend : pending'[c] = {}
        /\ disk' = disk /\ saved' = saved /\ built' = built /\ setup' = setup
        /\ dirs' = dirs
    BY DEF Crashed, IsRecord
  <1>2. \A c \in Backend : Held(c) \ lost' \subseteq Held(c)'
    <2>. SUFFICES ASSUME NEW c \in Backend PROVE Held(c) \ lost' \subseteq Held(c)'
      OBVIOUS
    <2>1. lost' = lost \cup UNION {pending[b] \ disk[b] : b \in Backend}
      BY DEF Crashed
    <2>2. pending[c] \ disk[c] \subseteq lost'
      BY <2>1
    <2>. QED  BY <1>1, <2>2, StoreAssumption DEF Held
  <1>3. lost \subseteq lost'
    BY DEF Crashed
  <1>4. Held(SW) \ lost' \subseteq Held(SW)' /\ Held(SA) \ lost' \subseteq Held(SA)'
    BY <1>1, <1>2 DEF SW, SA, Held, Inv, Types, Name
  <1>5. run'.pc = "top" /\ run'.ledger = 0 /\ run'.lastRotated = 0 /\ writer'.pc = "idle"
    BY DEF Crashed, Thread0, Quiet
  <1>6. Types'
    <2>1. IsRecord(run', {"pc", "ledger", "lastRotated", "healthy", "left", "visited",
                         "table", "newDb", "oldDb"})
      BY DEF Crashed, Thread0, IsRecord
    <2>2. IsRecord(writer', {"pc", "key", "db", "unsaved"})
      BY DEF Crashed, Quiet, IsRecord
    <2>3. writable' \in Name /\ archive' \in Name /\ newLedger' = 0 /\ phase' = "down"
      BY DEF Crashed, Name
    <2>. QED  BY <1>1, <1>5, <2>1, <2>2, <2>3 DEF Inv, Types, Name, IsRecord
  <1>7. Names'
    BY <1>1, <1>5 DEF Crashed, Inv, Names, SW, SA
  <1>8. KeptAll'
    BY <1>1, <1>3, <1>4 DEF Inv, KeptAll
  <1>9. Recent'
    BY <1>1, <1>3, <1>4 DEF Inv, Recent, D
  <1>10. Writing' /\ Copied'
    BY <1>5 DEF Writing, Copied, Before
  <1>. QED  BY <1>6, <1>7, <1>8, <1>9, <1>10 DEF Inv

LEMMA ArchiveEndInv == ASSUME Inv, NEW w \in Fetcher, fetchArchiveEnd(w) PROVE Inv'
  <1>1. CASE Crashed
    BY <1>1, CrashInv
  <1>2. CASE ~Crashed
    <2>1. UNCHANGED Core /\ newLedger' \in 0..built
      BY <1>2 DEF Core, fetchArchiveEnd, store, server, imp, Inv, Types
    <2>. QED  BY <2>1, FrameInv
  <1>. QED  BY <1>1, <1>2

LEMMA PathsInv == ASSUME Inv, dbPaths PROVE Inv'
  <1>. USE DEF imp
  <1>1. Types'
    BY DEF dbPaths, Inv, Types, Name, IsRecord
  <1>2. Names'
    BY DEF dbPaths, Inv, Types, Names, SW, SA
  <1>3. KeptAll' /\ Recent'
    BY DEF dbPaths, Inv, KeptAll, Recent, SW, SA, D, Held
  <1>4. Writing' /\ Copied'
    BY DEF dbPaths, Inv, Names, Writing, Copied, Before
  <1>. QED  BY <1>1, <1>2, <1>3, <1>4 DEF Inv

LEMMA OpenInv == ASSUME Inv, openBackends PROVE Inv'
  <1>. USE DEF imp
  <1>1. phase = "paths" /\ phase' = "opened" /\ dirs \subseteq {SW, SA}
    BY DEF openBackends, Inv, Names
  <1>2. CASE SW = none
    <2>1. dirs = {} /\ built = 0
      BY <1>1, <1>2, StoreAssumption DEF Inv, Names, Types
    <2>2. PICK p \in Backend \X Backend : p[1] # p[2] /\ p[1] \notin dirs /\ p[2] \notin dirs
      <3>1. PICK b, c \in Backend : b # c
        BY StoreAssumption
      <3>. WITNESS <<b, c>> \in Backend \X Backend
      <3>. QED  BY <3>1, <2>1
    <2>3. /\ FreshPair \in Backend \X Backend /\ FreshPair[1] # FreshPair[2]
      BY <2>2 DEF FreshPair
    <2>4. /\ writable' = FreshPair[1] /\ archive' = FreshPair[2]
          /\ dirs' = dirs \cup {FreshPair[1], FreshPair[2]}
          /\ IsRecord(disk', Backend)
      BY <1>2 DEF openBackends, IsRecord, SW
    <2>. HIDE DEF FreshPair
    <2>5. /\ writable' \in Backend /\ archive' \in Backend /\ writable' # archive'
          /\ dirs' = {writable', archive'}
      BY <2>1, <2>3, <2>4
    <2>6. Types'
      BY <1>1, <2>4, <2>5 DEF openBackends, Inv, Types, Name, IsRecord
    <2>7. Names'
      BY <1>1, <1>2, <2>1, <2>5 DEF openBackends, Inv, Names, SW, SA
    <2>8. KeptAll' /\ Recent'
      <3>1. built' = 0
        BY <2>1 DEF openBackends
      <3>. QED  BY <3>1 DEF KeptAll, Recent, Ledger
    <2>9. Writing' /\ Copied'
      BY <1>1 DEF openBackends, Inv, Names, Writing, Copied, Before
    <2>. QED  BY <2>6, <2>7, <2>8, <2>9 DEF Inv
  <1>3. CASE SW # none
    <2>1. writable' = SW /\ archive' = SA /\ dirs' = dirs
      BY <1>3 DEF openBackends, Inv, Names, SW, SA
    <2>2. disk' = disk
      BY <2>1 DEF openBackends, Inv, Types, IsRecord
    <2>3. Types'
      BY <1>1, <2>1, <2>2 DEF openBackends, Inv, Types, Name, IsRecord, SW, SA
    <2>4. Names'
      BY <1>1, <1>3, <2>1 DEF openBackends, Inv, Names, SW, SA
    <2>5. KeptAll' /\ Recent'
      BY <2>2 DEF openBackends, Inv, KeptAll, Recent, SW, SA, D, Held
    <2>6. Writing' /\ Copied'
      BY <1>1 DEF openBackends, Inv, Names, Writing, Copied, Before
    <2>. QED  BY <2>3, <2>4, <2>5, <2>6 DEF Inv
  <1>. QED  BY <1>2, <1>3

LEMMA StartInv == ASSUME Inv, onStart PROVE Inv'
  <1>. USE DEF store
  <1>1. /\ SW' = writable /\ SA' = archive /\ saved'.lastRotated = saved.lastRotated
        /\ saved' \in [writable : Name, archive : Name, lastRotated : Nat, canDelete : Nat]
    BY DEF onStart, Inv, Types, SW, SA
  <1>2. /\ run'.pc = "top" /\ run'.ledger = 0 /\ run'.lastRotated = saved.lastRotated
        /\ IsRecord(run', {"pc", "ledger", "lastRotated", "healthy", "left", "visited",
                           "table", "newDb", "oldDb"})
    BY DEF onStart, Thread0, IsRecord
  <1>3. writer.pc = "idle" /\ phase = "opened" /\ phase' = "up" /\ writer' = writer
    BY DEF onStart, Inv, Names
  <1>4. Types'
    BY <1>1, <1>2, <1>3 DEF onStart, Inv, Types, Names, Name, IsRecord
  <1>5. Names'
    BY <1>1, <1>2, <1>3, StoreAssumption DEF onStart, Inv, Types, Names
  <1>6. KeptAll' /\ Recent'
    <2>1. CASE SW = none
      BY <2>1 DEF onStart, Inv, Names, KeptAll, Recent, Ledger
    <2>2. CASE SW # none
      <3>1. SW' = SW /\ SA' = SA
        BY <1>1, <1>3, <2>2 DEF Inv, Names
      <3>. QED  BY <1>1, <3>1 DEF onStart, Inv, KeptAll, Recent, D, Held
    <2>. QED  BY <2>1, <2>2
  <1>7. Writing' /\ Copied'
    BY <1>2, <1>3 DEF Writing, Copied, Before
  <1>. QED  BY <1>4, <1>5, <1>6, <1>7 DEF Inv

LEMMA CloseInv == ASSUME Inv, closeLedger PROVE Inv'
  <1>. USE DEF store, imp
  <1>1. /\ writer'.pc = "closing" /\ IsRecord(writer', {"pc", "key", "db", "unsaved"})
        /\ writer'.unsaved = nodesOf[built + 1] \ nodesOf[built]
    BY DEF closeLedger, Quiet, IsRecord
  <1>2. built < LastLedger /\ D \in Nat /\ built \in Nat
    BY StoreAssumption, SetupFacts DEF closeLedger, Inv, Types
  <1>3. Types'
    BY <1>1 DEF closeLedger, Inv, Types, Name, IsRecord
  <1>4. Names'
    BY <1>1 DEF closeLedger, Inv, Names, SW, SA
  <1>5. KeptAll' /\ Recent'
    BY DEF closeLedger, Inv, KeptAll, Recent, SW, SA, D, Held
  <1>6. Writing'
    <2>1. Stored' = {}
      BY <1>1 DEF closeLedger, Stored, InHand
    <2>. QED  BY <1>1, <1>2, <2>1 DEF closeLedger, Writing
  <1>7. Copied'
    <2>1. run.pc \in Before => built + 1 < run.ledger + D
      BY DEF closeLedger, Before, Rotating, D
    <2>2. Closing' = built + 1
      BY <1>1 DEF closeLedger, Closing
    <2>. QED  BY <2>1, <2>2 DEF closeLedger, Inv, Copied, Before, D, Held
  <1>. QED  BY <1>3, <1>4, <1>5, <1>6, <1>7 DEF Inv

LEMMA StoreStartInv == ASSUME Inv, NEW n \in writer.unsaved, storeInternal(n) PROVE Inv'
  <1>. USE DEF store, imp
  <1>1. /\ writer'.pc = "cached" /\ IsRecord(writer', {"pc", "key", "db", "unsaved"})
        /\ writer'.unsaved = writer.unsaved \ {n} /\ writer'.key = n /\ writer'.db = writable
    BY DEF storeInternal, Inv, Types, IsRecord
  <1>2. Types'
    BY <1>1 DEF storeInternal, Inv, Types, Name, IsRecord
  <1>3. Names'
    BY <1>1 DEF storeInternal, Inv, Names, SW, SA
  <1>4. KeptAll' /\ Recent'
    BY DEF storeInternal, Inv, KeptAll, Recent, SW, SA, D, Held
  <1>5. Writing'
    <2>1. Stored' = Stored
      BY <1>1 DEF storeInternal, Stored, InHand
    <2>2. writable = SW
      BY DEF storeInternal, Unlocked, Inv, Names
    <2>3. SW' = SW /\ SA' = SA /\ Held(SW)' = Held(SW) /\ Held(SA)' = Held(SA) /\ D' = D
      BY DEF storeInternal, SW, SA, Held, D
    <2>. QED  BY <1>1, <2>1, <2>2, <2>3 DEF storeInternal, Inv, Writing
  <1>6. Copied'
    <2>1. Closing' = Closing
      BY <1>1 DEF storeInternal, Closing
    <2>. QED  BY <2>1 DEF storeInternal, Inv, Copied, Before, D, Held
  <1>. QED  BY <1>2, <1>3, <1>4, <1>5, <1>6 DEF Inv

LEMMA StoreBackendInv == ASSUME Inv, storeBackend PROVE Inv'
  <1>. USE DEF store, imp
  <1>1. /\ writer.pc = "cached" /\ writer.db \in {SW, SA} /\ SW \in Backend /\ SA \in Backend
        /\ phase = "up" /\ SW # SA
    BY DEF storeBackend, Inv, Types, Names, Writing
  <1>2. /\ IsRecord(disk', Backend) /\ IsRecord(pending', Backend)
        /\ \A c \in Backend : Held(c) \subseteq Held(c)'
        /\ {writer.key} \subseteq Held(writer.db)'
        /\ \A c \in Backend : c # writer.db => pending'[c] = pending[c]
    <2>. DEFINE b == writer.db
    <2>1. b \in Backend /\ Accept(b, {writer.key}) /\ b' = writer'.db
      BY <1>1 DEF storeBackend
    <2>2. writer'.db = writer.db
      BY DEF storeBackend, Inv, Types, IsRecord
    <2>3. \A c \in Backend : Accept(c, {writer.key}) =>
             /\ IsRecord(disk', Backend) /\ IsRecord(pending', Backend)
             /\ \A e \in Backend : Held(e) \subseteq Held(e)'
             /\ {writer.key} \subseteq Held(c)'
             /\ \A e \in Backend : e # c => pending'[e] = pending[e]
      BY AcceptGrows DEF Inv
    <2>4. PICK c \in Backend : c = writer.db /\ Accept(c, {writer.key})
      BY <2>1
    <2>5. Held(writer.db)' = Held(c)'
      BY <2>2, <2>4 DEF Held
    <2>. QED  BY <2>3, <2>4, <2>5
  <1>3. /\ writer'.pc = "stored" /\ IsRecord(writer', {"pc", "key", "db", "unsaved"})
        /\ writer'.unsaved = writer.unsaved /\ writer'.db = writer.db
    BY DEF storeBackend, Inv, Types, IsRecord
  <1>4. Held(SW) \subseteq Held(SW)' /\ Held(SA) \subseteq Held(SA)'
        /\ Held(writable) \subseteq Held(writable)' /\ SW' = SW /\ SA' = SA
    BY <1>1, <1>2 DEF storeBackend, SW, SA, Held, Inv, Names, Types
  <1>5. Types'
    BY <1>2, <1>3 DEF storeBackend, Inv, Types, Name, IsRecord
  <1>6. Names'
    BY <1>3 DEF storeBackend, Inv, Names, SW, SA
  <1>7. KeptAll'
    BY <1>4 DEF storeBackend, Inv, KeptAll
  <1>8. Recent'
    BY <1>4 DEF storeBackend, Inv, Recent, D
  <1>9. Writing'
    <2>1. Stored' \subseteq Stored \cup {writer.key}
      BY <1>1, <1>3 DEF storeBackend, Stored, InHand
    <2>2. writer.db = SW => writer.key \in Held(SW)'
      BY <1>2, <1>3, <1>4 DEF Held
    <2>3. writer.db = SA => writer.key \in Held(SA)'
      BY <1>2, <1>3, <1>4 DEF Held
    <2>4. Stored' \subseteq Held(SW)' \cup Held(SA)'
      BY <1>1, <1>4, <2>1, <2>2, <2>3 DEF Inv, Writing
    <2>5. saved.lastRotated + D \leq built + 1 => Stored' \subseteq Held(SW)'
      BY <1>1, <1>4, <2>1, <2>2 DEF Inv, Writing
    <2>. QED  BY <1>1, <1>3, <1>4, <2>4, <2>5 DEF storeBackend, Inv, Writing, D
  <1>10. Copied'
    <2>1. Closing' = Closing
      BY <1>1, <1>3 DEF storeBackend, Closing
    <2>2. run.pc \in Before => pending'[archive] = {}
      <3>. SUFFICES ASSUME run.pc \in Before PROVE pending'[archive] = {}
        OBVIOUS
      <3>1. saved.lastRotated + D \leq run.ledger /\ run.ledger \leq built
        BY DEF Inv, Copied, Types
      <3>2. writer.db = SW
        <4>1. saved.lastRotated \in Nat /\ D \in Nat /\ built \in Nat /\ run.ledger \in Nat
          BY SetupFacts, StoreAssumption DEF Inv, Types
        <4>2. saved.lastRotated + D \leq built + 1
          BY <3>1, <4>1
        <4>. QED  BY <1>1, <4>2 DEF Inv, Writing
      <3>3. SA = archive /\ SW # SA
        BY <1>1 DEF Inv, Names, Before
      <3>. QED  BY <1>1, <1>2, <3>2, <3>3 DEF Inv, Copied
    <2>. QED  BY <1>4, <2>1, <2>2 DEF storeBackend, Inv, Copied, Before, D
  <1>. QED  BY <1>5, <1>6, <1>7, <1>8, <1>9, <1>10 DEF Inv

LEMMA StoreEndInv == ASSUME Inv, storeEnd PROVE Inv'
  <1>. USE DEF store, imp
  <1>1. /\ writer'.pc = "closing" /\ IsRecord(writer', {"pc", "key", "db", "unsaved"})
        /\ writer'.unsaved = writer.unsaved
    BY DEF storeEnd, Inv, Types, IsRecord
  <1>2. Types'
    BY <1>1 DEF storeEnd, Inv, Types, Name, IsRecord
  <1>3. Names'
    BY <1>1 DEF storeEnd, Inv, Names, SW, SA
  <1>4. KeptAll' /\ Recent'
    BY DEF storeEnd, Inv, KeptAll, Recent, SW, SA, D, Held
  <1>5. Writing'
    <2>1. Stored' = Stored
      BY <1>1 DEF storeEnd, Stored, InHand
    <2>2. SW' = SW /\ SA' = SA /\ Held(SW)' = Held(SW) /\ Held(SA)' = Held(SA) /\ D' = D
      BY DEF storeEnd, SW, SA, Held, D
    <2>. QED  BY <1>1, <2>1, <2>2 DEF storeEnd, Inv, Writing
  <1>6. Copied'
    <2>1. Closing' = Closing
      BY <1>1 DEF storeEnd, Closing
    <2>. QED  BY <2>1 DEF storeEnd, Inv, Copied, Before, D, Held
  <1>. QED  BY <1>2, <1>3, <1>4, <1>5, <1>6 DEF Inv

LEMMA FullLedgerInv == ASSUME Inv, setFullLedger PROVE Inv'
  <1>. USE DEF store, imp
  <1>1. /\ writer.pc = "closing" /\ writer.unsaved = {} /\ built' = built + 1
        /\ writer'.pc = "idle" /\ IsRecord(writer', {"pc", "key", "db", "unsaved"})
        /\ phase = "up"
    BY DEF setFullLedger, Quiet, IsRecord
  <1>2. /\ built \in 0..LastLedger /\ built + 1 \in Ledger /\ LastLedger \in Nat
        /\ saved.lastRotated \in Nat /\ D \in Nat
    BY <1>1, StoreAssumption, SetupFacts DEF Inv, Types, Writing, Ledger
  <1>3. Types'
    BY <1>1, <1>2 DEF setFullLedger, Inv, Types, Name, IsRecord, Ledger
  <1>4. Names'
    BY <1>1, <1>2 DEF setFullLedger, Inv, Names, SW, SA
  <1>5. /\ SW' = SW /\ SA' = SA /\ Held(SW)' = Held(SW) /\ Held(SA)' = Held(SA)
        /\ D' = D /\ saved' = saved /\ lost' = lost
    BY DEF setFullLedger, SW, SA, Held, D
  <1>6. Stored = (nodesOf[built + 1] \ nodesOf[built]) \ lost
    BY <1>1 DEF Stored, InHand
  <1>7. KeptAll'
    <2>. SUFFICES ASSUME NEW s \in Ledger, saved.lastRotated \leq s, s \leq built + 1
                  PROVE  nodesOf[s] \ lost \subseteq Held(SW) \cup Held(SA)
      BY <1>1, <1>5 DEF KeptAll
    <2>1. CASE s \leq built
      BY <2>1 DEF Inv, KeptAll
    <2>2. CASE s = built + 1
      <3>1. nodesOf[built] \ lost \subseteq Held(SW) \cup Held(SA)
        <4>1. CASE built = 0
          BY <4>1, StoreAssumption
        <4>2. CASE built # 0
          <5>1. built \in Ledger /\ saved.lastRotated \leq built
            BY <1>2, <4>2 DEF Ledger, Inv, Names
          <5>. QED  BY <1>2, <5>1 DEF Inv, KeptAll
        <4>. QED  BY <4>1, <4>2
      <3>2. Stored \subseteq Held(SW) \cup Held(SA)
        BY <1>1 DEF Inv, Writing
      <3>. QED  BY <1>6, <2>2, <3>1, <3>2
    <2>. QED  BY <1>2, <2>1, <2>2 DEF Ledger
  <1>8. Recent'
    <2>. SUFFICES ASSUME NEW r \in Ledger, NEW s \in Ledger,
                         saved.lastRotated + D \leq r, r \leq s, s \leq built + 1
                  PROVE  nodesOf[s] \ lost \subseteq Held(SW) \cup nodesOf[r]
      BY <1>1, <1>5 DEF Recent
    <2>1. CASE s \leq built
      BY <2>1 DEF Inv, Recent
    <2>2. CASE r = s
      BY <2>2
    <2>3. CASE s = built + 1 /\ r \leq built
      <3>1. built \in Ledger
        BY <1>2, <2>3 DEF Ledger
      <3>2. nodesOf[built] \ lost \subseteq Held(SW) \cup nodesOf[r]
        BY <1>2, <2>3, <3>1 DEF Inv, Recent
      <3>3. saved.lastRotated + D \leq built + 1
        BY <1>2, <2>3 DEF Ledger
      <3>4. Stored \subseteq Held(SW)
        BY <1>1, <3>3 DEF Inv, Writing
      <3>. QED  BY <1>6, <2>3, <3>2, <3>4
    <2>. QED  BY <1>2, <2>1, <2>2, <2>3 DEF Ledger
  <1>9. Writing'
    BY <1>1 DEF Writing
  <1>10. Copied'
    <2>1. Closing' = Closing
      BY <1>1 DEF Closing
    <2>. QED  BY <2>1 DEF setFullLedger, Inv, Copied, Before, D, Held
  <1>. QED  BY <1>3, <1>4, <1>7, <1>8, <1>9, <1>10 DEF Inv

RunFields == {"pc", "ledger", "lastRotated", "healthy", "left", "visited", "table",
              "newDb", "oldDb"}

\* A step of run() that leaves the store and the saved state alone.
LEMMA RunInv ==
    ASSUME Inv, phase = "up",
           UNCHANGED <<setup, dirs, disk, pending, saved, writable, archive, built, writer,
                       phase, lost>>,
           newLedger' \in 0..built,
           IsRecord(run', RunFields), run'.ledger \in 0..built,
           run'.lastRotated = run.lastRotated,
           run.pc # "locked", run'.pc \notin {"made", "locked", "drop"},
           Copied'
    PROVE  Inv'
  <1>1. Types'
    BY DEF Inv, Types, Name, IsRecord, RunFields
  <1>2. Names'
    BY DEF Inv, Names, SW, SA
  <1>3. KeptAll' /\ Recent'
    BY DEF Inv, KeptAll, Recent, SW, SA, D, Held
  <1>4. Writing'
    BY DEF Inv, Writing, Stored, InHand, SW, SA, D, Held
  <1>. QED  BY <1>1, <1>2, <1>3, <1>4 DEF Inv

LEMMA TopInv ==
    ASSUME Inv, top \/ \E pc \in Before : Interrupted(pc)
    PROVE  Inv'
  <1>. USE DEF store, server
  <1>1. /\ phase = "up" /\ run.pc # "locked"
        /\ UNCHANGED <<setup, dirs, disk, pending, saved, writable, archive, built, writer,
                       phase, lost, newLedger>>
    BY DEF top, Interrupted, Elsewhere, At, Before
  <1>2. /\ IsRecord(run', RunFields) /\ run'.lastRotated = run.lastRotated
        /\ run'.ledger \in 0..built /\ run'.pc \in {"top", "wait", "stopped"}
    <2>1. CASE top
      <3>1. PICK pc \in {"stopped", "wait"} :
              run' = [run EXCEPT !.pc = pc, !.healthy = TRUE, !.ledger = 0]
        BY <2>1 DEF top
      <3>2. IsRecord(run, RunFields) /\ 0 \in 0..built
        BY StoreAssumption DEF Inv, Types, RunFields
      <3>. QED  BY <3>1, <3>2 DEF IsRecord, RunFields
    <2>2. CASE \E pc \in Before : Interrupted(pc)
      BY <2>2 DEF Interrupted, Halt, Inv, Types, IsRecord, RunFields
    <2>. QED  BY <2>1, <2>2
  <1>3. Copied'
    BY <1>2 DEF Copied, Before
  <1>. QED  BY <1>1, <1>2, <1>3, RunInv DEF Inv, Types

LEMMA ClearInv == ASSUME Inv, clearPriorLedgers PROVE Inv'
  <1>. USE DEF store
  <1>1. /\ phase = "up" /\ run.pc = "clear"
        /\ UNCHANGED <<setup, dirs, disk, pending, saved, writable, archive, built, writer,
                       phase, lost, newLedger>>
    BY DEF clearPriorLedgers, At
  <1>2. /\ IsRecord(run', RunFields) /\ run'.lastRotated = run.lastRotated
        /\ run'.ledger = run.ledger /\ run'.pc = "sql"
    BY DEF clearPriorLedgers, Inv, Types, IsRecord, RunFields
  <1>3. Copied'
    BY <1>1, <1>2 DEF Inv, Copied, Before, Closing, D
  <1>. QED  BY <1>1, <1>2, <1>3, RunInv DEF Inv, Types

LEMMA SqlInv == ASSUME Inv, clearSql PROVE Inv'
  <1>. USE DEF store, server
  <1>1. /\ phase = "up" /\ run.pc = "sql"
        /\ UNCHANGED <<setup, dirs, disk, pending, saved, writable, archive, built, writer,
                       phase, lost, newLedger, stop>>
    BY DEF clearSql, At, Elsewhere
  <1>2. /\ IsRecord(run', RunFields) /\ run'.lastRotated = run.lastRotated
        /\ run'.ledger = run.ledger /\ run'.pc \in {"sql", "copy"}
        /\ run'.pc = "copy" => run'.left = nodesOf[run.ledger]
    <2>1. CASE UNCHANGED run
      BY <1>1, <2>1 DEF Inv, Types, RunFields
    <2>2. CASE run' = [run EXCEPT !.table = @ + 1]
      BY <1>1, <2>2 DEF Inv, Types, IsRecord, RunFields
    <2>3. CASE run' = [run EXCEPT !.pc = "copy", !.visited = 0, !.left = nodesOf[run.ledger]]
      BY <1>1, <2>3 DEF Inv, Types, IsRecord, RunFields
    <2>. QED  BY <2>1, <2>2, <2>3 DEF clearSql
  <1>3. Copied'
    BY <1>1, <1>2 DEF Inv, Copied, Before, Closing, D, Held
  <1>. QED  BY <1>1, <1>2, <1>3, RunInv DEF Inv, Types

LEMMA FreshenInv == ASSUME Inv, freshenCaches PROVE Inv'
  <1>. USE DEF store, server
  <1>1. /\ phase = "up" /\ run.pc = "copy" /\ run.left = {} /\ ~stop /\ run.healthy
        /\ UNCHANGED <<setup, dirs, disk, pending, saved, writable, archive, built, writer,
                       phase, lost, newLedger, stop>>
    BY DEF freshenCaches, At, Elsewhere, ok, healthy
  <1>2. /\ IsRecord(run', RunFields) /\ run'.lastRotated = run.lastRotated
        /\ run'.ledger = run.ledger /\ run'.pc = "freshen"
    BY DEF freshenCaches, Inv, Types, IsRecord, RunFields
  <1>3. Copied'
    BY <1>1, <1>2 DEF Inv, Copied, Before, Closing, D, Held
  <1>. QED  BY <1>1, <1>2, <1>3, RunInv DEF Inv, Types

\* A notification at which a rotation is due finds the rotation before it over.
LEMMA WakeInv == ASSUME Inv, wake PROVE Inv'
  <1>. USE DEF store, server
  <1>1. /\ phase = "up" /\ run.pc = "wait"
        /\ UNCHANGED <<setup, dirs, disk, pending, writable, archive, built, writer,
                       phase, lost, stop>>
    BY DEF wake, At
  <1>2. CASE newLedger = 0
    <2>1. /\ IsRecord(run', RunFields) /\ run'.lastRotated = run.lastRotated
          /\ run'.ledger = run.ledger /\ run'.pc = "top"
          /\ UNCHANGED <<saved, newLedger>>
      BY <1>2 DEF wake, Inv, Types, IsRecord, RunFields
    <2>2. Copied'
      BY <2>1 DEF Copied, Before
    <2>. QED  BY <1>1, <2>1, <2>2, RunInv DEF Inv, Types
  <1>3. CASE newLedger # 0
    <2>1. /\ newLedger \in Ledger /\ newLedger \leq built /\ newLedger' = 0
          /\ built \in Nat /\ D \in Nat /\ D > 0
          /\ run.lastRotated \in Nat /\ run.lastRotated \leq built
          /\ saved.lastRotated = run.lastRotated
      BY <1>1, <1>3, SetupFacts, StoreAssumption DEF wake, Inv, Types, Names, Ledger
    <2>2. /\ IsRecord(run', RunFields) /\ run'.lastRotated = First(newLedger)
          /\ run'.ledger = newLedger /\ run'.pc \in {"clear", "top"}
          /\ run'.pc = "clear" => due(newLedger)
      <3>1. PICK pc \in {"clear", "top"} :
              /\ run' = [run EXCEPT !.pc = pc, !.ledger = newLedger,
                                    !.lastRotated = First(newLedger)]
              /\ pc = "clear" => due(newLedger)
        BY <1>3 DEF wake
      <3>. QED  BY <3>1 DEF Inv, Types, IsRecord, RunFields
    <2>3. /\ saved' \in [writable : Name, archive : Name, lastRotated : Nat,
                          canDelete : Nat]
          /\ SW' = SW /\ SA' = SA /\ saved'.lastRotated = First(newLedger)
          /\ saved'.lastRotated \leq built /\ run.lastRotated \leq saved'.lastRotated
      <3>1. saved' = [saved EXCEPT !.lastRotated = First(newLedger)]
        BY <1>3, <2>1 DEF wake, First, Inv, Types
      <3>2. First(newLedger) \in Nat /\ First(newLedger) \leq built
            /\ run.lastRotated \leq First(newLedger)
        BY <2>1 DEF First, Ledger
      <3>. QED  BY <3>1, <3>2 DEF Inv, Types, SW, SA
    <2>4. Types'
      BY <1>1, <2>1, <2>2, <2>3 DEF Inv, Types, IsRecord, Name, RunFields
    <2>5. Names'
      BY <1>1, <2>1, <2>2, <2>3 DEF Inv, Names
    <2>6. Held(SW)' = Held(SW) /\ Held(SA)' = Held(SA) /\ D' = D
      BY <1>1, <2>3 DEF Held, D
    <2>7. KeptAll' /\ Recent'
      <3>1. \A k \in Ledger : /\ saved'.lastRotated \leq k => saved.lastRotated \leq k
                              /\ saved'.lastRotated + D \leq k => saved.lastRotated + D \leq k
        BY <2>1, <2>3, StoreAssumption DEF Ledger
      <3>2. KeptAll'
        BY <1>1, <2>6, <3>1 DEF Inv, KeptAll
      <3>3. Recent'
        BY <1>1, <2>6, <3>1 DEF Inv, Recent
      <3>. QED  BY <3>2, <3>3
    <2>8. Writing'
      <3>1. Stored' = Stored
        BY <1>1 DEF Stored, InHand
      <3>2. saved'.lastRotated + D \leq built + 1 => saved.lastRotated + D \leq built + 1
        BY <2>1, <2>3, StoreAssumption DEF Inv, Types, Ledger
      <3>. QED  BY <1>1, <2>3, <2>6, <3>1, <3>2 DEF Inv, Writing
    <2>9. Copied'
      <3>1. CASE run'.pc = "top"
        BY <3>1 DEF Copied, Before
      <3>2. CASE run'.pc = "clear"
        <4>1. due(newLedger) /\ Timely
          BY <1>3, <2>2, <3>2 DEF wake
        <4>2. saved'.lastRotated + D \leq newLedger
          BY <2>1, <2>3, <4>1 DEF due, First, D
        <4>3. Closing < newLedger + D /\ pending[archive] = {}
          BY <4>1 DEF Timely, D
        <4>4. Closing' = Closing /\ D' = D
          BY <1>1 DEF Closing, D
        <4>. QED  BY <1>1, <2>1, <2>2, <3>2, <4>2, <4>3, <4>4 DEF Copied, Before
      <3>. QED  BY <2>2, <3>1, <3>2
    <2>. QED  BY <2>4, <2>5, <2>7, <2>8, <2>9 DEF Inv
  <1>. QED  BY <1>2, <1>3

\* A new directory changes no backend in use.
LEMMA MakeInv == ASSUME Inv, makeBackendRotating PROVE Inv'
  <1>. USE DEF store, server
  <1>1. /\ phase = "up" /\ run.pc = "freshen"
        /\ UNCHANGED <<setup, pending, saved, writable, archive, built, writer, phase,
                       lost, newLedger, stop>>
    BY DEF makeBackendRotating, At, Elsewhere
  <1>2. FreshDb \in Backend /\ FreshDb \notin dirs
    BY DEF makeBackendRotating, FreshDb, Inv, Types
  <1>3. /\ SW = writable /\ SA = archive /\ SW \in dirs /\ SA \in dirs /\ SW # none
        /\ SW # SA /\ SW \in Backend /\ SA \in Backend
    BY <1>1 DEF Inv, Types, Names
  <1>4. /\ IsRecord(run', RunFields) /\ run'.lastRotated = run.lastRotated
        /\ run'.ledger = run.ledger /\ run'.pc = "made" /\ run'.newDb = FreshDb
    BY DEF makeBackendRotating, Inv, Types, IsRecord, RunFields
  <1>5. /\ IsRecord(disk', Backend) /\ disk'[SW] = disk[SW] /\ disk'[SA] = disk[SA]
        /\ dirs' = dirs \cup {FreshDb}
    BY <1>2, <1>3 DEF makeBackendRotating, Inv, Types, IsRecord
  <1>6. Held(SW)' = Held(SW) /\ Held(SA)' = Held(SA)
    BY <1>1, <1>5 DEF Held, SW, SA
  <1>7. Types'
    BY <1>1, <1>2, <1>4, <1>5 DEF Inv, Types, IsRecord, Name, RunFields
  <1>8. Names'
    BY <1>1, <1>2, <1>3, <1>4, <1>5 DEF Inv, Names, SW, SA
  <1>9. KeptAll' /\ Recent' /\ Writing'
    BY <1>1, <1>6 DEF Inv, KeptAll, Recent, Writing, Stored, InHand, D, SW, SA
  <1>10. Copied'
    <2>1. Closing' = Closing /\ D' = D /\ Held(writable)' = Held(writable)
      BY <1>1, <1>3, <1>6 DEF Closing, D, SW
    <2>. QED  BY <1>1, <1>4, <2>1 DEF Inv, Copied, Before
  <1>. QED  BY <1>7, <1>8, <1>9, <1>10 DEF Inv

\* A step of freshenCache moves a node on, and never forgets one silently.
LEMMA VisitInv == ASSUME Inv, NEW n \in run.left, visit(n) PROVE Inv'
  <1>. USE DEF store, server
  <1>1. /\ phase = "up" /\ run.pc \in {"copy", "freshen"}
        /\ UNCHANGED <<setup, dirs, saved, writable, archive, built, writer, phase, lost,
                       newLedger, stop>>
    BY DEF visit, Elsewhere
  <1>2. /\ SW = writable /\ SA = archive /\ SW # none /\ SA # none
        /\ SW \in Backend /\ SA \in Backend /\ SW # SA
    BY <1>1 DEF Inv, Types, Names
  <1>3. /\ IsRecord(run', RunFields) /\ run'.lastRotated = run.lastRotated
        /\ run'.ledger = run.ledger /\ run'.pc = run.pc
        /\ ~stop /\ run'.healthy => run.healthy /\ run'.left = run.left \ {n}
    <2>1. PICK v, aborts :
            /\ run' = [run EXCEPT !.visited = v,
                                  !.left = IF aborts THEN {} ELSE @ \ {n},
                                  !.healthy = @ /\ ~(aborts /\ ~stop)]
      BY DEF visit
    <2>2. PICK left :
            /\ run' = [run EXCEPT !.visited = v, !.left = left,
                                  !.healthy = run.healthy /\ ~(aborts /\ ~stop)]
            /\ ~aborts => left = run.left \ {n}
      BY <2>1, Zenon
    <2>3. /\ IsRecord(run', RunFields) /\ run'.lastRotated = run.lastRotated
          /\ run'.ledger = run.ledger /\ run'.pc = run.pc /\ run'.left = left
      BY <2>2 DEF Inv, Types, IsRecord, RunFields
    <2>4. run'.healthy = (run.healthy /\ ~(aborts /\ ~stop))
      BY <2>2, Zenon DEF Inv, Types, IsRecord
    <2>. QED  BY <2>2, <2>3, <2>4
  <1>4. /\ IsRecord(disk', Backend) /\ IsRecord(pending', Backend)
        /\ \A c \in Backend : Held(c) \subseteq Held(c)'
        /\ pending[archive] = {} => pending'[archive] = {}
        /\ n \in disk[archive] => n \in Held(writable)'
    <2>1. CASE n \in disk[archive] \ disk[writable]
      <3>1. Accept(writable, {n})
        BY <2>1 DEF visit
      <3>2. PICK c \in Backend : c = writable
        BY <1>2
      <3>3. Accept(c, {n})
        BY <3>1, <3>2
      <3>4. /\ IsRecord(disk', Backend) /\ IsRecord(pending', Backend)
            /\ \A d \in Backend : Held(d) \subseteq Held(d)'
            /\ {n} \subseteq Held(c)'
            /\ \A d \in Backend : d # c => pending'[d] = pending[d]
        BY <3>3, AcceptGrows DEF Inv
      <3>. QED  BY <1>1, <1>2, <3>2, <3>4 DEF Held
    <2>2. CASE n \notin disk[archive] \ disk[writable]
      <3>1. UNCHANGED <<disk, pending>>
        BY <2>2 DEF visit
      <3>. QED  BY <1>1, <1>2, <2>2, <3>1, StoreAssumption DEF Inv, Types, Held
    <2>. QED  BY <2>1, <2>2
  <1>5. Held(SW) \subseteq Held(SW)' /\ Held(SA) \subseteq Held(SA)'
    BY <1>1, <1>2, <1>4 DEF SW, SA
  <1>6. Types'
    BY <1>1, <1>3, <1>4 DEF Inv, Types, IsRecord, Name, RunFields
  <1>7. Names'
    BY <1>1, <1>3 DEF Inv, Names, SW, SA
  <1>8. KeptAll' /\ Recent' /\ Writing'
    BY <1>1, <1>5 DEF Inv, KeptAll, Recent, Writing, Stored, InHand, D, SW, SA
  <1>9. Copied'
    <2>1. Closing' = Closing /\ D' = D /\ Held(writable) \subseteq Held(writable)'
      BY <1>1, <1>2, <1>4 DEF Closing, D
    <2>2. /\ run.ledger \in Ledger /\ saved.lastRotated + D \leq run.ledger
          /\ Closing < run.ledger + D /\ pending[archive] = {}
      BY <1>1 DEF Inv, Copied, Before
    <2>3. CASE run.pc = "freshen"
      BY <1>1, <1>3, <1>4, <2>1, <2>2, <2>3 DEF Inv, Copied
    <2>4. CASE run.pc = "copy"
      <3>1. n \in nodesOf[run.ledger] \ lost => n \in Held(writable)'
        <4>1. saved.lastRotated \leq run.ledger /\ run.ledger \leq built
          BY <2>2, SetupFacts DEF Inv, Types
        <4>2. nodesOf[run.ledger] \ lost \subseteq Held(writable) \cup Held(archive)
          BY <1>2, <2>2, <4>1 DEF Inv, KeptAll
        <4>3. Held(archive) = disk[archive]
          BY <1>2, <2>2 DEF Held
        <4>. QED  BY <1>4, <2>1, <4>2, <4>3
      <3>. QED  BY <1>1, <1>3, <1>4, <2>1, <2>2, <2>4, <3>1 DEF Inv, Copied
    <2>. QED  BY <1>1, <2>3, <2>4
  <1>. QED  BY <1>6, <1>7, <1>8, <1>9 DEF Inv

\* The saved names change: the archive they name is the backend that was copied to.
LEMMA SetStateInv == ASSUME Inv, setState PROVE Inv'
  <1>. USE DEF store, server
  <1>1. /\ phase = "up" /\ run.pc = "made"
        /\ UNCHANGED <<setup, dirs, disk, pending, writable, archive, built, writer, phase,
                       lost, newLedger, stop>>
    BY DEF setState, At, Elsewhere
  <1>2. /\ SW = writable /\ SA = archive /\ SW # none /\ SW \in Backend /\ SW \in dirs
        /\ run.newDb \in dirs /\ run.newDb \notin {writable, archive}
    BY <1>1 DEF Inv, Types, Names
  <1>3. /\ run.ledger \in Ledger /\ run.ledger \leq built /\ built \in 0..LastLedger
        /\ saved.lastRotated + D \leq run.ledger /\ saved.lastRotated \in Nat
        /\ Closing < run.ledger + D /\ D \in Nat /\ D > 0 /\ LastLedger \in Nat
        /\ nodesOf[run.ledger] \ lost \subseteq Held(writable)
    <2>1. /\ run.ledger \in Ledger /\ saved.lastRotated + D \leq run.ledger
          /\ Closing < run.ledger + D
          /\ nodesOf[run.ledger] \ lost \subseteq Held(writable)
      BY <1>1 DEF Inv, Copied, Before
    <2>2. /\ run.ledger \leq built /\ built \in 0..LastLedger /\ saved.lastRotated \in Nat
          /\ setup \in Setups
      BY StoreAssumption DEF Inv, Types
    <2>. QED  BY <2>1, <2>2, SetupFacts, StoreAssumption
  <1>4. /\ IsRecord(run', RunFields) /\ run'.lastRotated = run.ledger
        /\ run'.ledger = run.ledger /\ run'.pc = "locked" /\ run'.newDb = run.newDb
    BY DEF setState, Inv, Types, IsRecord, RunFields
  <1>5. /\ saved' \in [writable : Name, archive : Name, lastRotated : Nat, canDelete : Nat]
        /\ SW' = run.newDb /\ SA' = writable /\ saved'.lastRotated = run.ledger
    <2>1. saved' = [saved EXCEPT !.writable = run.newDb, !.archive = writable,
                                 !.lastRotated = run.ledger]
      BY DEF setState
    <2>2. run.newDb \in Name /\ writable \in Name /\ run.ledger \in Nat
      BY <1>2, <1>3 DEF Inv, Types, Name, Ledger
    <2>. QED  BY <2>1, <2>2 DEF Inv, Types, SW, SA
  <1>6. Held(SA)' = Held(SW) /\ D' = D /\ Closing' = Closing
    BY <1>1, <1>2, <1>5 DEF Held, D, Closing
  <1>7. Types'
    BY <1>1, <1>3, <1>4, <1>5 DEF Inv, Types, IsRecord, Name, RunFields, Ledger
  <1>8. Names'
    <2>1. SW' # none /\ SA' # none
      BY <1>2, <1>5, StoreAssumption DEF Inv, Types
    <2>. QED  BY <1>1, <1>2, <1>3, <1>4, <1>5, <2>1 DEF Inv, Names
  <1>9. built < run.ledger + D
    BY <1>3 DEF Closing, Ledger
  <1>10. KeptAll'
    <2>. SUFFICES ASSUME NEW s \in Ledger, run.ledger \leq s, s \leq built
                  PROVE  nodesOf[s] \ lost \subseteq Held(SW)
      BY <1>1, <1>5, <1>6 DEF KeptAll
    <2>1. nodesOf[s] \ lost \subseteq Held(SW) \cup nodesOf[run.ledger]
      BY <1>3 DEF Inv, Recent
    <2>. QED  BY <1>2, <1>3, <2>1
  <1>11. Recent'
    <2>. SUFFICES ASSUME NEW r \in Ledger, NEW s \in Ledger,
                         run.ledger + D \leq r, r \leq s, s \leq built
                  PROVE  FALSE
      BY <1>1, <1>5, <1>6 DEF Recent
    <2>. QED  BY <1>3, <1>9 DEF Ledger
  <1>12. Writing'
    <2>. SUFFICES ASSUME writer.pc # "idle" PROVE Writing'
      BY <1>1 DEF Writing
    <2>1. Closing = built + 1
      BY DEF Closing
    <2>2. saved.lastRotated + D \leq built + 1 /\ ~(run.ledger + D \leq built + 1)
      BY <1>3, <2>1 DEF Ledger
    <2>3. /\ built < LastLedger /\ Stored \subseteq Held(SW)
          /\ writer.pc = "cached" => writer.db = SW
      BY <2>2 DEF Inv, Writing
    <2>4. Stored' = Stored
      BY <1>1 DEF Stored, InHand
    <2>. QED  BY <1>1, <1>2, <1>5, <1>6, <2>2, <2>3, <2>4 DEF Writing
  <1>13. Copied'
    BY <1>4 DEF Copied, Before
  <1>. QED  BY <1>7, <1>8, <1>10, <1>11, <1>12, <1>13 DEF Inv

LEMMA RotateInv == ASSUME Inv, rotateBackends PROVE Inv'
  <1>. USE DEF store, server
  <1>1. /\ phase = "up" /\ run.pc = "locked"
        /\ UNCHANGED <<setup, dirs, disk, pending, saved, built, writer, phase, lost,
                       newLedger, stop>>
        /\ writable' = run.newDb /\ archive' = writable
    BY DEF rotateBackends, At, Elsewhere
  <1>2. /\ IsRecord(run', RunFields) /\ run'.lastRotated = run.lastRotated
        /\ run'.ledger = run.ledger /\ run'.pc = "drop" /\ run'.oldDb = archive
    BY DEF rotateBackends, Inv, Types, IsRecord, RunFields
  <1>3. /\ SW = run.newDb /\ SA = writable /\ run.newDb \in dirs
        /\ run.newDb \notin {writable, archive} /\ archive \in dirs /\ writable # archive
        /\ writable \in dirs
    BY <1>1 DEF Inv, Names
  <1>4. Types'
    BY <1>1, <1>2, <1>3 DEF Inv, Types, IsRecord, Name, RunFields
  <1>5. Names'
    BY <1>1, <1>2, <1>3 DEF Inv, Types, Names, SW, SA
  <1>6. KeptAll' /\ Recent' /\ Writing'
    BY <1>1 DEF Inv, KeptAll, Recent, Writing, Stored, InHand, D, SW, SA, Held
  <1>7. Copied'
    BY <1>2 DEF Copied, Before
  <1>. QED  BY <1>4, <1>5, <1>6, <1>7 DEF Inv

LEMMA DropInv == ASSUME Inv, dropOld PROVE Inv'
  <1>. USE DEF store, server
  <1>1. /\ phase = "up" /\ run.pc = "drop"
        /\ UNCHANGED <<setup, disk, saved, writable, archive, built, writer, phase, lost,
                       newLedger, stop>>
        /\ dirs' = dirs \ {run.oldDb}
    BY DEF dropOld, At, Elsewhere
  <1>2. /\ SW = writable /\ SA = archive /\ SW # none /\ SA # none
        /\ SW \in Backend /\ SA \in Backend /\ SW # SA /\ SW \in dirs /\ SA \in dirs
        /\ run.oldDb \in Backend /\ run.oldDb \notin {SW, SA}
    BY <1>1 DEF Inv, Types, Names
  <1>3. /\ IsRecord(run', RunFields) /\ run'.lastRotated = run.lastRotated
        /\ run'.ledger = run.ledger /\ run'.pc = "top"
    BY DEF dropOld, Inv, Types, IsRecord, RunFields
  <1>4. /\ IsRecord(pending', Backend)
        /\ pending'[SW] = pending[SW] /\ pending'[SA] = pending[SA]
    BY <1>2 DEF dropOld, Inv, Types, IsRecord
  <1>5. Held(SW)' = Held(SW) /\ Held(SA)' = Held(SA)
    BY <1>1, <1>4 DEF Held, SW, SA
  <1>6. Types'
    BY <1>1, <1>3, <1>4 DEF Inv, Types, IsRecord, Name, RunFields
  <1>7. Names'
    BY <1>1, <1>2, <1>3 DEF Inv, Names, SW, SA
  <1>8. KeptAll' /\ Recent' /\ Writing'
    BY <1>1, <1>5 DEF Inv, KeptAll, Recent, Writing, Stored, InHand, D, SW, SA
  <1>9. Copied'
    BY <1>3 DEF Copied, Before
  <1>. QED  BY <1>6, <1>7, <1>8, <1>9 DEF Inv

\* A walk that is interrupted leaves what was kept where it was.
LEMMA RunStepInv == ASSUME Inv, RunStep PROVE Inv'
  <1>1. CASE \E n \in run.left : visit(n)
    BY <1>1, VisitInv
  <1>2. CASE \E pc \in {"clear", "sql", "copy", "freshen", "made"} : Interrupted(pc)
    BY <1>2, TopInv DEF Before
  <1>. QED
    BY <1>1, <1>2, TopInv, ClearInv, SqlInv, FreshenInv, MakeInv, SetStateInv, RotateInv,
       DropInv DEF RunStep

LEMMA FetchStepInv == ASSUME Inv, NEW w \in Fetcher, FetchStep(w) PROVE Inv'
  BY FrameSteps, CopyInv, ArchiveEndInv DEF FetchStep

LEMMA NextInv == Inv /\ [Next]_vars => Inv'
  <1>. SUFFICES ASSUME Inv, [Next]_vars PROVE Inv'
    OBVIOUS
  <1>1. CASE UNCHANGED vars
    BY <1>1, FrameInv DEF vars, store, server, imp, Core, Inv, Types
  <1>2. CASE WriteStep
    BY <1>2, StoreStartInv, StoreBackendInv, StoreEndInv, FullLedgerInv DEF WriteStep
  <1>3. CASE \E w \in Fetcher : FetchStep(w) \/ \E n \in Node : doFetch(w, n)
    BY <1>3, FetchStepInv, FrameSteps
  <1>4. CASE \E b \in Backend : writeBatch(b)
    BY <1>4, WriteBatchInv
  <1>5. CASE crash
    BY <1>5, CrashInv DEF crash
  <1>6. CASE dbPaths \/ openBackends \/ onStart \/ closeLedger
    BY <1>6, PathsInv, OpenInv, StartInv, CloseInv
  <1>7. CASE onLedgerClosed \/ changeHealth \/ setCanDelete \/ onStop \/ sweep
    BY <1>7, FrameSteps, PermitInv, StopInv
  <1>8. CASE wake \/ RunStep
    BY <1>8, WakeInv, RunStepInv
  <1>. QED  BY <1>1, <1>2, <1>3, <1>4, <1>5, <1>6, <1>7, <1>8 DEF Next

\* The inductive invariant holds: what each pc of the rotation thread, the
\* fetches and the saved state imply about the two backends.
THEOREM Invariance == Spec => []Inv
  BY InitInv, NextInv, PTL DEF Spec

\* However rotations, flushes of closed ledgers, fetches and crashes interleave,
\* every node of a ledger from the last rotated one on is in one of the two
\* backends the saved state names.
THEOREM KeptHolds == Spec => []Kept
  <1>1. Inv => Kept
    BY DEF Inv, KeptAll, Kept, SW, SA
  <1>. QED  BY <1>1, Invariance, PTL

\* A crash at any step of a rotation leaves the directories that dbPaths() looks for.
THEOREM RestartHolds == Spec => []RestartOpens
  <1>1. Inv => RestartOpens
    BY DEF Inv, Names, RestartOpens, dbPathsAgree, SW, SA
  <1>. QED  BY <1>1, Invariance, PTL

--------------------------------------------------------------------------------
\* No row is deleted that the last rotation did not reach, nor one that
\* can_delete did not release.
Clearing ==
    /\ IsRecord(cleared, Tables) /\ complete \subseteq Nat
    /\ run.table \in Tables
    /\ \A t \in Tables : cleared[t] \in Nat /\ cleared[t] \leq built + 1
    /\ \A t \in Tables, s \in complete : cleared[t] \leq s
    /\ run.pc = "sql" => \A s \in complete : run.lastRotated \leq s

Released ==
    /\ allowed \in Nat /\ canDelete \in Nat /\ saved.canDelete \leq allowed
    /\ setup.advisoryDelete =>
          /\ \A t \in Tables : cleared[t] \leq allowed + 1
          /\ phase = "up" => canDelete \leq allowed
          /\ run.pc \in {"clear", "sql"} => run.lastRotated \leq allowed + 1

\* Without batches nothing is queued and nothing gets lost.  From the start of a
\* rotation to its end nobody writes but to the writable backend, and the new one
\* stays empty.
Direct ==
    /\ ~setup.batched => lost = {} /\ \A b \in Backend : pending[b] = {}
    /\ run.pc \in Before \cup {"locked"} /\ writer.pc = "cached" => writer.db = writable
    /\ ~setup.batched /\ run.pc \in {"made", "locked"} => disk[run.newDb] = {}
    /\ run.pc = "locked" => run.lastRotated = run.ledger

\* Where the node of a fetch is that has to find it.
Sought(f) ==
    /\ f.pc = "writable" => \/ f.db = writable /\ f.key \in disk[writable] \cup disk[archive]
                            \/ f.db = archive /\ f.key \in disk[archive]
    /\ f.pc = "missed" => f.key \in disk[archive]
    /\ f.pc = "archive" /\ f.db \in dirs => f.key \in disk[f.db]
    /\ f.pc = "absent" => f.db \notin dirs

\* In a rotation every fetch that is under way began after the wake.
Busy == run.pc \in Before \cup {"locked"}

Seeking(w) ==
    /\ IsRecord(fetcher[w], {"pc", "key", "db", "live"})
    /\ fetcher[w].pc # "idle" =>
          /\ phase = "up" /\ fetcher[w].db \in Backend
          /\ Busy => \/ fetcher[w].db = writable
                     \/ fetcher[w].db = archive /\ fetcher[w].pc # "writable"
          /\ fetcher[w].live =>
                /\ ~setup.batched
                /\ Sought(fetcher[w])
                /\ Busy => \E s \in Ledger : /\ run.ledger \leq s /\ s \leq built
                                              /\ fetcher[w].key \in nodesOf[s]

Reading == IsRecord(fetcher, Fetcher) /\ \A w \in Fetcher : Seeking(w)

\* What most steps do to the tables: nothing.
Calm ==
    /\ UNCHANGED <<cleared, allowed, setup, canDelete>>
    /\ saved'.canDelete = saved.canDelete
    /\ complete' \subseteq complete /\ built' = built
    /\ run'.table = run.table
    /\ phase' = "up" => phase = "up"
    /\ run'.pc \in {"clear", "sql"} => run'.pc = run.pc /\ run'.lastRotated = run.lastRotated

LEMMA CalmClearing ==
    ASSUME Clearing, Released, Calm
    PROVE  Clearing' /\ Released'
  <1>1. Clearing'
    BY DEF Calm, Clearing, IsRecord
  <1>2. Released'
    BY DEF Calm, Released
  <1>. QED  BY <1>1, <1>2

LEMMA CalmSteps ==
    ASSUME Inv
    PROVE  /\ UNCHANGED vars \/ dbPaths \/ openBackends => Calm
           /\ closeLedger \/ onLedgerClosed \/ changeHealth \/ onStop \/ sweep => Calm
           /\ storeBackend \/ storeEnd => Calm
           /\ \A n : storeInternal(n) => Calm
           /\ \A b : writeBatch(b) => Calm
  <1>. USE DEF store, server, imp
  <1>1. ASSUME UNCHANGED vars PROVE Calm
    BY <1>1 DEF Calm, vars
  <1>2. ASSUME dbPaths PROVE Calm
    BY <1>2 DEF Calm, dbPaths
  <1>3. ASSUME openBackends PROVE Calm
    BY <1>3 DEF Calm, openBackends
  <1>4. ASSUME closeLedger PROVE Calm
    BY <1>4 DEF Calm, closeLedger
  <1>5. ASSUME onLedgerClosed PROVE Calm
    BY <1>5 DEF Calm, onLedgerClosed
  <1>6. ASSUME changeHealth PROVE Calm
    BY <1>6 DEF Calm, changeHealth
  <1>7. ASSUME onStop PROVE Calm
    BY <1>7 DEF Calm, onStop
  <1>8. ASSUME sweep PROVE Calm
    BY <1>8 DEF Calm, sweep
  <1>9. ASSUME storeBackend PROVE Calm
    BY <1>9 DEF Calm, storeBackend
  <1>10. ASSUME storeEnd PROVE Calm
    BY <1>10 DEF Calm, storeEnd
  <1>11. ASSUME NEW n, storeInternal(n) PROVE Calm
    BY <1>11 DEF Calm, storeInternal
  <1>12. ASSUME NEW b, writeBatch(b) PROVE Calm
    BY <1>12 DEF Calm, writeBatch
  <1>. QED
    BY <1>1, <1>2, <1>3, <1>4, <1>5, <1>6, <1>7, <1>8, <1>9, <1>10, <1>11, <1>12

LEMMA CalmFetches ==
    ASSUME NEW w
    PROVE  /\ \A n : doFetch(w, n) => Calm
           /\ FetchStep(w) => Calm \/ Crashed
  <1>. USE DEF store, server, imp
  <1>1. ASSUME NEW n, doFetch(w, n) PROVE Calm
    BY <1>1 DEF Calm, doFetch
  <1>2. ASSUME fetchWritable(w) PROVE Calm
    BY <1>2 DEF Calm, fetchWritable
  <1>3. ASSUME fetchArchive(w) PROVE Calm
    BY <1>3 DEF Calm, fetchArchive
  <1>4. ASSUME fetchFound(w) PROVE Calm
    BY <1>4 DEF Calm, fetchFound
  <1>5. ASSUME fetchRetry(w) PROVE Calm
    BY <1>5 DEF Calm, fetchRetry
  <1>6. ASSUME fetchGiveUp(w) PROVE Calm
    BY <1>6 DEF Calm, fetchGiveUp
  <1>7. ASSUME fetchCopy(w) PROVE Calm
    BY <1>7 DEF Calm, fetchCopy
  <1>8. ASSUME fetchArchiveEnd(w), ~Crashed PROVE Calm
    BY <1>8 DEF Calm, fetchArchiveEnd
  <1>. QED  BY <1>1, <1>2, <1>3, <1>4, <1>5, <1>6, <1>7, <1>8 DEF FetchStep

LEMMA CalmRun ==
    ASSUME Inv
    PROVE  /\ top \/ freshenCaches \/ makeBackendRotating => Calm
           /\ setState \/ rotateBackends \/ dropOld => Calm
           /\ \A n : visit(n) => Calm
           /\ \A pc : Interrupted(pc) => Calm
  <1>. USE DEF Elsewhere, server
  <1>1. IsRecord(run, RunFields)
    BY DEF Inv, Types, RunFields
  <1>. DEFINE Rest == UNCHANGED <<cleared, allowed, setup, canDelete, complete, built, phase>>
  <1>2. ASSUME top PROVE Calm
    <2>1. run'.table = run.table /\ run'.pc \in {"stopped", "wait"}
      BY <1>1, <1>2 DEF top, IsRecord, RunFields
    <2>2. Rest /\ saved' = saved
      BY <1>2 DEF top
    <2>. QED  BY <2>1, <2>2 DEF Calm
  <1>3. ASSUME NEW pc, Interrupted(pc) PROVE Calm
    <2>1. run'.table = run.table /\ run'.pc \in {"stopped", "top"}
      BY <1>1, <1>3 DEF Interrupted, Halt, IsRecord, RunFields
    <2>2. Rest /\ saved' = saved
      BY <1>3 DEF Interrupted
    <2>. QED  BY <2>1, <2>2 DEF Calm
  <1>4. ASSUME freshenCaches PROVE Calm
    <2>1. run'.table = run.table /\ run'.pc = "freshen"
      BY <1>1, <1>4 DEF freshenCaches, IsRecord, RunFields
    <2>2. Rest /\ saved' = saved
      BY <1>4 DEF freshenCaches
    <2>. QED  BY <2>1, <2>2 DEF Calm
  <1>5. ASSUME makeBackendRotating PROVE Calm
    <2>1. run'.table = run.table /\ run'.pc = "made"
      BY <1>1, <1>5 DEF makeBackendRotating, IsRecord, RunFields
    <2>2. Rest /\ saved' = saved
      BY <1>5 DEF makeBackendRotating
    <2>. QED  BY <2>1, <2>2 DEF Calm
  <1>6. ASSUME setState PROVE Calm
    <2>1. run'.table = run.table /\ run'.pc = "locked"
      BY <1>1, <1>6 DEF setState, IsRecord, RunFields
    <2>2. Rest
      BY <1>6 DEF setState
    <2>3. saved'.canDelete = saved.canDelete
      BY <1>6 DEF setState, Inv, Types
    <2>. QED  BY <2>1, <2>2, <2>3 DEF Calm
  <1>7. ASSUME rotateBackends PROVE Calm
    <2>1. run'.table = run.table /\ run'.pc = "drop"
      BY <1>1, <1>7 DEF rotateBackends, IsRecord, RunFields
    <2>2. Rest /\ saved' = saved
      BY <1>7 DEF rotateBackends
    <2>. QED  BY <2>1, <2>2 DEF Calm
  <1>8. ASSUME dropOld PROVE Calm
    <2>1. run'.table = run.table /\ run'.pc = "top"
      BY <1>1, <1>8 DEF dropOld, IsRecord, RunFields
    <2>2. Rest /\ saved' = saved
      BY <1>8 DEF dropOld
    <2>. QED  BY <2>1, <2>2 DEF Calm
  <1>9. ASSUME NEW n, visit(n) PROVE Calm
    <2>1. run'.table = run.table /\ run'.pc = run.pc /\ run.pc \in {"copy", "freshen"}
      BY <1>1, <1>9 DEF visit, IsRecord, RunFields
    <2>2. Rest /\ saved' = saved
      BY <1>9 DEF visit
    <2>. QED  BY <2>1, <2>2 DEF Calm
  <1>. QED  BY <1>2, <1>3, <1>4, <1>5, <1>6, <1>7, <1>8, <1>9

LEMMA CrashClearing ==
    ASSUME Inv, Clearing, Released, Crashed
    PROVE  Clearing' /\ Released'
  <1>1. /\ UNCHANGED <<cleared, allowed, setup, saved, built>> /\ complete' = {}
        /\ phase' = "down" /\ canDelete' = Unlimited
        /\ run'.table = 1 /\ run'.pc = "top"
    BY DEF Crashed, Thread0
  <1>2. Unlimited \in Nat
    BY StoreAssumption DEF Unlimited
  <1>3. Clearing'
    BY <1>1 DEF Clearing, IsRecord, Tables
  <1>. QED  BY <1>1, <1>2, <1>3 DEF Released

LEMMA StartClearing ==
    ASSUME Inv, Clearing, Released, onStart
    PROVE  Clearing' /\ Released'
  <1>. USE DEF store, server
  <1>1. run'.table = 1 /\ run'.pc = "top" /\ saved'.canDelete = saved.canDelete
    BY DEF onStart, Thread0, Inv, Types
  <1>2. UNCHANGED <<cleared, allowed, setup, built, complete>>
    BY DEF onStart
  <1>3. Clearing'
    BY <1>1, <1>2 DEF Clearing, IsRecord, Tables
  <1>4. canDelete' = IF setup.advisoryDelete THEN saved.canDelete ELSE Unlimited
    BY DEF onStart
  <1>5. Unlimited \in Nat /\ saved.canDelete \in Nat
    BY StoreAssumption DEF Unlimited, Inv, Types
  <1>. QED  BY <1>1, <1>2, <1>3, <1>4, <1>5 DEF Released

LEMMA FullClearing ==
    ASSUME Inv, Clearing, Released, setFullLedger
    PROVE  Clearing' /\ Released'
  <1>. USE DEF store, imp
  <1>1. /\ UNCHANGED <<cleared, allowed, setup, saved, canDelete, phase, run>>
        /\ built' = built + 1 /\ complete' = complete \cup {built + 1}
    BY DEF setFullLedger
  <1>2. built \in Nat /\ run.lastRotated \in 0..built
    BY StoreAssumption DEF Inv, Types
  <1>3. Clearing'
    <2>1. \A t \in Tables : cleared[t] \in Nat /\ cleared[t] \leq built + 1 + 1
      BY <1>2 DEF Clearing
    <2>2. \A t \in Tables, s \in complete' : cleared[t] \leq s
      BY <1>1 DEF Clearing
    <2>3. run.pc = "sql" => \A s \in complete' : run.lastRotated \leq s
      BY <1>1, <1>2 DEF Clearing
    <2>. QED  BY <1>1, <1>2, <2>1, <2>2, <2>3 DEF Clearing, IsRecord
  <1>. QED  BY <1>1, <1>3 DEF Released

LEMMA PermitClearing ==
    ASSUME Inv, Clearing, Released, setCanDelete
    PROVE  Clearing' /\ Released'
  <1>. USE DEF store, server
  <1>1. UNCHANGED <<cleared, setup, built, complete, run, phase>>
    BY DEF setCanDelete
  <1>2. Clearing'
    BY <1>1 DEF Clearing, IsRecord
  <1>3. PICK s \in Ledger :
           /\ canDelete' = IF setup.advisoryDelete THEN s ELSE canDelete
           /\ saved' = [saved EXCEPT !.canDelete = s]
           /\ allowed' = IF s > allowed THEN s ELSE allowed
    BY DEF setCanDelete
  <1>4. saved'.canDelete = s
    BY <1>3 DEF Inv, Types
  <1>5. s \in Nat
    BY StoreAssumption DEF Ledger
  <1>6. allowed' \in Nat /\ s \leq allowed' /\ allowed \leq allowed'
    BY <1>3, <1>5 DEF Released
  <1>7. run.lastRotated \in Nat
    BY StoreAssumption DEF Inv, Types
  <1>. QED  BY <1>1, <1>2, <1>3, <1>4, <1>5, <1>6, <1>7 DEF Released, Clearing

LEMMA WakeClearing ==
    ASSUME Inv, Clearing, Released, wake
    PROVE  Clearing' /\ Released'
  <1>. USE DEF store, server
  <1>1. /\ UNCHANGED <<cleared, setup, built, complete, phase, canDelete, allowed>>
        /\ saved'.canDelete = saved.canDelete
    BY DEF wake, Inv, Types
  <1>2. IsRecord(run, RunFields)
    BY DEF Inv, Types, RunFields
  <1>3. CASE newLedger = 0 \/ ~due(newLedger)
    <2>1. run'.table = run.table /\ run'.pc = "top"
      BY <1>2, <1>3 DEF wake, IsRecord, RunFields
    <2>. QED  BY <1>1, <2>1, CalmClearing DEF Calm
  <1>4. CASE newLedger # 0 /\ due(newLedger)
    <2>1. run'.table = run.table /\ run'.pc = "clear" /\ run'.lastRotated = First(newLedger)
      BY <1>2, <1>4 DEF wake, IsRecord, RunFields
    <2>2. Clearing'
      BY <1>1, <2>1 DEF Clearing, IsRecord
    <2>3. canDelete \geq First(newLedger) - 1
      BY <1>4 DEF due
    <2>4. First(newLedger) \in Nat /\ phase = "up"
      BY StoreAssumption DEF First, Inv, Types, wake, At
    <2>5. setup.advisoryDelete => First(newLedger) \leq allowed + 1
      BY <2>3, <2>4 DEF Released
    <2>. QED  BY <1>1, <2>1, <2>2, <2>4, <2>5 DEF Released
  <1>. QED  BY <1>3, <1>4

LEMMA ForgetClearing ==
    ASSUME Inv, Clearing, Released, clearPriorLedgers
    PROVE  Clearing' /\ Released'
  <1>. USE DEF store
  <1>1. /\ UNCHANGED <<cleared, setup, built, saved, phase, canDelete, allowed>>
        /\ complete' = {s \in complete : s \geq run.lastRotated}
    BY DEF clearPriorLedgers
  <1>2. IsRecord(run, RunFields)
    BY DEF Inv, Types, RunFields
  <1>3. run'.table = 1 /\ run'.pc = "sql" /\ run'.lastRotated = run.lastRotated /\ run.pc = "clear"
    BY <1>2 DEF clearPriorLedgers, At, IsRecord, RunFields
  <1>4. run.lastRotated \in Nat
    BY StoreAssumption DEF Inv, Types
  <1>5. Clearing'
    BY <1>1, <1>3, <1>4 DEF Clearing, IsRecord, Tables
  <1>. QED  BY <1>1, <1>3, <1>5 DEF Released

LEMMA SqlClearing ==
    ASSUME Inv, Clearing, Released, clearSql
    PROVE  Clearing' /\ Released'
  <1>. USE DEF Elsewhere, server
  <1>1. UNCHANGED <<setup, built, complete, saved, phase, canDelete, allowed>> /\ run.pc = "sql"
    BY DEF clearSql, At
  <1>2. IsRecord(run, RunFields)
    BY DEF Inv, Types, RunFields
  <1>3. run.lastRotated \in 0..built /\ built \in Nat
    BY StoreAssumption DEF Inv, Types
  <1>4. CASE cleared[run.table] < run.lastRotated
    <2>1. /\ run' = run
          /\ cleared' = [cleared EXCEPT ![run.table] =
                            IF @ + deleteBatch \geq run.lastRotated
                            THEN run.lastRotated ELSE @ + deleteBatch]
      BY <1>4 DEF clearSql
    <2>2. IsRecord(cleared', Tables)
      BY <2>1 DEF Clearing, IsRecord
    <2>3. \A t \in Tables : /\ cleared'[t] \in Nat
                            /\ cleared'[t] = cleared[t] \/ cleared'[t] \leq run.lastRotated
      BY <2>1, <1>3, StoreAssumption DEF Clearing, IsRecord
    <2>4. Clearing'
      <3>1. \A t \in Tables : cleared'[t] \leq built + 1
        BY <1>3, <2>3 DEF Clearing
      <3>2. \A t \in Tables, s \in complete : cleared'[t] \leq s
        BY <1>1, <1>3, <2>3 DEF Clearing
      <3>. QED  BY <1>1, <2>1, <2>2, <2>3, <3>1, <3>2 DEF Clearing
    <2>5. setup.advisoryDelete => \A t \in Tables : cleared'[t] \leq allowed + 1
      BY <1>1, <1>3, <2>3 DEF Released, Clearing
    <2>. QED  BY <1>1, <2>1, <2>4, <2>5 DEF Released
  <1>5. CASE ~(cleared[run.table] < run.lastRotated)
    <2>1. /\ cleared' = cleared
          /\ run' = IF run.table < 3 THEN [run EXCEPT !.table = @ + 1]
                    ELSE [run EXCEPT !.pc = "copy", !.visited = 0,
                                     !.left = nodesOf[run.ledger]]
      BY <1>5 DEF clearSql
    <2>2. run'.table \in Tables /\ run'.lastRotated = run.lastRotated /\ run'.pc \in {"sql", "copy"}
      BY <1>1, <1>2, <2>1 DEF IsRecord, RunFields, Clearing, Tables
    <2>3. Clearing'
      BY <1>1, <2>1, <2>2 DEF Clearing, IsRecord
    <2>. QED  BY <1>1, <2>1, <2>2, <2>3 DEF Released
  <1>. QED  BY <1>4, <1>5

LEMMA ClearingInit == Init => Clearing /\ Released
  <1>. SUFFICES ASSUME Init PROVE Clearing /\ Released
    OBVIOUS
  <1>1. Unlimited \in Nat
    BY StoreAssumption DEF Unlimited
  <1>2. /\ run.table = 1 /\ run.pc = "top" /\ saved.canDelete = 0 /\ phase = "down"
        /\ complete = {} /\ built = 0 /\ allowed = 0 /\ canDelete = Unlimited
        /\ cleared = [t \in Tables |-> 1]
    BY DEF Init, Thread0
  <1>3. IsRecord(cleared, Tables) /\ \A t \in Tables : cleared[t] = 1
    BY <1>2 DEF IsRecord
  <1>4. Clearing
    BY <1>2, <1>3 DEF Clearing, Tables
  <1>. QED  BY <1>1, <1>2, <1>3, <1>4 DEF Released

LEMMA ClearingNext == Inv /\ Clearing /\ Released /\ [Next]_vars => Clearing' /\ Released'
  <1>. SUFFICES ASSUME Inv, Clearing, Released, [Next]_vars PROVE Clearing' /\ Released'
    OBVIOUS
  <1>1. CASE \/ UNCHANGED vars \/ dbPaths \/ openBackends
             \/ closeLedger \/ onLedgerClosed \/ changeHealth \/ onStop \/ sweep
             \/ \E b \in Backend : writeBatch(b)
    BY <1>1, CalmSteps, CalmClearing
  <1>2. CASE onStart \/ setCanDelete \/ wake
    BY <1>2, StartClearing, PermitClearing, WakeClearing
  <1>3. CASE crash
    BY <1>3, CrashClearing DEF crash
  <1>4. CASE WriteStep
    BY <1>4, CalmSteps, CalmClearing, FullClearing DEF WriteStep
  <1>5. CASE RunStep
    BY <1>5, CalmRun, CalmClearing, ForgetClearing, SqlClearing DEF RunStep
  <1>6. CASE \E w \in Fetcher : FetchStep(w) \/ \E n \in Node : doFetch(w, n)
    BY <1>6, CalmFetches, CalmClearing, CrashClearing
  <1>. QED  BY <1>1, <1>2, <1>3, <1>4, <1>5, <1>6 DEF Next

\* Rotations, interruptions of them, crashes and can_delete commands in any order
\* delete rows of old ledgers only: of none that is still listed as complete, and with
\* advisory deletion of none that was not released.
THEOREM DeletedHolds == Spec => []DeletedIsOld
  <1>1. Clearing /\ Released => DeletedIsOld
    BY DEF Clearing, Released, DeletedIsOld
  <1>. QED  BY <1>1, Invariance, ClearingInit, ClearingNext, PTL DEF Spec

--------------------------------------------------------------------------------
\* What most steps leave to the fetches and to the new backend.
Steady ==
    /\ UNCHANGED <<setup, phase, writable, archive, lost>>
    /\ dirs' \subseteq dirs /\ built' \in Nat /\ built \leq built'
    /\ \A b \in dirs : disk[b] \subseteq disk'[b]
    /\ ~setup.batched => \A b \in Backend : pending'[b] = {}
    /\ writer'.pc = "cached" => writer'.db = writable \/ UNCHANGED writer
    /\ Busy' => Busy /\ run'.ledger = run.ledger
    /\ run'.pc \in {"made", "locked"} =>
          UNCHANGED run /\ (~setup.batched => disk'[run.newDb] = disk[run.newDb])

LEMMA SteadyDirect == ASSUME Inv, Direct, Steady PROVE Direct'
  <1>1. ~setup'.batched => lost' = {} /\ \A b \in Backend : pending'[b] = {}
    BY DEF Steady, Direct
  <1>2. Busy' /\ writer'.pc = "cached" => writer'.db = writable'
    BY DEF Steady, Direct, Busy
  <1>3. ~setup'.batched /\ run'.pc \in {"made", "locked"} => disk'[run'.newDb] = {}
    BY DEF Steady, Direct
  <1>4. run'.pc = "locked" => run'.lastRotated = run'.ledger
    BY DEF Steady, Direct
  <1>. QED  BY <1>1, <1>2, <1>3, <1>4 DEF Direct, Busy

LEMMA SteadySeeking ==
    ASSUME Inv, NEW w \in Fetcher, Seeking(w), Steady, fetcher'[w] = fetcher[w]
    PROVE  Seeking(w)'
  <1>. DEFINE f == fetcher[w]
  <1>1. CASE f.pc = "idle"
    BY <1>1 DEF Seeking
  <1>2. CASE f.pc # "idle"
    <2>1. /\ phase = "up" /\ writable \in dirs /\ archive \in dirs
          /\ disk[writable] \subseteq disk'[writable]
          /\ disk[archive] \subseteq disk'[archive]
      BY <1>2 DEF Seeking, Inv, Names, Steady
    <2>2. f.live => Sought(f)'
      <3>. SUFFICES ASSUME f.live PROVE Sought(f)'
        OBVIOUS
      <3>1. Sought(f)
        BY <1>2 DEF Seeking
      <3>2. f' = f /\ writable' = writable /\ archive' = archive /\ dirs' \subseteq dirs
        BY DEF Steady
      <3>3. f.db \in dirs' => disk[f.db] \subseteq disk'[f.db]
        BY <3>2 DEF Steady
      <3>. QED  BY <2>1, <3>1, <3>2, <3>3 DEF Sought
    <2>3. f.live /\ Busy' => \E s \in Ledger : /\ run'.ledger \leq s /\ s \leq built'
                                              /\ f.key \in nodesOf[s]
      <3>. SUFFICES ASSUME f.live, Busy'
                    PROVE  \E s \in Ledger : /\ run'.ledger \leq s /\ s \leq built'
                                             /\ f.key \in nodesOf[s]
        OBVIOUS
      <3>1. Busy /\ run'.ledger = run.ledger /\ built \leq built'
        BY DEF Steady
      <3>2. PICK s \in Ledger : run.ledger \leq s /\ s \leq built /\ f.key \in nodesOf[s]
        BY <1>2, <3>1 DEF Seeking
      <3>3. built \in Nat /\ built' \in Nat /\ s \in Nat
        BY StoreAssumption DEF Inv, Types, Ledger, Steady
      <3>. QED  BY <3>1, <3>2, <3>3
    <2>4. f' = f /\ phase' = phase /\ setup' = setup /\ writable' = writable
          /\ archive' = archive /\ (Busy' => Busy)
      BY DEF Steady
    <2>. QED  BY <1>2, <2>2, <2>3, <2>4 DEF Seeking
  <1>. QED  BY <1>1, <1>2

LEMMA SteadyReading ==
    ASSUME Inv, Reading, Steady, UNCHANGED fetcher
    PROVE  Reading'
  <1>1. \A w \in Fetcher : Seeking(w)'
    BY SteadySeeking DEF Reading
  <1>. QED  BY <1>1 DEF Reading, IsRecord

\* Nobody reads: nothing is to be found.
LEMMA IdleReading ==
    ASSUME Reading, UNCHANGED fetcher, \A w \in Fetcher : fetcher[w].pc = "idle"
    PROVE  Reading'
  BY DEF Reading, Seeking, IsRecord

LEMMA AcceptDirect ==
    ASSUME NEW b \in Backend, NEW N, Types, Accept(b, N)
    PROVE  /\ \A c \in Backend : disk[c] \subseteq disk'[c]
           /\ \A c \in Backend : c # b => disk'[c] = disk[c]
           /\ ~setup.batched => pending' = pending
  BY DEF Accept, Types, IsRecord

\* Steps that leave the store and the rotation thread alone.
Beside == /\ UNCHANGED <<fetcher, setup, phase, writable, archive, lost, dirs, disk, pending, run>>
          /\ built' = built \/ built' = built + 1
          /\ writer'.pc = "cached" => writer'.db = writable \/ UNCHANGED writer

LEMMA BesideSteps ==
    ASSUME Inv
    PROVE  /\ UNCHANGED vars => Beside
           /\ closeLedger \/ onLedgerClosed \/ changeHealth => Beside
           /\ setCanDelete \/ onStop \/ sweep => Beside
           /\ storeEnd \/ setFullLedger => Beside
           /\ \A n : storeInternal(n) => Beside
  <1>. USE DEF store, server, imp
  <1>. IsRecord(writer, {"pc", "key", "db", "unsaved"})
    BY DEF Inv, Types
  <1>1. ASSUME UNCHANGED vars PROVE Beside
    BY <1>1 DEF Beside, vars
  <1>2. ASSUME closeLedger PROVE Beside
    BY <1>2 DEF Beside, closeLedger, Quiet
  <1>3. ASSUME onLedgerClosed PROVE Beside
    BY <1>3 DEF Beside, onLedgerClosed
  <1>4. ASSUME changeHealth PROVE Beside
    BY <1>4 DEF Beside, changeHealth
  <1>5. ASSUME setCanDelete PROVE Beside
    BY <1>5 DEF Beside, setCanDelete
  <1>6. ASSUME onStop PROVE Beside
    BY <1>6 DEF Beside, onStop
  <1>7. ASSUME sweep PROVE Beside
    BY <1>7 DEF Beside, sweep
  <1>8. ASSUME storeEnd PROVE Beside
    BY <1>8 DEF Beside, storeEnd, IsRecord
  <1>9. ASSUME setFullLedger PROVE Beside
    BY <1>9 DEF Beside, setFullLedger, Quiet
  <1>10. ASSUME NEW n, storeInternal(n) PROVE Beside
    BY <1>10 DEF Beside, storeInternal, IsRecord
  <1>. QED  BY <1>1, <1>2, <1>3, <1>4, <1>5, <1>6, <1>7, <1>8, <1>9, <1>10

LEMMA SteadyBeside ==
    ASSUME Inv, Direct, Beside
    PROVE  Steady /\ UNCHANGED fetcher
  <1>1. built \in Nat
    BY StoreAssumption DEF Inv, Types
  <1>. QED  BY <1>1 DEF Beside, Steady, Direct, Busy

LEMMA SteadyWrites ==
    ASSUME Inv, Direct, storeBackend
    PROVE  Steady /\ UNCHANGED fetcher
  <1>. USE DEF store, server, imp
  <1>1. /\ UNCHANGED <<fetcher, setup, phase, writable, archive, lost, dirs, run, built>>
        /\ phase = "up"
    BY DEF storeBackend
  <1>2. built \in Nat /\ dirs \subseteq Backend /\ writable \in dirs /\ archive \in dirs
    BY <1>1, StoreAssumption DEF Inv, Types, Names
  <1>3. run.pc \in {"made", "locked"} => run.newDb \in Backend /\ run.newDb # writable
    BY <1>1, <1>2 DEF Inv, Names
  <1>4. Accept(writer.db, {writer.key}) /\ writer.pc = "cached"
    BY DEF storeBackend
  <1>5. writer.db \in Backend
    BY <1>1, <1>4 DEF Inv, Types, Names, Writing
  <1>6. Busy => writer.db = writable
    BY <1>4 DEF Direct, Busy
  <1>7. writer'.pc = "stored"
    BY DEF storeBackend, Inv, Types, IsRecord
  <1>8. /\ \A c \in Backend : disk[c] \subseteq disk'[c]
        /\ \A c \in Backend : c # writer.db => disk'[c] = disk[c]
        /\ ~setup.batched => pending' = pending
    BY <1>4, <1>5, AcceptDirect DEF Inv
  <1>9. run.pc \in {"made", "locked"} => disk'[run.newDb] = disk[run.newDb]
    BY <1>3, <1>6, <1>8 DEF Busy, Before
  <1>. QED  BY <1>1, <1>2, <1>7, <1>8, <1>9 DEF Steady, Direct, Busy

LEMMA SteadyBatch ==
    ASSUME Inv, Direct, NEW b \in Backend, writeBatch(b)
    PROVE  Steady /\ UNCHANGED fetcher
  <1>. USE DEF store, server, imp
  <1>1. UNCHANGED <<fetcher, setup, phase, writable, archive, lost, dirs, run, built, writer>>
    BY DEF writeBatch
  <1>2. built \in Nat /\ dirs \subseteq Backend
    BY StoreAssumption DEF Inv, Types
  <1>3. setup.batched
    BY DEF writeBatch, Direct
  <1>4. \A c \in Backend : disk[c] \subseteq disk'[c]
    BY DEF writeBatch, Inv, Types, IsRecord
  <1>. QED  BY <1>1, <1>2, <1>3, <1>4 DEF Steady, Busy

\* Steps of the rotation thread that leave the store alone.
Aside == /\ UNCHANGED <<fetcher, setup, phase, writable, archive, lost, dirs, disk, pending,
                        built, writer>>
         /\ run'.pc \notin {"made", "locked"}
         /\ Busy' => Busy /\ run'.ledger = run.ledger

LEMMA AsideSteps ==
    ASSUME Inv
    PROVE  /\ top \/ clearPriorLedgers \/ clearSql \/ freshenCaches => Aside
           /\ wake /\ (newLedger = 0 \/ ~due(newLedger)) => Aside
           /\ \A pc : Interrupted(pc) => Aside
  <1>. USE DEF store, server, Elsewhere
  <1>1. IsRecord(run, RunFields)
    BY DEF Inv, Types, RunFields
  <1>. DEFINE Rest == UNCHANGED <<fetcher, setup, phase, writable, archive, lost, dirs, disk,
                                  pending, built, writer>>
  <1>2. ASSUME top PROVE Aside
    <2>1. Rest
      BY <1>2 DEF top
    <2>2. run'.pc \in {"stopped", "wait"}
      BY <1>1, <1>2 DEF top, IsRecord, RunFields
    <2>. QED  BY <2>1, <2>2 DEF Aside, Busy, Before
  <1>3. ASSUME clearPriorLedgers PROVE Aside
    <2>1. Rest
      BY <1>3 DEF clearPriorLedgers
    <2>2. run'.pc = "sql" /\ run.pc = "clear" /\ run'.ledger = run.ledger
      BY <1>1, <1>3 DEF clearPriorLedgers, At, IsRecord, RunFields
    <2>. QED  BY <2>1, <2>2 DEF Aside, Busy, Before
  <1>4. ASSUME clearSql PROVE Aside
    <2>1. Rest
      BY <1>4 DEF clearSql
    <2>2. run'.pc \in {"sql", "copy"} /\ run.pc = "sql" /\ run'.ledger = run.ledger
      BY <1>1, <1>4 DEF clearSql, At, IsRecord, RunFields
    <2>. QED  BY <2>1, <2>2 DEF Aside, Busy, Before
  <1>5. ASSUME freshenCaches PROVE Aside
    <2>1. Rest
      BY <1>5 DEF freshenCaches
    <2>2. run'.pc = "freshen" /\ run.pc = "copy" /\ run'.ledger = run.ledger
      BY <1>1, <1>5 DEF freshenCaches, At, IsRecord, RunFields
    <2>. QED  BY <2>1, <2>2 DEF Aside, Busy, Before
  <1>6. ASSUME wake, newLedger = 0 \/ ~due(newLedger) PROVE Aside
    <2>1. Rest
      BY <1>6 DEF wake
    <2>2. run'.pc = "top"
      BY <1>1, <1>6 DEF wake, IsRecord, RunFields
    <2>. QED  BY <2>1, <2>2 DEF Aside, Busy, Before
  <1>7. ASSUME NEW pc, Interrupted(pc) PROVE Aside
    <2>1. Rest
      BY <1>7 DEF Interrupted
    <2>2. run'.pc \in {"stopped", "top"}
      BY <1>1, <1>7 DEF Interrupted, Halt, IsRecord, RunFields
    <2>. QED  BY <2>1, <2>2 DEF Aside, Busy, Before
  <1>. QED  BY <1>2, <1>3, <1>4, <1>5, <1>6, <1>7

LEMMA SteadyAside ==
    ASSUME Inv, Direct, Aside
    PROVE  Steady /\ UNCHANGED fetcher
  <1>1. built \in Nat
    BY StoreAssumption DEF Inv, Types
  <1>. QED  BY <1>1 DEF Aside, Steady, Direct

LEMMA SteadyVisit ==
    ASSUME Inv, Direct, NEW n \in run.left, visit(n)
    PROVE  Steady /\ UNCHANGED fetcher
  <1>. USE DEF server, Elsewhere
  <1>1. /\ UNCHANGED <<fetcher, setup, phase, writable, archive, lost, dirs, built, writer>>
        /\ phase = "up"
    BY DEF visit
  <1>2. built \in Nat /\ dirs \subseteq Backend /\ writable \in dirs
    BY <1>1, StoreAssumption DEF Inv, Types, Names
  <1>3. /\ run.pc \in {"copy", "freshen"} /\ run'.pc = run.pc /\ run'.ledger = run.ledger
    BY DEF visit, Inv, Types, IsRecord
  <1>4. /\ \A c \in Backend : disk[c] \subseteq disk'[c]
        /\ ~setup.batched => pending' = pending
    <2>1. CASE n \in disk[archive] \ disk[writable]
      BY <1>2, <2>1, AcceptDirect DEF visit, Inv
    <2>2. CASE ~(n \in disk[archive] \ disk[writable])
      BY <2>2 DEF visit
    <2>. QED  BY <2>1, <2>2
  <1>. QED  BY <1>1, <1>2, <1>3, <1>4 DEF Steady, Busy, Direct

LEMMA SteadyDrop ==
    ASSUME Inv, Direct, dropOld
    PROVE  Steady /\ UNCHANGED fetcher
  <1>. USE DEF server, Elsewhere
  <1>1. /\ UNCHANGED <<fetcher, setup, phase, writable, archive, lost, disk, built, writer>>
        /\ dirs' \subseteq dirs /\ pending' = [pending EXCEPT ![run.oldDb] = {}]
    BY DEF dropOld
  <1>2. built \in Nat /\ run'.pc = "top" /\ IsRecord(pending, Backend)
    BY StoreAssumption DEF dropOld, Inv, Types, IsRecord
  <1>3. ~setup.batched => \A b \in Backend : pending'[b] = {}
    BY <1>1, <1>2 DEF Direct, IsRecord
  <1>. QED  BY <1>1, <1>2, <1>3 DEF Steady, Busy, Before

\* At the end of a rotation the new backend is empty, so a node of a ledger that is
\* kept is in the backend that was written until then, the archive from now on.
LEMMA RotateReading ==
    ASSUME Inv, Direct, Reading, rotateBackends
    PROVE  Direct' /\ Reading'
  <1>. USE DEF server, Elsewhere
  <1>1. /\ UNCHANGED <<fetcher, setup, phase, lost, dirs, disk, pending, built, writer>>
        /\ writable' = run.newDb /\ archive' = writable
        /\ phase = "up" /\ run.pc = "locked"
    BY DEF rotateBackends, At
  <1>2. run'.pc = "drop" /\ ~Busy'
    BY DEF rotateBackends, Inv, Types, IsRecord, Busy, Before
  <1>3. Direct'
    BY <1>1, <1>2 DEF Direct, Busy
  <1>4. ASSUME NEW w \in Fetcher, fetcher[w].pc # "idle", fetcher[w].live
        PROVE  fetcher[w].key \in disk[writable]
    <2>1. PICK s \in Ledger : /\ run.ledger \leq s /\ s \leq built
                              /\ fetcher[w].key \in nodesOf[s]
      BY <1>1, <1>4 DEF Reading, Seeking, Busy
    <2>2. SW = run.newDb /\ SA = writable /\ saved.lastRotated = run.ledger
      BY <1>1 DEF Inv, Names, Direct
    <2>3. ~setup.batched
      BY <1>4 DEF Reading, Seeking
    <2>4. lost = {} /\ disk[run.newDb] = {}
      BY <1>1, <2>3 DEF Direct
    <2>5. nodesOf[s] \subseteq Held(run.newDb) \cup Held(writable)
      BY <2>1, <2>2, <2>4 DEF Inv, KeptAll
    <2>6. run.newDb \in Backend /\ writable \in Backend
      BY <1>1 DEF Inv, Names, Types
    <2>7. Held(run.newDb) = {} /\ Held(writable) = disk[writable]
      BY <2>3, <2>4, <2>6, StoreAssumption DEF Held, Direct
    <2>. QED  BY <2>1, <2>5, <2>7
  <1>5. ASSUME NEW w \in Fetcher PROVE Seeking(w)'
    <2>. DEFINE f == fetcher[w]
    <2>1. CASE f.pc = "idle"
      BY <1>1, <2>1 DEF Reading, Seeking
    <2>2. CASE f.pc # "idle"
      <3>1. f.db \in {writable, archive} /\ f.db \in Backend
        BY <1>1, <2>2 DEF Reading, Seeking, Busy
      <3>2. writable \in dirs /\ archive \in dirs
        BY <1>1 DEF Inv, Names
      <3>3. f.live => Sought(f)'
        <4>. SUFFICES ASSUME f.live PROVE Sought(f)'
          OBVIOUS
        <4>1. f.key \in disk[writable]
          BY <1>4, <2>2
        <4>2. Sought(f)
          BY <2>2 DEF Reading, Seeking
        <4>3. f.pc = "writable" => f.db = writable
          BY <1>1, <2>2 DEF Reading, Seeking, Busy
        <4>. QED  BY <1>1, <3>1, <4>1, <4>2, <4>3 DEF Sought
      <3>. QED  BY <1>1, <1>2, <2>2, <3>1, <3>3 DEF Reading, Seeking
    <2>. QED  BY <2>1, <2>2
  <1>. QED  BY <1>1, <1>3, <1>5 DEF Reading, IsRecord

LEMMA MakeReading ==
    ASSUME Inv, Direct, Reading, makeBackendRotating
    PROVE  Direct' /\ Reading'
  <1>. USE DEF server, Elsewhere
  <1>1. /\ UNCHANGED <<fetcher, setup, phase, lost, pending, built, writer, writable, archive>>
        /\ phase = "up" /\ run.pc = "freshen" /\ dirs # Backend
    BY DEF makeBackendRotating, At
  <1>8. dirs' = dirs \cup {FreshDb} /\ disk' = [disk EXCEPT ![FreshDb] = {}]
    BY DEF makeBackendRotating
  <1>2. run'.pc = "made" /\ run'.newDb = FreshDb /\ run'.ledger = run.ledger
    BY DEF makeBackendRotating, Inv, Types, IsRecord
  <1>3. FreshDb \in Backend /\ FreshDb \notin dirs
    BY <1>1 DEF FreshDb, Inv, Types
  <1>4. disk'[FreshDb] = {} /\ \A b \in dirs : disk'[b] = disk[b]
    BY <1>8, <1>3 DEF Inv, Types, IsRecord
  <1>5. Busy /\ Busy'
    BY <1>1, <1>2 DEF Busy, Before
  <1>6. Direct'
    BY <1>1, <1>2, <1>4, <1>5 DEF Direct, Busy
  <1>7. ASSUME NEW w \in Fetcher PROVE Seeking(w)'
    <2>. DEFINE f == fetcher[w]
    <2>1. CASE f.pc = "idle"
      BY <1>1, <2>1 DEF Reading, Seeking
    <2>2. CASE f.pc # "idle"
      <3>1. f.db \in {writable, archive} /\ f.db \in Backend
        BY <1>5, <2>2 DEF Reading, Seeking
      <3>2. writable \in dirs /\ archive \in dirs
        BY <1>1 DEF Inv, Names
      <3>3. f.live => Sought(f)'
        <4>. SUFFICES ASSUME f.live PROVE Sought(f)'
          OBVIOUS
        <4>1. Sought(f)
          BY <2>2 DEF Reading, Seeking
        <4>. QED  BY <1>1, <1>4, <1>8, <3>1, <3>2, <4>1 DEF Sought
      <3>. QED  BY <1>1, <1>2, <1>5, <2>2, <3>1, <3>3 DEF Reading, Seeking
    <2>. QED  BY <2>1, <2>2
  <1>. QED  BY <1>1, <1>6, <1>7 DEF Reading, IsRecord

LEMMA SetStateReading ==
    ASSUME Inv, Direct, Reading, setState
    PROVE  Direct' /\ Reading'
  <1>. USE DEF store, server, Elsewhere
  <1>1. /\ UNCHANGED <<fetcher, setup, phase, lost, pending, built, writer, writable, archive,
                       dirs, disk>>
        /\ run.pc = "made"
    BY DEF setState, At
  <1>2. /\ run'.pc = "locked" /\ run'.newDb = run.newDb /\ run'.ledger = run.ledger
        /\ run'.lastRotated = run.ledger
    BY DEF setState, Inv, Types, IsRecord
  <1>3. Busy /\ Busy'
    BY <1>1, <1>2 DEF Busy, Before
  <1>4. Direct'
    BY <1>1, <1>2, <1>3 DEF Direct, Busy
  <1>5. ASSUME NEW w \in Fetcher PROVE Seeking(w)'
    <2>1. Seeking(w)
      BY DEF Reading
    <2>2. Sought(fetcher[w])' <=> Sought(fetcher[w])
      BY <1>1 DEF Sought
    <2>. QED  BY <1>1, <1>2, <1>3, <2>1, <2>2 DEF Seeking
  <1>. QED  BY <1>1, <1>4, <1>5 DEF Reading, IsRecord

\* A rotation begins when nobody reads and nothing is being stored elsewhere.
LEMMA WakeReading ==
    ASSUME Inv, Direct, Reading, wake, newLedger # 0, due(newLedger)
    PROVE  Direct' /\ Reading'
  <1>. USE DEF store, server
  <1>1. /\ UNCHANGED <<fetcher, setup, phase, lost, pending, built, writer, writable, archive,
                       dirs, disk>>
        /\ Timely /\ phase = "up" /\ run.pc = "wait"
    BY DEF wake, At
  <1>2. run'.pc = "clear"
    BY DEF wake, Inv, Types, IsRecord
  <1>3. writer.pc = "cached" => writer.db = writable
    BY <1>1, StoreAssumption DEF Timely, Inv, Types, Names, Writing
  <1>4. Direct'
    BY <1>1, <1>2, <1>3 DEF Direct
  <1>5. Reading'
    BY <1>1, IdleReading DEF Timely
  <1>. QED  BY <1>4, <1>5

LEMMA DownReading ==
    ASSUME Inv, Direct, Reading, dbPaths \/ openBackends \/ onStart
    PROVE  Direct' /\ Reading'
  <1>. USE DEF store, server
  <1>1. /\ phase # "up" /\ UNCHANGED <<fetcher, setup, lost, pending, writer>>
        /\ run'.pc = "top"
    <2>1. CASE dbPaths
      BY <2>1 DEF dbPaths, imp, Inv, Names
    <2>2. CASE openBackends
      BY <2>2 DEF openBackends, imp, Inv, Names
    <2>3. CASE onStart
      BY <2>3 DEF onStart, Thread0
    <2>. QED  BY <2>1, <2>2, <2>3
  <1>2. Direct'
    BY <1>1 DEF Direct, Before
  <1>3. \A w \in Fetcher : fetcher[w].pc = "idle"
    BY <1>1 DEF Reading, Seeking
  <1>. QED  BY <1>1, <1>2, <1>3, IdleReading

LEMMA CrashReading ==
    ASSUME Inv, Direct, Crashed
    PROVE  Direct' /\ Reading'
  <1>1. /\ setup' = setup /\ fetcher' = [w \in Fetcher |-> Idle]
        /\ pending' = [b \in Backend |-> {}]
        /\ lost' = lost \cup UNION {pending[b] \ disk[b] : b \in Backend}
        /\ run'.pc = "top"
    BY DEF Crashed, Thread0
  <1>2. ~setup.batched => lost' = {}
    BY <1>1 DEF Direct
  <1>3. Direct'
    BY <1>1, <1>2 DEF Direct, Before
  <1>4. IsRecord(Idle, {"pc", "key", "db", "live"}) /\ Idle.pc = "idle"
    BY DEF Idle, IsRecord
  <1>5. IsRecord(fetcher', Fetcher) /\ \A w \in Fetcher : fetcher'[w] = Idle
    BY <1>1 DEF IsRecord
  <1>. QED  BY <1>3, <1>4, <1>5 DEF Reading, Seeking

\* A step of one fetch.
LEMMA OneReads ==
    ASSUME Inv, Reading, Steady, NEW w \in Fetcher, NEW g,
           fetcher' = [fetcher EXCEPT ![w] = g], Seeking(w)'
    PROVE  Reading'
  <1>1. IsRecord(fetcher', Fetcher) /\ \A v \in Fetcher : v # w => fetcher'[v] = fetcher[v]
    BY DEF Reading, IsRecord
  <1>2. \A v \in Fetcher : v # w => Seeking(v)'
    BY <1>1, SteadySeeking DEF Reading
  <1>. QED  BY <1>1, <1>2 DEF Reading

\* A fetch that ends.
LEMMA Ends ==
    ASSUME Reading, NEW w \in Fetcher, fetcher' = [fetcher EXCEPT ![w] = Idle]
    PROVE  Seeking(w)'
  <1>1. fetcher'[w] = Idle
    BY DEF Reading, IsRecord
  <1>2. IsRecord(Idle, {"pc", "key", "db", "live"}) /\ Idle.pc = "idle"
    BY DEF Idle, IsRecord
  <1>. QED  BY <1>1, <1>2 DEF Seeking

\* A fetch that has found what it looks for.
LEMMA Finds ==
    ASSUME Reading, NEW w \in Fetcher, fetcher[w].pc # "idle",
           NEW to \in {"found", "archived", "give up"},
           fetcher' = [fetcher EXCEPT ![w].pc = to],
           UNCHANGED <<writable, archive, phase, setup, run, built>>
    PROVE  Seeking(w)'
  <1>1. IsRecord(fetcher, Fetcher) /\ Seeking(w)
    BY DEF Reading
  <1>2. /\ IsRecord(fetcher'[w], {"pc", "key", "db", "live"}) /\ fetcher'[w].pc = to
        /\ fetcher'[w].key = fetcher[w].key /\ fetcher'[w].db = fetcher[w].db
        /\ fetcher'[w].live = fetcher[w].live
    BY <1>1 DEF IsRecord, Seeking
  <1>3. Sought(fetcher[w])'
    BY <1>2 DEF Sought
  <1>4. Busy' = Busy
    BY DEF Busy
  <1>5. /\ phase' = "up" /\ fetcher'[w].db \in Backend
        /\ Busy' => \/ fetcher'[w].db = writable'
                    \/ fetcher'[w].db = archive' /\ fetcher'[w].pc # "writable"
    BY <1>1, <1>2, <1>4 DEF Seeking
  <1>6. fetcher'[w].live =>
           /\ ~setup'.batched
           /\ Busy' => \E s \in Ledger : /\ run'.ledger \leq s /\ s \leq built'
                                          /\ fetcher'[w].key \in nodesOf[s]
    BY <1>1, <1>2, <1>4 DEF Seeking
  <1>. QED  BY <1>2, <1>3, <1>5, <1>6 DEF Seeking

\* Everything a step of a fetch other than its copy leaves alone.
Reads == /\ UNCHANGED <<setup, dirs, disk, writable, archive, pending, phase, built, writer, run,
                        lost>>
         /\ phase = "up"

LEMMA SteadyReads == ASSUME Inv, Direct, Reads PROVE Steady
  <1>1. built \in Nat
    BY StoreAssumption DEF Inv, Types
  <1>. QED  BY <1>1 DEF Reads, Steady, Direct, Busy

LEMMA BeginReading ==
    ASSUME Inv, Direct, Reading, NEW w \in Fetcher, NEW n \in Node, doFetch(w, n)
    PROVE  Direct' /\ Reading'
  <1>. DEFINE live == /\ ~setup.batched /\ n \in nodesOf[built]
                      /\ n \in disk[writable] \cup disk[archive]
              g == [pc |-> "writable", key |-> n, db |-> writable, live |-> live]
  <1>1. built \in Nat /\ run.ledger \in 0..built
    BY StoreAssumption DEF Inv, Types
  <1>2. n \in nodesOf[built] => built \in Ledger
    <2>1. built \in 0..LastLedger
      BY DEF Inv, Types
    <2>. QED  BY <2>1, StoreAssumption DEF Ledger
  <1>3. Reads /\ fetcher' = [fetcher EXCEPT ![w] = g]
    BY DEF doFetch, Reads, Fetching, store, server, imp
  <1>4. Steady
    BY <1>3, SteadyReads
  <1>5. writable \in Backend /\ phase = "up"
    BY <1>3 DEF Reads, Inv, Types, Names
  <1>6. /\ IsRecord(g, {"pc", "key", "db", "live"})
        /\ g.pc = "writable" /\ g.key = n /\ g.db = writable /\ g.live = live
    BY DEF IsRecord
  <1>. HIDE DEF g
  <1>7. fetcher'[w] = g
    BY <1>3 DEF Reading, IsRecord
  <1>8. g.live => Sought(fetcher[w])'
    BY <1>3, <1>6, <1>7 DEF Reads, Sought
  <1>9. g.live => \E s \in Ledger : run.ledger \leq s /\ s \leq built /\ g.key \in nodesOf[s]
    <2>1. g.live => n \in nodesOf[built]
      BY <1>6
    <2>2. run.ledger \leq built /\ built \leq built
      BY <1>1
    <2>. HIDE DEF live
    <2>. QED  BY <1>2, <1>6, <2>1, <2>2
  <1>10. g.live => ~setup.batched
    BY <1>6
  <1>. HIDE DEF live
  <1>11. Seeking(w)'
    BY <1>3, <1>5, <1>6, <1>7, <1>8, <1>9, <1>10 DEF Reads, Seeking
  <1>. QED  BY <1>3, <1>4, <1>11, OneReads, SteadyDirect

LEMMA WritableReading ==
    ASSUME Inv, Direct, Reading, NEW w \in Fetcher, fetchWritable(w)
    PROVE  Direct' /\ Reading'
  <1>. DEFINE f == fetcher[w]
              to == IF f.key \in disk[f.db] THEN "found" ELSE "missed"
  <1>1. /\ Reads /\ f.pc = "writable" /\ fetcher' = [fetcher EXCEPT ![w].pc = to]
    BY DEF fetchWritable, Fetching, Step, Reads, store, server, imp
  <1>2. Steady
    BY <1>1, SteadyReads
  <1>3. IsRecord(fetcher, Fetcher) /\ Seeking(w)
    BY DEF Reading
  <1>4. Seeking(w)'
    <2>1. CASE to = "found"
      <3>1. UNCHANGED <<writable, archive, phase, setup, run, built>>
        BY <1>1 DEF Reads
      <3>2. fetcher' = [fetcher EXCEPT ![w].pc = "found"]
        BY <1>1, <2>1
      <3>. QED  BY <1>1, <3>1, <3>2, Finds
    <2>2. CASE to # "found"
      <3>0. to = "missed" /\ f.key \notin disk[f.db]
        BY <2>2
      <3>1. /\ IsRecord(fetcher'[w], {"pc", "key", "db", "live"}) /\ fetcher'[w].pc = "missed"
            /\ fetcher'[w].key = f.key /\ fetcher'[w].db = f.db
            /\ fetcher'[w].live = f.live
        BY <1>1, <1>3, <3>0 DEF IsRecord, Seeking
      <3>2. f.live => f.key \in disk[archive]
        BY <1>1, <1>3, <3>0 DEF Seeking, Sought
      <3>3. f.live => Sought(fetcher[w])'
        BY <1>1, <3>1, <3>2 DEF Sought, Reads
      <3>. QED  BY <1>1, <1>3, <3>1, <3>3 DEF Seeking, Reads, Busy
    <2>. QED  BY <2>1, <2>2
  <1>5. fetcher' = [fetcher EXCEPT ![w] = fetcher'[w]]
    BY <1>1, <1>3 DEF IsRecord
  <1>. QED  BY <1>2, <1>4, <1>5, OneReads, SteadyDirect

LEMMA ArchiveReading ==
    ASSUME Inv, Direct, Reading, NEW w \in Fetcher, fetchArchive(w)
    PROVE  Direct' /\ Reading'
  <1>. DEFINE f == fetcher[w]
  <1>1. /\ Reads /\ f.pc = "missed"
        /\ fetcher' = [fetcher EXCEPT ![w].pc = "archive", ![w].db = archive]
    BY DEF fetchArchive, Fetching, Reads, store, server, imp
  <1>2. Steady
    BY <1>1, SteadyReads
  <1>3. IsRecord(fetcher, Fetcher) /\ Seeking(w)
    BY DEF Reading
  <1>4. /\ IsRecord(fetcher'[w], {"pc", "key", "db", "live"}) /\ fetcher'[w].pc = "archive"
        /\ fetcher'[w].key = f.key /\ fetcher'[w].db = archive
        /\ fetcher'[w].live = f.live
    BY <1>1, <1>3 DEF IsRecord, Seeking
  <1>5. f.live => f.key \in disk[archive]
    BY <1>1, <1>3 DEF Seeking, Sought
  <1>6. f.live => Sought(fetcher[w])'
    BY <1>1, <1>4, <1>5 DEF Sought, Reads
  <1>7. archive \in Backend
    BY <1>1 DEF Reads, Inv, Types, Names
  <1>8. Seeking(w)'
    BY <1>1, <1>3, <1>4, <1>6, <1>7 DEF Seeking, Reads, Busy
  <1>9. fetcher' = [fetcher EXCEPT ![w] = fetcher'[w]]
    BY <1>1, <1>3 DEF IsRecord
  <1>. QED  BY <1>2, <1>8, <1>9, OneReads, SteadyDirect

LEMMA ArchiveEndReading ==
    ASSUME Inv, Direct, Reading, NEW w \in Fetcher, fetchArchiveEnd(w), ~Crashed
    PROVE  Direct' /\ Reading'
  <1>. DEFINE f == fetcher[w]
  <1>1. Reads /\ f.pc = "archive"
    BY DEF fetchArchiveEnd, Fetching, Reads, store, server, imp
  <1>2. PICK to \in {"archived", "absent"} :
           /\ fetcher' = [fetcher EXCEPT ![w].pc = to]
           /\ to = "absent" => f.db \notin dirs \/ f.key \notin disk[f.db]
    BY DEF fetchArchiveEnd, Step
  <1>3. Steady
    BY <1>1, SteadyReads
  <1>4. IsRecord(fetcher, Fetcher) /\ Seeking(w)
    BY DEF Reading
  <1>5. Seeking(w)'
    <2>1. CASE to = "archived"
      <3>1. UNCHANGED <<writable, archive, phase, setup, run, built>>
        BY <1>1 DEF Reads
      <3>2. fetcher' = [fetcher EXCEPT ![w].pc = "archived"]
        BY <1>2, <2>1
      <3>. QED  BY <1>1, <3>1, <3>2, Finds
    <2>2. CASE to = "absent"
      <3>1. /\ IsRecord(fetcher'[w], {"pc", "key", "db", "live"}) /\ fetcher'[w].pc = "absent"
            /\ fetcher'[w].key = f.key /\ fetcher'[w].db = f.db
            /\ fetcher'[w].live = f.live
        BY <1>2, <1>4, <2>2 DEF IsRecord, Seeking
      <3>2. f.live => f.db \notin dirs
        BY <1>1, <1>2, <1>4, <2>2 DEF Seeking, Sought
      <3>3. f.live => Sought(fetcher[w])'
        BY <1>1, <3>1, <3>2 DEF Sought, Reads
      <3>. QED  BY <1>1, <1>4, <3>1, <3>3 DEF Seeking, Reads, Busy
    <2>. QED  BY <2>1, <2>2
  <1>6. fetcher' = [fetcher EXCEPT ![w] = fetcher'[w]]
    BY <1>2, <1>4 DEF IsRecord
  <1>. QED  BY <1>3, <1>5, <1>6, OneReads, SteadyDirect

LEMMA EndReading ==
    ASSUME Inv, Direct, Reading, NEW w \in Fetcher,
           Reads, fetcher[w].pc # "idle",
           \/ fetcher' = [fetcher EXCEPT ![w] = Idle]
           \/ fetcher' = [fetcher EXCEPT ![w].pc = "give up"]
    PROVE  Direct' /\ Reading'
  <1>1. Steady
    BY SteadyReads
  <1>2. UNCHANGED <<writable, archive, phase, setup, run, built>>
    BY DEF Reads
  <1>3. Seeking(w)'
    BY <1>2, Ends, Finds
  <1>4. fetcher' = [fetcher EXCEPT ![w] = fetcher'[w]]
    BY DEF Reading, IsRecord
  <1>. QED  BY <1>1, <1>3, <1>4, OneReads, SteadyDirect

LEMMA CopyReading ==
    ASSUME Inv, Direct, Reading, NEW w \in Fetcher, fetchCopy(w)
    PROVE  Direct' /\ Reading'
  <1>. USE DEF server, imp
  <1>1. /\ UNCHANGED <<setup, dirs, writable, archive, phase, built, writer, run, lost>>
        /\ phase = "up" /\ fetcher[w].pc = "archived"
        /\ fetcher' = [fetcher EXCEPT ![w].pc = "found"]
        /\ Accept(writable, {fetcher[w].key})
    BY DEF fetchCopy, Fetching, Step
  <1>2. built \in Nat /\ dirs \subseteq Backend /\ writable \in dirs
    BY <1>1, StoreAssumption DEF Inv, Types, Names
  <1>3. run.pc \in {"made", "locked"} => run.newDb \in Backend /\ run.newDb # writable
    BY <1>1, <1>2 DEF Inv, Names
  <1>4. /\ \A c \in Backend : disk[c] \subseteq disk'[c]
        /\ \A c \in Backend : c # writable => disk'[c] = disk[c]
        /\ ~setup.batched => pending' = pending
    BY <1>1, <1>2, AcceptDirect DEF Inv
  <1>5. Steady
    BY <1>1, <1>2, <1>3, <1>4 DEF Steady, Direct, Busy
  <1>6. Seeking(w)'
    BY <1>1, Finds
  <1>7. fetcher' = [fetcher EXCEPT ![w] = fetcher'[w]]
    BY <1>1 DEF Reading, IsRecord
  <1>. QED  BY <1>5, <1>6, <1>7, OneReads, SteadyDirect

LEMMA FetchReading ==
    ASSUME Inv, Direct, Reading, NEW w \in Fetcher, FetchStep(w)
    PROVE  Direct' /\ Reading'
  <1>. DEFINE Goal == Direct' /\ Reading'
  <1>1. ASSUME fetchFound(w) PROVE Goal
    <2>1. Reads /\ fetcher[w].pc = "found" /\ fetcher' = [fetcher EXCEPT ![w] = Idle]
      BY <1>1 DEF fetchFound, Fetching, EndFetch, Reads, store, server, imp
    <2>. QED  BY <2>1, EndReading
  <1>2. ASSUME fetchRetry(w) PROVE Goal
    <2>1. Reads /\ fetcher[w].pc = "absent"
      BY <1>2 DEF fetchRetry, Fetching, Reads, store, server, imp
    <2>2. \/ fetcher' = [fetcher EXCEPT ![w] = Idle]
          \/ fetcher' = [fetcher EXCEPT ![w].pc = "give up"]
      BY <1>2 DEF fetchRetry, EndFetch, Step
    <2>. QED  BY <2>1, <2>2, EndReading
  <1>3. ASSUME fetchGiveUp(w) PROVE Goal
    <2>1. Reads /\ fetcher[w].pc = "give up" /\ fetcher' = [fetcher EXCEPT ![w] = Idle]
      BY <1>3 DEF fetchGiveUp, Fetching, EndFetch, Reads, store, server, imp
    <2>. QED  BY <2>1, EndReading
  <1>4. ASSUME fetchArchiveEnd(w) PROVE Goal
    BY <1>4, ArchiveEndReading, CrashReading
  <1>. QED
    BY <1>1, <1>2, <1>3, <1>4, WritableReading, ArchiveReading, CopyReading DEF FetchStep

LEMMA ReadingInit == Init => Direct /\ Reading
  <1>. SUFFICES ASSUME Init PROVE Direct /\ Reading
    OBVIOUS
  <1>1. run.pc = "top" /\ lost = {} /\ \A b \in Backend : pending[b] = {}
    BY DEF Init, Thread0
  <1>2. IsRecord(fetcher, Fetcher) /\ \A w \in Fetcher : fetcher[w] = Idle
    BY DEF Init, IsRecord
  <1>3. IsRecord(Idle, {"pc", "key", "db", "live"}) /\ Idle.pc = "idle"
    BY DEF Idle, IsRecord
  <1>. QED  BY <1>1, <1>2, <1>3 DEF Direct, Reading, Seeking, Before

LEMMA ReadingNext == Inv /\ Direct /\ Reading /\ [Next]_vars => Direct' /\ Reading'
  <1>. SUFFICES ASSUME Inv, Direct, Reading, [Next]_vars PROVE Direct' /\ Reading'
    OBVIOUS
  <1>0. Steady /\ UNCHANGED fetcher => Direct' /\ Reading'
    BY SteadyDirect, SteadyReading
  <1>1. CASE \/ UNCHANGED vars \/ closeLedger \/ onLedgerClosed \/ changeHealth
             \/ setCanDelete \/ onStop \/ sweep
    BY <1>0, <1>1, BesideSteps, SteadyBeside
  <1>2. CASE dbPaths \/ openBackends \/ onStart
    BY <1>2, DownReading
  <1>3. CASE crash
    BY <1>3, CrashReading DEF crash
  <1>4. CASE WriteStep
    BY <1>0, <1>4, BesideSteps, SteadyBeside, SteadyWrites DEF WriteStep
  <1>5. CASE \E b \in Backend : writeBatch(b)
    BY <1>0, <1>5, SteadyBatch
  <1>6. CASE wake
    BY <1>0, <1>6, AsideSteps, SteadyAside, WakeReading
  <1>7. CASE RunStep
    <2>1. CASE \E n \in run.left : visit(n)
      BY <1>0, <2>1, SteadyVisit
    <2>. QED  BY <1>0, <1>7, <2>1, AsideSteps, SteadyAside, SteadyDrop, MakeReading,
                 SetStateReading, RotateReading DEF RunStep
  <1>8. CASE \E w \in Fetcher : FetchStep(w) \/ \E n \in Node : doFetch(w, n)
    BY <1>8, FetchReading, BeginReading
  <1>. QED  BY <1>1, <1>2, <1>3, <1>4, <1>5, <1>6, <1>7, <1>8 DEF Next

\* However a fetch and a rotation interleave, a node of the last closed ledger that
\* was on disk when its fetch began is only missed when the backend that
\* getBackends had returned was destroyed under the read.
THEOREM FetchHolds == Spec => []FetchFinds
  <1>1. Reading => FetchFinds
    BY DEF Reading, Seeking, Sought, FetchFinds
  <1>. QED  BY <1>1, Invariance, ReadingInit, ReadingNext, PTL DEF Spec
================================================================================
