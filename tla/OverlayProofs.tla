----------------------------- MODULE OverlayProofs -----------------------------
(***************************************************************************)
(* For every number of connections, nodes and endpoints and every           *)
(* configuration: a running peer is found under its public key, the         *)
(* finder's tables and counts agree and keep to its limits, and the         *)
(* resource manager's entries count the references to them.                 *)
(*                                                                         *)
(* Findable is not inductive.  What makes it hold is who has a key: the     *)
(* connections between their activation in the finder and the on_closed of  *)
(* their slot (HasKey) have different keys, all of them in Logic's keys,    *)
(* and only those whose destructor has not begun are in m_publicKeyMap.     *)
(*                                                                         *)
(* SlotInv is Logic's bookkeeping: every table and every counter as a       *)
(* function of the slots (Booked), and which stages of a connection have a  *)
(* slot in which state (Placed), without which on_closed could remove a     *)
(* slot twice.  RefInv is the resource manager's: a reference for each      *)
(* attempt, each peer and each imported item (AllTallied).  Both are sums   *)
(* over sets, so a step is a lemma about what the change of one member      *)
(* does to a cardinality.                                                   *)
(***************************************************************************)
EXTENDS Overlay, FiniteSetTheorems, TLAPS

USE ZenonT(10), SMTT(30)

ConnFields == {"attempt", "peer", "open", "late", "e", "key", "usage"}
SlotFields == {"e", "inbound", "fixed", "cluster", "state", "key"}

IsRecord(r, fields) == DOMAIN r = fields /\ r = [f \in fields |-> r[f]]

HasKey(c) == \/ conn[c].attempt = "activated"
             \/ conn[c].peer \in {"activated", "posted", "up", "deactivated"}

Keyless(c) == \/ conn[c].attempt \in {"connecting", "connected", "closed"}
              \/ conn[c].peer = "handoff"

Entered(c) == \/ conn[c].peer = "up"
              \/ conn[c].peer = "posted" /\ Outbound(c)

\* What holds of a connection by itself.
Sound(c) ==
    /\ IsRecord(conn[c], ConnFields)
    /\ HasKey(c) => conn[c].key \in keys /\ slot[c].key = conn[c].key
    /\ Keyless(c) => slot[c].key = None
    /\ HasKey(c) \/ Keyless(c) => IsRecord(slot[c], SlotFields)
    /\ conn[c].attempt \in {"connecting", "connected", "activated", "closed", "reported"} =>
          conn[c].peer = "none"
    /\ conn[c].peer \in {"handoff", "activated"} => conn[c].attempt = "none"

Types ==
    /\ setup \in Setups
    /\ IsRecord(conn, Conn) /\ IsRecord(slot, Conn) /\ IsRecord(m_publicKeyMap, Key)
    /\ keys \subseteq Key

Inv ==
    /\ Types
    /\ \A c \in Conn : Sound(c)
    /\ \A c, d \in Conn : HasKey(c) /\ HasKey(d) /\ conn[c].key = conn[d].key => c = d
    /\ \A c \in Conn : Entered(c) => m_publicKeyMap[conn[c].key] = c
    /\ \A k \in Key : m_publicKeyMap[k] # None =>
          \E d \in Conn : d = m_publicKeyMap[k] /\ conn[d].key = k /\ Entered(d)

\* A connection whose own state a step leaves alone stays sound.
LEMMA SameSound ==
    ASSUME NEW d, Sound(d), conn'[d] = conn[d], slot'[d] = slot[d],
           HasKey(d) /\ conn[d].key \in keys => conn[d].key \in keys'
    PROVE  Sound(d)'
  <1>1. (HasKey(d)' <=> HasKey(d)) /\ (Keyless(d)' <=> Keyless(d))
    BY DEF HasKey, Keyless
  <1> QED
    BY <1>1 DEF Sound

LEMMA InitInv == Init => Inv
  <1> SUFFICES ASSUME Init PROVE Inv
    OBVIOUS
  <1>1. Types
    BY OverlayAssumption DEF Init, Types, IsRecord
  <1>2. \A c \in Conn : conn[c] = NewConn
    BY DEF Init
  <1>3. \A c \in Conn : ~HasKey(c) /\ ~Keyless(c) /\ ~Entered(c)
    BY <1>2 DEF HasKey, Keyless, Entered, NewConn
  <1>4. \A c \in Conn : Sound(c)
    BY <1>2, <1>3 DEF Sound, NewConn, IsRecord, ConnFields
  <1> QED
    BY <1>1, <1>3, <1>4 DEF Inv, Init

\* A step that changes connection c only, takes no key and enters nothing.
LEMMA Quiet ==
    ASSUME Inv, NEW c \in Conn, NEW r,
           conn' = [conn EXCEPT ![c] = r], IsRecord(slot', Conn),
           \A d \in Conn : d # c => slot'[d] = slot[d],
           r.key = conn[c].key \/ ~HasKey(c),
           keys' = keys, m_publicKeyMap' = m_publicKeyMap, setup' = setup,
           HasKey(c)' => HasKey(c), Entered(c)' <=> Entered(c), Sound(c)'
    PROVE  Inv'
  <1>1. IsRecord(conn', Conn) /\ conn'[c] = r /\ \A d \in Conn : d # c => conn'[d] = conn[d]
    BY DEF Inv, Types, IsRecord
  <1>2. Types'
    BY <1>1 DEF Inv, Types
  <1>3. \A d \in Conn : d # c =>
           /\ HasKey(d)' <=> HasKey(d)
           /\ Keyless(d)' <=> Keyless(d)
           /\ Entered(d)' <=> Entered(d)
    BY <1>1 DEF HasKey, Keyless, Entered, Outbound
  <1>4. \A d \in Conn : Sound(d)'
    <2>1. \A d \in Conn : d # c => Sound(d)'
      BY <1>1, SameSound DEF Inv
    <2> QED
      BY <2>1
  <1>5. Entered(c) => HasKey(c)
    BY DEF Entered, HasKey
  <1>6. \A d \in Conn : HasKey(d)' => HasKey(d) /\ conn'[d].key = conn[d].key
    BY <1>1, <1>3
  <1>7. \A d \in Conn : Entered(d)' <=> Entered(d)
    BY <1>3
  <1>8. \A d \in Conn : Entered(d) => conn'[d].key = conn[d].key
    BY <1>1, <1>5
  <1> QED
    BY <1>2, <1>4, <1>6, <1>7, <1>8 DEF Inv
LEMMA onHandoffInv ==
    ASSUME Inv, NEW c \in Conn, NEW e, onHandoff(c, e)
    PROVE  Inv'
  <1>1. conn[c].attempt = "none" /\ conn[c].peer = "none" /\ IsRecord(conn[c], ConnFields)
    BY DEF onHandoff, NextOf, Free, Inv, Sound
  <1>2. PICK r : /\ conn' = [conn EXCEPT ![c] = r]
                 /\ \/ r = [conn[c] EXCEPT !.peer = "gone"] /\ UNCHANGED finder
                    \/ /\ r = [conn[c] EXCEPT !.peer = "handoff", !.open = TRUE, !.e = e,
                                               !.usage = InboundKey(e)]
                       /\ new_inbound_slot(c, e)
    BY DEF onHandoff, Set
  <1>3. conn'[c] = r
    BY <1>2 DEF Inv, Types, IsRecord
  <1>4. /\ IsRecord(r, ConnFields) /\ r.attempt = "none" /\ r.key = conn[c].key
        /\ r.peer \in {"gone", "handoff"}
        /\ r.peer = "handoff" => new_inbound_slot(c, e)
        /\ r.peer # "handoff" => UNCHANGED finder
    BY <1>1, <1>2 DEF IsRecord, ConnFields
  <1>5. /\ IsRecord(slot', Conn) /\ \A d \in Conn : d # c => slot'[d] = slot[d]
        /\ r.peer = "handoff" => IsRecord(slot'[c], SlotFields) /\ slot'[c].key = None
        /\ keys' = keys
    BY <1>4 DEF new_inbound_slot, List, NewSlot, Inv, Types, IsRecord, SlotFields, finder
  <1>6. ~HasKey(c) /\ ~Entered(c) /\ ~HasKey(c)' /\ ~Entered(c)'
    BY <1>1, <1>3, <1>4 DEF HasKey, Entered
  <1>7. Sound(c)'
    BY <1>3, <1>4, <1>5, <1>6 DEF Sound, Keyless
  <1>8. m_publicKeyMap' = m_publicKeyMap /\ setup' = setup
    BY DEF onHandoff
  <1> QED
    BY <1>2, <1>5, <1>6, <1>7, <1>8, Quiet

\* A connection that has no key changes its stage and nothing else does.
LEMMA OnlyStage ==
    ASSUME Inv, NEW c \in Conn, NEW r, conn' = [conn EXCEPT ![c] = r],
           IsRecord(r, ConnFields), r.key = conn[c].key,
           slot' = slot, keys' = keys, m_publicKeyMap' = m_publicKeyMap, setup' = setup,
           HasKey(c)' => HasKey(c), Entered(c)' <=> Entered(c), Keyless(c)' => Keyless(c),
           r.attempt \in {"connecting", "connected", "activated", "closed", "reported"} =>
              r.peer = "none",
           r.peer \in {"handoff", "activated"} => r.attempt = "none"
    PROVE  Inv'
  <1>1. conn'[c] = r
    BY DEF Inv, Types, IsRecord
  <1>2. IsRecord(slot', Conn)
    BY DEF Inv, Types
  <1>3. Sound(c)'
    BY <1>1 DEF Inv, Sound
  <1> QED
    BY <1>2, <1>3, Quiet

LEMMA handoffRefusedInv ==
    ASSUME Inv, NEW c \in Conn, handoffRefused(c)
    PROVE  Inv'
  <1> DEFINE r == [conn[c] EXCEPT !.peer = "gone", !.open = FALSE]
  <1>1. IsRecord(conn[c], ConnFields) /\ Sound(c)
    BY DEF Inv, Sound
  <1>2. /\ conn' = [conn EXCEPT ![c] = r] /\ slot' = slot /\ keys' = keys
        /\ m_publicKeyMap' = m_publicKeyMap /\ setup' = setup
    BY DEF handoffRefused, Set, finder
  <1>3. conn'[c] = r
    BY <1>2 DEF Inv, Types, IsRecord
  <1>4. /\ IsRecord(r, ConnFields) /\ r.key = conn[c].key
        /\ r.peer = "gone" /\ r.attempt = conn[c].attempt
    BY <1>1 DEF IsRecord, ConnFields
  <1>5. conn[c].peer = "handoff"
    BY DEF handoffRefused
  <1>6. /\ HasKey(c)' => HasKey(c)
        /\ Entered(c)' <=> Entered(c)
        /\ Keyless(c)' => Keyless(c)
    BY <1>1, <1>3, <1>4, <1>5 DEF HasKey, Entered, Keyless, Outbound, Sound, Trying
  <1>7. /\ r.attempt \in {"connecting", "connected", "activated", "closed", "reported"} =>
              r.peer = "none"
        /\ r.peer \in {"handoff", "activated"} => r.attempt = "none"
    BY <1>1, <1>4, <1>5 DEF Sound, Trying
  <1> HIDE DEF r
  <1> QED
    BY <1>2, <1>4, <1>6, <1>7, OnlyStage

LEMMA handoffAddInv ==
    ASSUME Inv, NEW c \in Conn, handoffAdd(c)
    PROVE  Inv'
  <1> DEFINE r == [conn[c] EXCEPT !.peer = "posted"]
  <1>1. IsRecord(conn[c], ConnFields) /\ Sound(c)
    BY DEF Inv, Sound
  <1>2. /\ conn' = [conn EXCEPT ![c] = r] /\ slot' = slot /\ keys' = keys
        /\ m_publicKeyMap' = m_publicKeyMap /\ setup' = setup
    BY DEF handoffAdd, Set, finder
  <1>3. conn'[c] = r
    BY <1>2 DEF Inv, Types, IsRecord
  <1>4. /\ IsRecord(r, ConnFields) /\ r.key = conn[c].key
        /\ r.peer = "posted" /\ r.attempt = conn[c].attempt
    BY <1>1 DEF IsRecord, ConnFields
  <1>5. conn[c].peer = "activated" /\ conn[c].attempt = "none"
    BY DEF handoffAdd
  <1>6. /\ HasKey(c)' => HasKey(c)
        /\ Entered(c)' <=> Entered(c)
        /\ Keyless(c)' => Keyless(c)
    BY <1>1, <1>3, <1>4, <1>5 DEF HasKey, Entered, Keyless, Outbound, Sound, Trying
  <1>7. /\ r.attempt \in {"connecting", "connected", "activated", "closed", "reported"} =>
              r.peer = "none"
        /\ r.peer \in {"handoff", "activated"} => r.attempt = "none"
    BY <1>1, <1>4, <1>5 DEF Sound, Trying
  <1> HIDE DEF r
  <1> QED
    BY <1>2, <1>4, <1>6, <1>7, OnlyStage

LEMMA attemptFailsInv ==
    ASSUME Inv, NEW c \in Conn, attemptFails(c)
    PROVE  Inv'
  <1> DEFINE r == [conn[c] EXCEPT !.attempt = "closed", !.open = FALSE]
  <1>1. IsRecord(conn[c], ConnFields) /\ Sound(c)
    BY DEF Inv, Sound
  <1>2. /\ conn' = [conn EXCEPT ![c] = r] /\ slot' = slot /\ keys' = keys
        /\ m_publicKeyMap' = m_publicKeyMap /\ setup' = setup
    BY DEF attemptFails, Set, finder
  <1>3. conn'[c] = r
    BY <1>2 DEF Inv, Types, IsRecord
  <1>4. /\ IsRecord(r, ConnFields) /\ r.key = conn[c].key
        /\ r.peer = conn[c].peer /\ r.attempt = "closed"
    BY <1>1 DEF IsRecord, ConnFields
  <1>5. Trying(c)
    BY DEF attemptFails
  <1>6. /\ HasKey(c)' => HasKey(c)
        /\ Entered(c)' <=> Entered(c)
        /\ Keyless(c)' => Keyless(c)
    BY <1>1, <1>3, <1>4, <1>5 DEF HasKey, Entered, Keyless, Outbound, Sound, Trying
  <1>7. /\ r.attempt \in {"connecting", "connected", "activated", "closed", "reported"} =>
              r.peer = "none"
        /\ r.peer \in {"handoff", "activated"} => r.attempt = "none"
    BY <1>1, <1>4, <1>5 DEF Sound, Trying
  <1> HIDE DEF r
  <1> QED
    BY <1>2, <1>4, <1>6, <1>7, OnlyStage

LEMMA attemptRedirectedInv ==
    ASSUME Inv, NEW c \in Conn, NEW eps, attemptRedirected(c, eps)
    PROVE  Inv'
  <1> DEFINE r == [conn[c] EXCEPT !.attempt = "closed", !.open = FALSE]
  <1>1. IsRecord(conn[c], ConnFields) /\ Sound(c)
    BY DEF Inv, Sound
  <1>2. /\ conn' = [conn EXCEPT ![c] = r] /\ slot' = slot /\ keys' = keys
        /\ m_publicKeyMap' = m_publicKeyMap /\ setup' = setup
    BY DEF attemptRedirected, Set, onRedirects
  <1>3. conn'[c] = r
    BY <1>2 DEF Inv, Types, IsRecord
  <1>4. /\ IsRecord(r, ConnFields) /\ r.key = conn[c].key
        /\ r.peer = conn[c].peer /\ r.attempt = "closed"
    BY <1>1 DEF IsRecord, ConnFields
  <1>5. conn[c].attempt = "connected"
    BY DEF attemptRedirected
  <1>6. /\ HasKey(c)' => HasKey(c)
        /\ Entered(c)' <=> Entered(c)
        /\ Keyless(c)' => Keyless(c)
    BY <1>1, <1>3, <1>4, <1>5 DEF HasKey, Entered, Keyless, Outbound, Sound, Trying
  <1>7. /\ r.attempt \in {"connecting", "connected", "activated", "closed", "reported"} =>
              r.peer = "none"
        /\ r.peer \in {"handoff", "activated"} => r.attempt = "none"
    BY <1>1, <1>4, <1>5 DEF Sound, Trying
  <1> HIDE DEF r
  <1> QED
    BY <1>2, <1>4, <1>6, <1>7, OnlyStage

LEMMA lateTimerInv ==
    ASSUME Inv, NEW c \in Conn, lateTimer(c)
    PROVE  Inv'
  <1> DEFINE r == [conn[c] EXCEPT !.late = FALSE, !.open = FALSE]
  <1>1. IsRecord(conn[c], ConnFields) /\ Sound(c)
    BY DEF Inv, Sound
  <1>2. /\ conn' = [conn EXCEPT ![c] = r] /\ slot' = slot /\ keys' = keys
        /\ m_publicKeyMap' = m_publicKeyMap /\ setup' = setup
    BY DEF lateTimer, Set, finder
  <1>3. conn'[c] = r
    BY <1>2 DEF Inv, Types, IsRecord
  <1>4. /\ IsRecord(r, ConnFields) /\ r.key = conn[c].key
        /\ r.peer = conn[c].peer /\ r.attempt = conn[c].attempt
    BY <1>1 DEF IsRecord, ConnFields
  <1>5. TRUE
    BY DEF lateTimer
  <1>6. /\ HasKey(c)' => HasKey(c)
        /\ Entered(c)' <=> Entered(c)
        /\ Keyless(c)' => Keyless(c)
    BY <1>1, <1>3, <1>4, <1>5 DEF HasKey, Entered, Keyless, Outbound, Sound, Trying
  <1>7. /\ r.attempt \in {"connecting", "connected", "activated", "closed", "reported"} =>
              r.peer = "none"
        /\ r.peer \in {"handoff", "activated"} => r.attempt = "none"
    BY <1>1, <1>4, <1>5 DEF Sound, Trying
  <1> HIDE DEF r
  <1> QED
    BY <1>2, <1>4, <1>6, <1>7, OnlyStage

LEMMA attemptRemoveInv ==
    ASSUME Inv, NEW c \in Conn, attemptRemove(c)
    PROVE  Inv'
  <1> DEFINE r == [conn[c] EXCEPT !.attempt = "gone"]
  <1>1. IsRecord(conn[c], ConnFields) /\ Sound(c)
    BY DEF Inv, Sound
  <1>2. /\ conn' = [conn EXCEPT ![c] = r] /\ slot' = slot /\ keys' = keys
        /\ m_publicKeyMap' = m_publicKeyMap /\ setup' = setup
    BY DEF attemptRemove, Set, finder
  <1>3. conn'[c] = r
    BY <1>2 DEF Inv, Types, IsRecord
  <1>4. /\ IsRecord(r, ConnFields) /\ r.key = conn[c].key
        /\ r.peer = conn[c].peer /\ r.attempt = "gone"
    BY <1>1 DEF IsRecord, ConnFields
  <1>5. conn[c].attempt \in {"reported", "moved"}
    BY DEF attemptRemove
  <1>6. /\ HasKey(c)' => HasKey(c)
        /\ Entered(c)' <=> Entered(c)
        /\ Keyless(c)' => Keyless(c)
    BY <1>1, <1>3, <1>4, <1>5 DEF HasKey, Entered, Keyless, Outbound, Sound, Trying
  <1>7. /\ r.attempt \in {"connecting", "connected", "activated", "closed", "reported"} =>
              r.peer = "none"
        /\ r.peer \in {"handoff", "activated"} => r.attempt = "none"
    BY <1>1, <1>4, <1>5 DEF Sound, Trying
  <1> HIDE DEF r
  <1> QED
    BY <1>2, <1>4, <1>6, <1>7, OnlyStage

LEMMA closeInv ==
    ASSUME Inv, NEW c \in Conn, close(c)
    PROVE  Inv'
  <1> DEFINE r == [conn[c] EXCEPT !.open = FALSE]
  <1>1. IsRecord(conn[c], ConnFields) /\ Sound(c)
    BY DEF Inv, Sound
  <1>2. /\ conn' = [conn EXCEPT ![c] = r] /\ slot' = slot /\ keys' = keys
        /\ m_publicKeyMap' = m_publicKeyMap /\ setup' = setup
    BY DEF close, Set, finder
  <1>3. conn'[c] = r
    BY <1>2 DEF Inv, Types, IsRecord
  <1>4. /\ IsRecord(r, ConnFields) /\ r.key = conn[c].key
        /\ r.peer = conn[c].peer /\ r.attempt = conn[c].attempt
    BY <1>1 DEF IsRecord, ConnFields
  <1>5. TRUE
    BY DEF close
  <1>6. /\ HasKey(c)' => HasKey(c)
        /\ Entered(c)' <=> Entered(c)
        /\ Keyless(c)' => Keyless(c)
    BY <1>1, <1>3, <1>4, <1>5 DEF HasKey, Entered, Keyless, Outbound, Sound, Trying
  <1>7. /\ r.attempt \in {"connecting", "connected", "activated", "closed", "reported"} =>
              r.peer = "none"
        /\ r.peer \in {"handoff", "activated"} => r.attempt = "none"
    BY <1>1, <1>4, <1>5 DEF Sound, Trying
  <1> HIDE DEF r
  <1> QED
    BY <1>2, <1>4, <1>6, <1>7, OnlyStage

LEMMA peerStopInv ==
    ASSUME Inv, NEW c \in Conn, peerStop(c)
    PROVE  Inv'
  <1> DEFINE r == [conn[c] EXCEPT !.open = FALSE]
  <1>1. IsRecord(conn[c], ConnFields) /\ Sound(c)
    BY DEF Inv, Sound
  <1>2. /\ conn' = [conn EXCEPT ![c] = r] /\ slot' = slot /\ keys' = keys
        /\ m_publicKeyMap' = m_publicKeyMap /\ setup' = setup
    BY DEF peerStop, Set, finder
  <1>3. conn'[c] = r
    BY <1>2 DEF Inv, Types, IsRecord
  <1>4. /\ IsRecord(r, ConnFields) /\ r.key = conn[c].key
        /\ r.peer = conn[c].peer /\ r.attempt = conn[c].attempt
    BY <1>1 DEF IsRecord, ConnFields
  <1>5. TRUE
    BY DEF peerStop
  <1>6. /\ HasKey(c)' => HasKey(c)
        /\ Entered(c)' <=> Entered(c)
        /\ Keyless(c)' => Keyless(c)
    BY <1>1, <1>3, <1>4, <1>5 DEF HasKey, Entered, Keyless, Outbound, Sound, Trying
  <1>7. /\ r.attempt \in {"connecting", "connected", "activated", "closed", "reported"} =>
              r.peer = "none"
        /\ r.peer \in {"handoff", "activated"} => r.attempt = "none"
    BY <1>1, <1>4, <1>5 DEF Sound, Trying
  <1> HIDE DEF r
  <1> QED
    BY <1>2, <1>4, <1>6, <1>7, OnlyStage

LEMMA attemptStopInv ==
    ASSUME Inv, NEW c \in Conn, attemptStop(c)
    PROVE  Inv'
  <1> DEFINE r == [conn[c] EXCEPT !.open = FALSE, !.attempt = IF Trying(c) THEN "closed" ELSE @]
  <1>1. IsRecord(conn[c], ConnFields) /\ Sound(c)
    BY DEF Inv, Sound
  <1>2. /\ conn' = [conn EXCEPT ![c] = r] /\ slot' = slot /\ keys' = keys
        /\ m_publicKeyMap' = m_publicKeyMap /\ setup' = setup
    BY DEF attemptStop, Set, finder
  <1>3. conn'[c] = r
    BY <1>2 DEF Inv, Types, IsRecord
  <1>4. /\ IsRecord(r, ConnFields) /\ r.key = conn[c].key
        /\ r.peer = conn[c].peer /\ r.attempt = IF Trying(c) THEN "closed" ELSE conn[c].attempt
    BY <1>1 DEF IsRecord, ConnFields
  <1>5. conn[c].attempt \in {"connecting", "connected", "moved", "closed"}
    BY DEF attemptStop
  <1>6. /\ HasKey(c)' => HasKey(c)
        /\ Entered(c)' <=> Entered(c)
        /\ Keyless(c)' => Keyless(c)
    BY <1>1, <1>3, <1>4, <1>5 DEF HasKey, Entered, Keyless, Outbound, Sound, Trying
  <1>7. /\ r.attempt \in {"connecting", "connected", "activated", "closed", "reported"} =>
              r.peer = "none"
        /\ r.peer \in {"handoff", "activated"} => r.attempt = "none"
    BY <1>1, <1>4, <1>5 DEF Sound, Trying
  <1> HIDE DEF r
  <1> QED
    BY <1>2, <1>4, <1>6, <1>7, OnlyStage

LEMMA chargePeerInv ==
    ASSUME Inv, NEW c \in Conn, NEW onStrand, chargePeer(c, onStrand)
    PROVE  Inv'
  <1> DEFINE r == LET k == conn[c].usage
                  IN  [conn[c] EXCEPT !.open =
                          @ /\ ~(overDrop(charge(table, k, 1), k) /\ onStrand)]
  <1>1. IsRecord(conn[c], ConnFields) /\ Sound(c)
    BY DEF Inv, Sound
  <1>2. /\ conn' = [conn EXCEPT ![c] = r] /\ slot' = slot /\ keys' = keys
        /\ m_publicKeyMap' = m_publicKeyMap /\ setup' = setup
    BY DEF chargePeer, Set, finder
  <1>3. conn'[c] = r
    BY <1>2 DEF Inv, Types, IsRecord
  <1>4. /\ IsRecord(r, ConnFields) /\ r.key = conn[c].key
        /\ r.peer = conn[c].peer /\ r.attempt = conn[c].attempt
    BY <1>1 DEF IsRecord, ConnFields
  <1>5. TRUE
    BY DEF chargePeer
  <1>6. /\ HasKey(c)' => HasKey(c)
        /\ Entered(c)' <=> Entered(c)
        /\ Keyless(c)' => Keyless(c)
    BY <1>1, <1>3, <1>4, <1>5 DEF HasKey, Entered, Keyless, Outbound, Sound, Trying
  <1>7. /\ r.attempt \in {"connecting", "connected", "activated", "closed", "reported"} =>
              r.peer = "none"
        /\ r.peer \in {"handoff", "activated"} => r.attempt = "none"
    BY <1>1, <1>4, <1>5 DEF Sound, Trying
  <1> HIDE DEF r
  <1> QED
    BY <1>2, <1>4, <1>6, <1>7, OnlyStage

\* A step that leaves connections, slots, keys and the map alone.
LEMMA Elsewhere ==
    ASSUME Inv, UNCHANGED <<conn, slot, keys, m_publicKeyMap, setup>>
    PROVE  Inv'
  BY DEF Inv, Types, Sound, HasKey, Keyless, Entered, Outbound

LEMMA connectInv ==
    ASSUME Inv, NEW c \in Conn, NEW e, connect(c, e)
    PROVE  Inv'
  <1>0. m_publicKeyMap' = m_publicKeyMap /\ setup' = setup
    BY DEF connect
  <1>1. CASE UNCHANGED <<finder, conn, list>>
    BY <1>0, <1>1, Elsewhere DEF finder
  <1>2. CASE ~UNCHANGED <<finder, conn, list>>
    <2> DEFINE r == [conn[c] EXCEPT !.attempt = "connecting", !.open = TRUE, !.e = e,
                                    !.usage = OutboundKey(e)]
    <2>1. conn[c].attempt = "none" /\ conn[c].peer = "none" /\ IsRecord(conn[c], ConnFields)
      BY DEF connect, NextOf, Free, Inv, Sound
    <2>2. conn' = [conn EXCEPT ![c] = r] /\ new_outbound_slot(c, e)
      BY <1>2 DEF connect, Set
    <2>3. conn'[c] = r
      BY <2>2 DEF Inv, Types, IsRecord
    <2>4. /\ IsRecord(r, ConnFields) /\ r.attempt = "connecting" /\ r.peer = "none"
          /\ r.key = conn[c].key
      BY <2>1 DEF IsRecord, ConnFields
    <2>5. /\ IsRecord(slot', Conn) /\ \A d \in Conn : d # c => slot'[d] = slot[d]
          /\ IsRecord(slot'[c], SlotFields) /\ slot'[c].key = None
          /\ keys' = keys
      BY <2>2 DEF new_outbound_slot, List, NewSlot, Inv, Types, IsRecord, SlotFields
    <2>6. ~HasKey(c) /\ ~Entered(c) /\ ~HasKey(c)' /\ ~Entered(c)'
      BY <2>1, <2>3, <2>4 DEF HasKey, Entered
    <2> HIDE DEF r
    <2>7. Sound(c)'
      BY <2>3, <2>4, <2>5, <2>6 DEF Sound
    <2> QED
      BY <1>0, <2>2, <2>5, <2>6, <2>7, Quiet
  <1> QED
    BY <1>1, <1>2

LEMMA onHandshakeInv ==
    ASSUME Inv, NEW c \in Conn, NEW local, onHandshake(c, local)
    PROVE  Inv'
  <1>0. m_publicKeyMap' = m_publicKeyMap /\ setup' = setup
    BY DEF onHandshake
  <1>1. /\ conn[c].attempt = "connecting" /\ conn[c].peer = "none"
        /\ IsRecord(conn[c], ConnFields) /\ IsRecord(slot[c], SlotFields) /\ slot[c].key = None
    BY DEF onHandshake, Inv, Sound, Keyless
  <1>2. PICK r : /\ conn' = [conn EXCEPT ![c] = r]
                 /\ \/ /\ r = [conn[c] EXCEPT !.attempt = "closed", !.open = FALSE]
                       /\ UNCHANGED finder
                    \/ r = [conn[c] EXCEPT !.attempt = "connected"] /\ onConnected(c)
    BY DEF onHandshake, Set
  <1>3. conn'[c] = r
    BY <1>2 DEF Inv, Types, IsRecord
  <1>4. /\ IsRecord(r, ConnFields) /\ r.attempt \in {"closed", "connected"} /\ r.peer = "none"
        /\ r.key = conn[c].key
    BY <1>1, <1>2 DEF IsRecord, ConnFields
  <1>5. UNCHANGED finder \/ onConnected(c)
    BY <1>2
  <1>6. /\ IsRecord(slot', Conn) /\ \A d \in Conn : d # c => slot'[d] = slot[d]
        /\ IsRecord(slot'[c], SlotFields) /\ slot'[c].key = None
        /\ keys' = keys
    BY <1>1, <1>5 DEF onConnected, finder, Inv, Types, IsRecord, SlotFields
  <1>7. ~HasKey(c) /\ ~Entered(c) /\ ~HasKey(c)' /\ ~Entered(c)'
    BY <1>1, <1>3, <1>4 DEF HasKey, Entered
  <1>8. Sound(c)'
    BY <1>3, <1>4, <1>6, <1>7 DEF Sound
  <1> QED
    BY <1>0, <1>2, <1>6, <1>7, <1>8, Quiet

\* The finder gives connection c the key k.
LEMMA Activated ==
    ASSUME Inv, NEW c \in Conn, NEW k \in Key, NEW r, NEW cluster,
           Keyless(c), k \notin keys, activate(c, k, cluster),
           conn' = [conn EXCEPT ![c] = r], IsRecord(r, ConnFields), r.key = k,
           HasKey(c)', ~Keyless(c)', ~Entered(c)', m_publicKeyMap' = m_publicKeyMap,
           setup' = setup,
           r.attempt \in {"connecting", "connected", "activated", "closed", "reported"} =>
              r.peer = "none",
           r.peer \in {"handoff", "activated"} => r.attempt = "none"
    PROVE  Inv'
  <1>1. IsRecord(conn', Conn) /\ conn'[c] = r /\ \A d \in Conn : d # c => conn'[d] = conn[d]
    BY DEF Inv, Types, IsRecord
  <1>2. IsRecord(slot[c], SlotFields)
    BY DEF Inv, Sound
  <1>3. /\ IsRecord(slot', Conn) /\ \A d \in Conn : d # c => slot'[d] = slot[d]
        /\ IsRecord(slot'[c], SlotFields) /\ slot'[c].key = k
    BY <1>2 DEF activate, Inv, Types, IsRecord, SlotFields
  <1>4. keys' = keys \cup {k}
    BY DEF activate
  <1>5. Types'
    BY <1>1, <1>3, <1>4 DEF Inv, Types
  <1>6. \A d \in Conn : d # c =>
           /\ HasKey(d)' <=> HasKey(d)
           /\ Keyless(d)' <=> Keyless(d)
           /\ Entered(d)' <=> Entered(d)
    BY <1>1 DEF HasKey, Keyless, Entered, Outbound
  <1>7. \A d \in Conn : d # c => Sound(d)'
    BY <1>1, <1>3, <1>4, SameSound DEF Inv
  <1>8. Sound(c)'
    BY <1>1, <1>3, <1>4 DEF Sound
  <1>9. \A d \in Conn : d # c /\ HasKey(d)' => conn'[d].key # k
    BY <1>1, <1>6 DEF Inv, Sound
  <1>10. \A a, b \in Conn : HasKey(a)' /\ HasKey(b)' /\ conn'[a].key = conn'[b].key => a = b
    BY <1>1, <1>6, <1>9 DEF Inv
  <1>11. ~Entered(c)
    BY DEF Keyless, Entered, Inv, Sound
  <1>12. \A d \in Conn : Entered(d)' <=> Entered(d)
    BY <1>6, <1>11
  <1>13. \A d \in Conn : Entered(d) => conn'[d] = conn[d]
    BY <1>1, <1>11
  <1>14. \A d \in Conn : Entered(d)' => m_publicKeyMap'[conn'[d].key] = d
    BY <1>12, <1>13 DEF Inv
  <1>15. \A q \in Key : m_publicKeyMap'[q] # None =>
            \E d \in Conn : d = m_publicKeyMap'[q] /\ conn'[d].key = q /\ Entered(d)'
    BY <1>12, <1>13 DEF Inv
  <1>16. \A d \in Conn : Sound(d)'
    BY <1>7, <1>8
  <1> QED
    BY <1>5, <1>10, <1>14, <1>15, <1>16 DEF Inv

LEMMA handoffActivateInv ==
    ASSUME Inv, NEW c \in Conn, NEW k \in setup.keys, handoffActivate(c, k)
    PROVE  Inv'
  <1>0. m_publicKeyMap' = m_publicKeyMap /\ setup' = setup /\ k \in Key
    BY OverlayAssumption DEF handoffActivate, Inv, Types
  <1>1. conn[c].peer = "handoff" /\ Sound(c) /\ Keyless(c) /\ IsRecord(conn[c], ConnFields)
    BY DEF handoffActivate, Inv, Sound, Keyless
  <1>2. CASE Activatable(c, k)
    <2> DEFINE r == [conn[c] EXCEPT !.peer = "activated", !.key = k]
    <2>1. /\ conn' = [conn EXCEPT ![c] = r] /\ k \notin keys
          /\ activate(c, k, k \in setup.cluster)
      BY <1>2 DEF handoffActivate, Set, Activatable
    <2>2. conn'[c] = r
      BY <2>1 DEF Inv, Types, IsRecord
    <2>3. /\ IsRecord(r, ConnFields) /\ r.key = k /\ r.peer = "activated"
          /\ r.attempt = conn[c].attempt
      BY <1>1 DEF IsRecord, ConnFields
    <2>4. r.attempt = "none"
      BY <1>1, <2>3 DEF Sound
    <2> HIDE DEF r
    <2>5. HasKey(c)' /\ ~Keyless(c)' /\ ~Entered(c)'
      BY <2>2, <2>3, <2>4 DEF HasKey, Keyless, Entered
    <2>6. Keyless(c)
      BY <1>1
    <2> QED
      BY <1>0, <2>1, <2>3, <2>4, <2>5, <2>6, Activated
  <1>3. CASE ~Activatable(c, k)
    <2> DEFINE r == [conn[c] EXCEPT !.peer = "gone", !.open = FALSE]
    <2>1. /\ conn' = [conn EXCEPT ![c] = r] /\ slot' = slot /\ keys' = keys
      BY <1>3 DEF handoffActivate, Set, notActivated
    <2>2. conn'[c] = r
      BY <2>1 DEF Inv, Types, IsRecord
    <2>3. /\ IsRecord(r, ConnFields) /\ r.key = conn[c].key
          /\ r.peer = "gone" /\ r.attempt = conn[c].attempt
      BY <1>1 DEF IsRecord, ConnFields
    <2>4. r.attempt = "none" /\ conn[c].attempt = "none"
      BY <1>1, <2>3 DEF Sound
    <2> HIDE DEF r
    <2>5. /\ HasKey(c)' => HasKey(c)
          /\ Entered(c)' <=> Entered(c)
          /\ Keyless(c)' => Keyless(c)
      BY <1>1, <2>2, <2>3, <2>4 DEF HasKey, Keyless, Entered
    <2> QED
      BY <1>0, <2>1, <2>3, <2>4, <2>5, OnlyStage
  <1> QED
    BY <1>2, <1>3

LEMMA processResponseInv ==
    ASSUME Inv, NEW c \in Conn, NEW k \in setup.keys, processResponse(c, k)
    PROVE  Inv'
  <1>0. m_publicKeyMap' = m_publicKeyMap /\ setup' = setup /\ k \in Key
    BY OverlayAssumption DEF processResponse, Inv, Types
  <1>1. conn[c].attempt = "connected" /\ Sound(c) /\ Keyless(c) /\ IsRecord(conn[c], ConnFields)
    BY DEF processResponse, Inv, Sound, Keyless
  <1>2. CASE Activatable(c, k)
    <2> DEFINE r == [conn[c] EXCEPT !.attempt = "activated", !.key = k]
    <2>1. /\ conn' = [conn EXCEPT ![c] = r] /\ k \notin keys
          /\ activate(c, k, k \in setup.cluster)
      BY <1>2 DEF processResponse, Set, Activatable
    <2>2. conn'[c] = r
      BY <2>1 DEF Inv, Types, IsRecord
    <2>3. /\ IsRecord(r, ConnFields) /\ r.key = k /\ r.attempt = "activated"
          /\ r.peer = conn[c].peer
      BY <1>1 DEF IsRecord, ConnFields
    <2>4. r.peer = "none"
      BY <1>1, <2>3 DEF Sound
    <2> HIDE DEF r
    <2>5. HasKey(c)' /\ ~Keyless(c)' /\ ~Entered(c)'
      BY <2>2, <2>3, <2>4 DEF HasKey, Keyless, Entered
    <2>6. Keyless(c)
      BY <1>1
    <2> QED
      BY <1>0, <2>1, <2>3, <2>4, <2>5, <2>6, Activated
  <1>3. CASE ~Activatable(c, k)
    <2> DEFINE r == [conn[c] EXCEPT !.attempt = "closed", !.open = FALSE]
    <2>1. /\ conn' = [conn EXCEPT ![c] = r] /\ slot' = slot /\ keys' = keys
      BY <1>3 DEF processResponse, Set, notActivated
    <2>2. conn'[c] = r
      BY <2>1 DEF Inv, Types, IsRecord
    <2>3. /\ IsRecord(r, ConnFields) /\ r.key = conn[c].key
          /\ r.attempt = "closed" /\ r.peer = conn[c].peer
      BY <1>1 DEF IsRecord, ConnFields
    <2>4. r.peer = "none" /\ conn[c].peer = "none"
      BY <1>1, <2>3 DEF Sound
    <2> HIDE DEF r
    <2>5. /\ HasKey(c)' => HasKey(c)
          /\ Entered(c)' <=> Entered(c)
          /\ Keyless(c)' => Keyless(c)
      BY <1>1, <2>2, <2>3, <2>4 DEF HasKey, Keyless, Entered
    <2> QED
      BY <1>0, <2>1, <2>3, <2>4, <2>5, OnlyStage
  <1> QED
    BY <1>2, <1>3

\* Connection c, which has its key already, is entered under it.  No other
\* connection can be there: it would have the same key.
LEMMA Enters ==
    ASSUME Inv, NEW c \in Conn, NEW r, HasKey(c), ~Entered(c),
           conn' = [conn EXCEPT ![c] = r], IsRecord(r, ConnFields), r.key = conn[c].key,
           m_publicKeyMap' = [m_publicKeyMap EXCEPT ![conn[c].key] = IF @ = None THEN c ELSE @],
           slot' = slot, keys' = keys, setup' = setup,
           HasKey(c)', Entered(c)', ~Keyless(c)',
           r.attempt \notin {"connecting", "connected", "activated", "closed", "reported"},
           r.peer \notin {"handoff", "activated"}
    PROVE  Inv'
  <1>1. IsRecord(conn', Conn) /\ conn'[c] = r /\ \A d \in Conn : d # c => conn'[d] = conn[d]
    BY DEF Inv, Types, IsRecord
  <1>2. conn[c].key \in Key
    BY DEF Inv, Sound, Types
  <1>3. m_publicKeyMap[conn[c].key] = None
    <2>1. SUFFICES ASSUME m_publicKeyMap[conn[c].key] # None PROVE FALSE
      OBVIOUS
    <2>2. PICK d \in Conn : Entered(d) /\ conn[d].key = conn[c].key
      BY <1>2, <2>1 DEF Inv
    <2>3. HasKey(d)
      BY <2>2 DEF Entered, HasKey
    <2> QED
      BY <2>2, <2>3 DEF Inv
  <1>4. /\ IsRecord(m_publicKeyMap', Key)
        /\ m_publicKeyMap'[conn[c].key] = c
        /\ \A k \in Key : k # conn[c].key => m_publicKeyMap'[k] = m_publicKeyMap[k]
    BY <1>2, <1>3 DEF Inv, Types, IsRecord
  <1>5. Types'
    BY <1>1, <1>4 DEF Inv, Types
  <1>6. \A d \in Conn : d # c =>
           /\ HasKey(d)' <=> HasKey(d)
           /\ Keyless(d)' <=> Keyless(d)
           /\ Entered(d)' <=> Entered(d)
    BY <1>1 DEF HasKey, Keyless, Entered, Outbound
  <1>7. \A d \in Conn : d # c => Sound(d)'
    BY <1>1, SameSound DEF Inv
  <1>8. Sound(c)'
    BY <1>1 DEF Inv, Sound
  <1>9. \A d \in Conn : conn'[d].key = conn[d].key /\ (HasKey(d)' <=> HasKey(d))
    BY <1>1, <1>6
  <1>10. \A d \in Conn : d # c /\ Entered(d) => conn[d].key \in Key /\ conn[d].key # conn[c].key
    BY DEF Entered, HasKey, Inv, Sound, Types
  <1>11. \A d \in Conn : Entered(d)' => m_publicKeyMap'[conn'[d].key] = d
    BY <1>4, <1>6, <1>9, <1>10 DEF Inv
  <1>12. ASSUME NEW q \in Key, m_publicKeyMap'[q] # None
         PROVE  \E d \in Conn : d = m_publicKeyMap'[q] /\ conn'[d].key = q /\ Entered(d)'
    <2>1. CASE q = conn[c].key
      BY <1>4, <1>9, <2>1
    <2>2. CASE q # conn[c].key
      <3>1. PICK d \in Conn : d = m_publicKeyMap[q] /\ Entered(d) /\ conn[d].key = q
        BY <1>4, <1>12, <2>2 DEF Inv
      <3>2. d # c
        BY <3>1, <2>2
      <3> QED
        BY <1>4, <1>6, <1>9, <2>2, <3>1, <3>2
    <2> QED
      BY <2>1, <2>2
  <1>13. \A d \in Conn : Sound(d)'
    BY <1>7, <1>8
  <1>14. \A a, b \in Conn : HasKey(a)' /\ HasKey(b)' /\ conn'[a].key = conn'[b].key => a = b
    BY <1>9 DEF Inv
  <1> QED
    BY <1>5, <1>11, <1>12, <1>13, <1>14 DEF Inv

LEMMA add_activeInv ==
    ASSUME Inv, NEW c \in Conn, NEW late, add_active(c, late)
    PROVE  Inv'
  <1> DEFINE r == [conn[c] EXCEPT !.attempt = "moved", !.peer = "posted", !.late = late]
  <1>1. conn[c].attempt = "activated" /\ conn[c].peer = "none" /\ IsRecord(conn[c], ConnFields)
    BY DEF add_active, Inv, Sound
  <1>2. /\ conn' = [conn EXCEPT ![c] = r] /\ slot' = slot /\ keys' = keys /\ setup' = setup
        /\ m_publicKeyMap' = [m_publicKeyMap EXCEPT ![conn[c].key] = IF @ = None THEN c ELSE @]
    BY DEF add_active, Set, finder
  <1>3. conn'[c] = r
    BY <1>2 DEF Inv, Types, IsRecord
  <1>4. /\ IsRecord(r, ConnFields) /\ r.key = conn[c].key
        /\ r.attempt = "moved" /\ r.peer = "posted"
    BY <1>1 DEF IsRecord, ConnFields
  <1> HIDE DEF r
  <1>5. HasKey(c) /\ ~Entered(c) /\ HasKey(c)' /\ Entered(c)' /\ ~Keyless(c)'
    BY <1>1, <1>3, <1>4 DEF HasKey, Entered, Keyless, Outbound
  <1> QED
    BY <1>2, <1>4, <1>5, Enters

LEMMA runInv ==
    ASSUME Inv, NEW c \in Conn, run(c)
    PROVE  Inv'
  <1> DEFINE r == [conn[c] EXCEPT !.peer = "up"]
  <1>1. conn[c].peer = "posted" /\ Sound(c) /\ IsRecord(conn[c], ConnFields)
    BY DEF run, Inv, Sound
  <1>2. conn' = [conn EXCEPT ![c] = r] /\ slot' = slot /\ keys' = keys /\ setup' = setup
    BY DEF run, Set, finder
  <1>3. conn'[c] = r
    BY <1>2 DEF Inv, Types, IsRecord
  <1>4. /\ IsRecord(r, ConnFields) /\ r.key = conn[c].key
        /\ r.attempt = conn[c].attempt /\ r.peer = "up"
    BY <1>1 DEF IsRecord, ConnFields
  <1>5. /\ r.attempt \notin {"connecting", "connected", "activated", "closed", "reported"}
    BY <1>1, <1>4 DEF Sound
  <1> HIDE DEF r
  <1>6. HasKey(c) /\ HasKey(c)' /\ Entered(c)' /\ ~Keyless(c)' /\ (Entered(c) <=> Outbound(c))
    BY <1>1, <1>3, <1>4, <1>5 DEF HasKey, Entered, Keyless
  <1>7. CASE Outbound(c)
    <2>1. m_publicKeyMap' = m_publicKeyMap
      BY <1>7 DEF run
    <2> QED
      BY <1>2, <1>4, <1>5, <1>6, <1>7, <2>1, OnlyStage
  <1>8. CASE ~Outbound(c)
    <2>1. m_publicKeyMap' = [m_publicKeyMap EXCEPT ![conn[c].key] = IF @ = None THEN c ELSE @]
      BY <1>8 DEF run
    <2> QED
      BY <1>2, <1>4, <1>5, <1>6, <1>8, <2>1, Enters
  <1> QED
    BY <1>7, <1>8

LEMMA attemptOnClosedInv ==
    ASSUME Inv, NEW c \in Conn, attemptOnClosed(c)
    PROVE  Inv'
  <1> DEFINE r == [conn[c] EXCEPT !.attempt = "reported"]
  <1>1. /\ conn[c].attempt = "closed" /\ conn[c].peer = "none" /\ slot[c].key = None
        /\ IsRecord(conn[c], ConnFields)
    BY DEF attemptOnClosed, Inv, Sound, Keyless
  <1>2. /\ conn' = [conn EXCEPT ![c] = r] /\ m_publicKeyMap' = m_publicKeyMap /\ setup' = setup
    BY DEF attemptOnClosed, Set
  <1>3. keys' = keys
    BY <1>1, OverlayAssumption DEF attemptOnClosed, on_closed, Inv, Types
  <1>4. IsRecord(slot', Conn) /\ \A d \in Conn : d # c => slot'[d] = slot[d]
    BY DEF attemptOnClosed, on_closed, Inv, Types, IsRecord
  <1>5. conn'[c] = r
    BY <1>2 DEF Inv, Types, IsRecord
  <1>6. /\ IsRecord(r, ConnFields) /\ r.key = conn[c].key
        /\ r.attempt = "reported" /\ r.peer = "none"
    BY <1>1 DEF IsRecord, ConnFields
  <1> HIDE DEF r
  <1>7. ~HasKey(c)' /\ ~Keyless(c)' /\ ~Entered(c)' /\ ~Entered(c)
    BY <1>1, <1>5, <1>6 DEF HasKey, Keyless, Entered
  <1>8. Sound(c)'
    BY <1>5, <1>6, <1>7 DEF Sound
  <1> QED
    BY <1>2, <1>3, <1>4, <1>6, <1>7, <1>8, Quiet

\* ~PeerImp: the key leaves the map first, and the finder afterwards.
LEMMA destroyInv ==
    ASSUME Inv, NEW c \in Conn, destroy(c)
    PROVE  Inv'
  <1>0. setup' = setup /\ IsRecord(conn[c], ConnFields) /\ Sound(c)
    BY DEF destroy, Inv, Sound
  <1>1. CASE Over(c) /\ onPeerDeactivate(c) /\ Set(c, [conn[c] EXCEPT !.peer = "deactivated"])
             /\ UNCHANGED finder
    <2> DEFINE r == [conn[c] EXCEPT !.peer = "deactivated"]
    <2>1. conn[c].peer = "up" /\ HasKey(c) /\ Entered(c) /\ conn[c].key \in Key
      BY <1>1 DEF Over, HasKey, Entered, Inv, Sound, Types
    <2>2. conn' = [conn EXCEPT ![c] = r] /\ slot' = slot /\ keys' = keys
      BY <1>1 DEF Set, finder
    <2>3. IsRecord(conn', Conn) /\ conn'[c] = r /\ \A d \in Conn : d # c => conn'[d] = conn[d]
      BY <2>2 DEF Inv, Types, IsRecord
    <2>4. /\ IsRecord(r, ConnFields) /\ r.key = conn[c].key
          /\ r.attempt = conn[c].attempt /\ r.peer = "deactivated"
      BY <1>0 DEF IsRecord, ConnFields
    <2> HIDE DEF r
    <2>5. r.attempt \notin {"connecting", "connected", "activated", "closed", "reported"}
      BY <1>0, <2>1, <2>4 DEF Sound
    <2>6. HasKey(c)' /\ ~Keyless(c)' /\ ~Entered(c)'
      BY <2>3, <2>4, <2>5 DEF HasKey, Keyless, Entered
    <2>7. /\ IsRecord(m_publicKeyMap', Key)
          /\ m_publicKeyMap'[conn[c].key] = None
          /\ \A k \in Key : k # conn[c].key => m_publicKeyMap'[k] = m_publicKeyMap[k]
      BY <1>1, <2>1 DEF onPeerDeactivate, Inv, Types, IsRecord
    <2>8. Types'
      BY <1>0, <2>2, <2>3, <2>7 DEF Inv, Types
    <2>9. \A d \in Conn : d # c =>
             /\ HasKey(d)' <=> HasKey(d)
             /\ Keyless(d)' <=> Keyless(d)
             /\ Entered(d)' <=> Entered(d)
      BY <2>3 DEF HasKey, Keyless, Entered, Outbound
    <2>10. \A d \in Conn : Sound(d)'
      <3>1. \A d \in Conn : d # c => Sound(d)'
        BY <2>2, <2>3, SameSound DEF Inv
      <3>2. Sound(c)'
        <4>1. conn[c].key \in keys /\ slot[c].key = conn[c].key /\ IsRecord(slot[c], SlotFields)
          BY <1>0, <2>1 DEF Sound
        <4> QED
          BY <2>2, <2>3, <2>4, <2>5, <2>6, <4>1 DEF Sound
      <3> QED
        BY <3>1, <3>2
    <2>11. \A d \in Conn : conn'[d].key = conn[d].key /\ (HasKey(d)' <=> HasKey(d))
      BY <2>1, <2>3, <2>4, <2>6, <2>9
    <2>12. \A d \in Conn : d # c /\ Entered(d) => conn[d].key \in Key /\ conn[d].key # conn[c].key
      BY <2>1 DEF Entered, HasKey, Inv, Sound, Types
    <2>13. \A d \in Conn : Entered(d)' => m_publicKeyMap'[conn'[d].key] = d
      BY <2>6, <2>7, <2>9, <2>11, <2>12 DEF Inv
    <2>14. ASSUME NEW q \in Key, m_publicKeyMap'[q] # None
           PROVE  \E d \in Conn : d = m_publicKeyMap'[q] /\ conn'[d].key = q /\ Entered(d)'
      <3>1. q # conn[c].key
        BY <2>7, <2>14
      <3>2. PICK d \in Conn : d = m_publicKeyMap[q] /\ Entered(d) /\ conn[d].key = q
        BY <2>7, <2>14, <3>1 DEF Inv
      <3>3. d # c
        BY <3>1, <3>2
      <3> QED
        BY <2>7, <2>9, <2>11, <3>1, <3>2, <3>3
    <2>15. \A a, b \in Conn : HasKey(a)' /\ HasKey(b)' /\ conn'[a].key = conn'[b].key => a = b
      BY <2>11 DEF Inv
    <2> QED
      BY <2>8, <2>10, <2>13, <2>14, <2>15 DEF Inv
  <1>2. CASE conn[c].peer = "deactivated" /\ on_closed(c)
             /\ Set(c, [conn[c] EXCEPT !.peer = "reported"]) /\ UNCHANGED m_publicKeyMap
    <2> DEFINE r == [conn[c] EXCEPT !.peer = "reported"]
    <2>1. HasKey(c) /\ ~Entered(c) /\ slot[c].key = conn[c].key
      BY <1>0, <1>2 DEF HasKey, Entered, Sound
    <2>2. conn' = [conn EXCEPT ![c] = r] /\ keys' = keys \ {conn[c].key}
      BY <1>2, <2>1 DEF Set, on_closed
    <2>3. IsRecord(slot', Conn) /\ \A d \in Conn : d # c => slot'[d] = slot[d]
      BY <1>2 DEF on_closed, Inv, Types, IsRecord
    <2>4. IsRecord(conn', Conn) /\ conn'[c] = r /\ \A d \in Conn : d # c => conn'[d] = conn[d]
      BY <2>2 DEF Inv, Types, IsRecord
    <2>5. /\ IsRecord(r, ConnFields) /\ r.key = conn[c].key
          /\ r.attempt = conn[c].attempt /\ r.peer = "reported"
      BY <1>0 DEF IsRecord, ConnFields
    <2> HIDE DEF r
    <2>6. r.attempt \notin {"connecting", "connected", "activated", "closed", "reported"}
      BY <1>0, <1>2, <2>5 DEF Sound
    <2>7. ~HasKey(c)' /\ ~Keyless(c)' /\ ~Entered(c)'
      BY <2>4, <2>5, <2>6 DEF HasKey, Keyless, Entered
    <2>8. Types'
      BY <1>0, <1>2, <2>2, <2>3, <2>4 DEF Inv, Types
    <2>9. \A d \in Conn : d # c =>
             /\ HasKey(d)' <=> HasKey(d)
             /\ Keyless(d)' <=> Keyless(d)
             /\ Entered(d)' <=> Entered(d)
      BY <2>4 DEF HasKey, Keyless, Entered, Outbound
    <2>10. \A d \in Conn : d # c /\ HasKey(d) => conn[d].key # conn[c].key
      BY <2>1 DEF Inv
    <2>11. \A d \in Conn : Sound(d)'
      <3>1. \A d \in Conn : d # c => Sound(d)'
        BY <2>2, <2>3, <2>4, <2>10, SameSound DEF Inv
      <3>2. Sound(c)'
        BY <2>4, <2>5, <2>6, <2>7 DEF Sound
      <3> QED
        BY <3>1, <3>2
    <2>12. \A d \in Conn : Entered(d)' <=> Entered(d)
      BY <2>1, <2>7, <2>9
    <2>13. \A d \in Conn : conn'[d].key = conn[d].key /\ (HasKey(d)' => HasKey(d))
      BY <2>4, <2>5, <2>7, <2>9
    <2>14. m_publicKeyMap' = m_publicKeyMap
      BY <1>2
    <2> QED
      BY <2>8, <2>11, <2>12, <2>13, <2>14 DEF Inv
  <1>3. CASE conn[c].peer \in {"reported", "removed"} /\ UNCHANGED <<finder, m_publicKeyMap>>
             /\ \E p \in {"removed", "gone"} : Set(c, [conn[c] EXCEPT !.peer = p])
    <2>1. PICK p \in {"removed", "gone"} : conn' = [conn EXCEPT ![c] = [conn[c] EXCEPT !.peer = p]]
      BY <1>3 DEF Set
    <2> DEFINE r == [conn[c] EXCEPT !.peer = p]
    <2>2. conn' = [conn EXCEPT ![c] = r] /\ slot' = slot /\ keys' = keys
          /\ m_publicKeyMap' = m_publicKeyMap
      BY <1>3, <2>1 DEF finder
    <2>3. conn'[c] = r
      BY <2>2 DEF Inv, Types, IsRecord
    <2>4. /\ IsRecord(r, ConnFields) /\ r.key = conn[c].key
          /\ r.attempt = conn[c].attempt /\ r.peer \in {"removed", "gone"}
      BY <1>0 DEF IsRecord, ConnFields
    <2> HIDE DEF r
    <2>5. r.attempt \notin {"connecting", "connected", "activated", "closed", "reported"}
      BY <1>0, <1>3, <2>4 DEF Sound
    <2>6. ~HasKey(c)' /\ ~Keyless(c)' /\ ~Entered(c)' /\ ~Entered(c)
      BY <1>3, <2>3, <2>4, <2>5 DEF HasKey, Keyless, Entered
    <2> QED
      BY <1>0, <2>2, <2>4, <2>5, <2>6, OnlyStage
  <1> QED
    BY <1>1, <1>2, <1>3 DEF destroy

\* Timers, stops, the resolver, cluster gossip and the resource manager.
LEMMA ElsewhereInv ==
    ASSUME Inv,
           \/ Ticks \/ Stops \/ requestStop
           \/ \E e \in setup.fixed : resolved(e) \/ backoffEnds(e)
           \/ \E c \in Conn, o \in Origin, gossip \in setup.gossip : onCluster(c, o, gossip)
           \/ \E entries \in SUBSET Inactive, origins \in SUBSET Imported : groom(entries, origins)
           \/ \E k \in EntryKey : cool(k)
    PROVE  Inv'
  <1>1. CASE Ticks
    BY <1>1, Elsewhere DEF Ticks, on_timer, autoconnect
  <1>2. CASE Stops \/ requestStop
    BY <1>2, Elsewhere DEF Stops, stop, timerStops, onChildrenStopped, requestStop, finder
  <1>3. CASE \E e \in setup.fixed : resolved(e) \/ backoffEnds(e)
    BY <1>3, Elsewhere DEF resolved, backoffEnds, addFixedPeer, backedOff, overlay
  <1>4. CASE \E c \in Conn, o \in Origin, gossip \in setup.gossip : onCluster(c, o, gossip)
    BY <1>4, Elsewhere DEF onCluster, overlay, finder
  <1>5. CASE \E entries \in SUBSET Inactive, origins \in SUBSET Imported :
                groom(entries, origins)
    BY <1>5, Elsewhere DEF groom, overlay, finder
  <1>6. CASE \E k \in EntryKey : cool(k)
    BY <1>6, Elsewhere DEF cool, overlay, finder
  <1> QED
    BY <1>1, <1>2, <1>3, <1>4, <1>5, <1>6

LEMMA NextInv ==
    ASSUME Inv, [Next]_vars
    PROVE  Inv'
  <1>0. setup.inConn \subseteq Conn /\ setup.outConn \subseteq Conn
    BY OverlayAssumption DEF Inv, Types
  <1>1. CASE UNCHANGED vars
    BY <1>1, Elsewhere DEF vars, finder, overlay
  <1>2. CASE \E c \in setup.inConn : HandoffStep(c)
    BY <1>0, <1>2, handoffRefusedInv, handoffActivateInv, handoffAddInv DEF HandoffStep
  <1>3. CASE \E c \in setup.outConn : AttemptStep(c)
    <2>1. PICK c \in Conn : AttemptStep(c)
      BY <1>0, <1>3
    <2> QED
      BY <2>1, onHandshakeInv, attemptFailsInv, attemptRedirectedInv, processResponseInv,
         add_activeInv DEF AttemptStep
  <1>4. CASE \E c \in setup.outConn : Ending(c)
    BY <1>0, <1>4, attemptStopInv, attemptOnClosedInv, attemptRemoveInv, lateTimerInv DEF Ending
  <1>5. CASE \E c \in setup.inConn \cup setup.outConn : run(c) \/ peerStop(c) \/ destroy(c)
    BY <1>0, <1>5, runInv, peerStopInv, destroyInv
  <1>6. CASE Connects
    BY <1>0, <1>6, connectInv DEF Connects
  <1>7. CASE \E c \in setup.inConn, e \in setup.inEndpoints : onHandoff(c, e)
    BY <1>0, <1>7, onHandoffInv
  <1>8. CASE \E c \in setup.inConn \cup setup.outConn :
                close(c) \/ \E onStrand \in BOOLEAN : chargePeer(c, onStrand)
    BY <1>0, <1>8, closeInv, chargePeerInv
  <1>9. CASE \/ Ticks \/ Stops \/ requestStop
             \/ \E e \in setup.fixed : resolved(e) \/ backoffEnds(e)
             \/ \E c \in Conn, o \in Origin, gossip \in setup.gossip : onCluster(c, o, gossip)
             \/ \E entries \in SUBSET Inactive, origins \in SUBSET Imported :
                    groom(entries, origins)
             \/ \E k \in EntryKey : cool(k)
    BY <1>9, ElsewhereInv
  <1>10. CASE Next
    <2>1. Work \/ ~Work
      OBVIOUS
    <2>2. CASE Work
      BY <2>2, <1>2, <1>3, <1>4, <1>5, <1>6, <1>9 DEF Work
    <2>3. CASE ~Work
      BY <1>0, <1>10, <2>3, <1>7, <1>8, <1>9 DEF Next
    <2> QED
      BY <2>2, <2>3
  <1> QED
    BY <1>1, <1>10

\* Who has a key, and who is in m_publicKeyMap, at every step of every number of
\* connections: the invariant Findable rests on.
THEOREM Invariance == Spec => []Inv
  <1>1. Init => Inv
    BY InitInv
  <1>2. Inv /\ [Next]_vars => Inv'
    BY NextInv
  <1> QED
    BY <1>1, <1>2, PTL DEF Spec

\* A peer that runs is found under its public key until ~PeerImp begins, however
\* connections to the same node open and close around it.
THEOREM FindableHolds == Spec => []Findable
  <1>1. Inv => Findable
    BY DEF Inv, Findable, Entered
  <1> QED
    BY <1>1, Invariance, PTL

\* Two connections never share a public key between activation and on_closed.
THEOREM OneConnectionPerKey ==
    Spec => [](\A c, d \in Conn : HasKey(c) /\ HasKey(d) /\ conn[c].key = conn[d].key => c = d)
  <1>1. Inv => \A c, d \in Conn : HasKey(c) /\ HasKey(d) /\ conn[c].key = conn[d].key => c = d
    BY DEF Inv
  <1> QED
    BY <1>1, Invariance, PTL

-----------------------------------------------------------------------------
(* The slots *)

CountFields == {"fixed", "cluster", "accept", "attempts", "fixed_active", "in_active",
                "out_active", "active"}
CountNames == CountFields \cup {"in_max", "out_max"}

\* Whether counter f counts slot s.
Flag(f, s) ==
    \/ f = "fixed"        /\ s.fixed
    \/ f = "cluster"      /\ s.cluster
    \/ f = "accept"       /\ s.state = "accept"
    \/ f = "attempts"     /\ s.state \in {"connect", "connected"}
    \/ f = "fixed_active" /\ s.state = "active" /\ s.fixed
    \/ f = "in_active"    /\ s.state = "active" /\ ~s.fixed /\ ~s.cluster /\ s.inbound
    \/ f = "out_active"   /\ s.state = "active" /\ ~s.fixed /\ ~s.cluster /\ ~s.inbound
    \/ f = "active"       /\ s.state = "active"

\* The connections in the table sl, those counter f counts and those of address b.
Tabled(sl)     == {c \in Conn : sl[c] # None}
Counted(sl, f) == {c \in Conn : sl[c] # None /\ Flag(f, sl[c])}
Hosted(sl, b)  == {c \in Conn : sl[c] # None /\ Bare(sl[c].e) = b}

\* Logic's tables and Counts agree.
Booked ==
    /\ IsRecord(slots, Endpoint) /\ IsRecord(connected_addresses, Bares)
    /\ IsRecord(counts, CountNames)
    /\ \A c \in Conn : slot[c] # None => slot[c] \in Slot /\ slots[slot[c].e] = c
    /\ \A e \in Endpoint : slots[e] # None =>
          slots[e] \in Conn /\ slot[slots[e]] # None /\ slot[slots[e]].e = e
    /\ \A k \in Key : k \in keys <=> \E c \in Conn : slot[c] # None /\ slot[c].key = k
    /\ \A c, d \in Conn : slot[c] # None /\ slot[d] # None /\ slot[c].key = slot[d].key =>
          c = d \/ slot[c].key = None
    /\ IsFiniteSet(Tabled(slot))
    /\ \A b \in Bares : connected_addresses[b] = Cardinality(Hosted(slot, b))
    /\ \A f \in CountFields : counts[f] = Cardinality(Counted(slot, f))

Limits ==
    /\ counts.in_active <= counts.in_max /\ counts.out_active <= counts.out_max
    /\ counts.in_max \in Nat /\ counts.out_max \in Nat
    /\ setup.outPeers < setup.maxPeers => counts.in_max + counts.out_max = setup.maxPeers

\* Which connections have a slot in the table; one that has no key is not known to be
\* of the cluster.
Placed(c) ==
    /\ HasKey(c) \/ Keyless(c) => slot[c] # None
    /\ Keyless(c) => ~slot[c].cluster
    /\ conn[c].attempt = "none" /\ conn[c].peer = "none" => slot[c] = None

SlotInv ==
    /\ Booked /\ Limits
    /\ \A c \in Conn : Placed(c)
    /\ toConnect \subseteq Endpoint /\ bootcache \subseteq Endpoint

-----------------------------------------------------------------------------
(* The resource manager's entries *)

\* The attempts, the peers and the imported items that refer to the entry k.
AttemptRefs(cn, k) == {c \in Conn : cn[c].attempt \notin {"none", "gone"} /\ cn[c].usage = k}
PeerRefs(cn, k)    == {c \in Conn : cn[c].peer \notin {"none", "gone"} /\ cn[c].usage = k}
ImportRefs(it, k)  == {q \in Origin \X Endpoint :
                          it[q[1]] # Absent /\ q[2] \in it[q[1]] /\ InboundKey(q[2]) = k}

Holders(cn, k) == Cardinality(AttemptRefs(cn, k)) + Cardinality(PeerRefs(cn, k))
Imports(it, k) == Cardinality(ImportRefs(it, k))

\* Entry v is the one for n references, of which i are imports.
Tallied(v, n, i) ==
    \/ v = Absent /\ n = 0
    \/ /\ v \in Entry /\ v.refcount = n /\ v.remote_balance = i
       /\ v.inactive = (n = 0)

RefsFinite(cn, it, k) ==
    /\ IsFiniteSet(AttemptRefs(cn, k)) /\ IsFiniteSet(PeerRefs(cn, k))
    /\ IsFiniteSet(ImportRefs(it, k))

\* Each entry k of the table t is the one for the references to it.
AllTallied(t, cn, it) ==
    \A k \in EntryKey : /\ RefsFinite(cn, it, k)
                        /\ Tallied(t[k], Holders(cn, k) + Imports(it, k), Imports(it, k))

RefInv ==
    /\ IsRecord(table, EntryKey) /\ IsRecord(import_table, Origin)
    /\ \A o \in Origin : import_table[o] # Absent =>
          import_table[o] \subseteq Endpoint /\ IsFiniteSet(import_table[o])
    /\ \A c \in Conn : AttemptHolds(c) \/ PeerHolds(c) => conn[c].usage \in EntryKey
    /\ AllTallied(table, conn, import_table)

-----------------------------------------------------------------------------
\* A set that changes at c only.
LEMMA OneChange ==
    ASSUME NEW S, IsFiniteSet(S), NEW T, NEW c, S \ {c} = T \ {c}
    PROVE  /\ IsFiniteSet(T) /\ Cardinality(S) \in Nat /\ Cardinality(T) \in Nat
           /\ Cardinality(T) = Cardinality(S) - (IF c \in S THEN 1 ELSE 0)
                                              + (IF c \in T THEN 1 ELSE 0)
  <1>. DEFINE R == S \ {c}
  <1>1. IsFiniteSet(R) /\ Cardinality(R) = IF c \in S THEN Cardinality(S) - 1 ELSE Cardinality(S)
    BY FS_RemoveElement
  <1>2. T = R \/ T = R \cup {c}
    OBVIOUS
  <1>3. IsFiniteSet(R \cup {c}) /\ Cardinality(R \cup {c}) = Cardinality(R) + 1
    <2>1. c \notin R
      OBVIOUS
    <2>. HIDE DEF R
    <2>. QED  BY <1>1, <2>1, FS_AddElement
  <1>4. IsFiniteSet(T)
    BY <1>1, <1>2, <1>3
  <1>5. Cardinality(S) \in Nat /\ Cardinality(T) \in Nat /\ Cardinality(R) \in Nat
    BY <1>1, <1>4, FS_CardinalityType
  <1>6. CASE c \in T
    <2>1. T = R \cup {c}
      BY <1>6
    <2>. HIDE DEF R
    <2>. QED  BY <1>1, <1>3, <1>4, <1>5, <1>6, <2>1
  <1>7. CASE c \notin T
    <2>1. T = R
      BY <1>7
    <2>. HIDE DEF R
    <2>. QED  BY <1>1, <1>4, <1>5, <1>7, <2>1
  <1>. QED  BY <1>6, <1>7

\* The tables sl and sm differ at c at most.
But(c, sl, sm) == \A d \in Conn \ {c} : sm[d] = sl[d]

\* What one slot contributes to the counter f and to its address.
Weight(f, s) == IF s # None /\ Flag(f, s) THEN 1 ELSE 0
Lives(b, s)  == IF s # None /\ Bare(s.e) = b THEN 1 ELSE 0

CountMoves(f, c, sl, sm) ==
    Cardinality(Counted(sm, f)) = Cardinality(Counted(sl, f)) - Weight(f, sl[c]) + Weight(f, sm[c])
HostMoves(b, c, sl, sm) ==
    Cardinality(Hosted(sm, b)) = Cardinality(Hosted(sl, b)) - Lives(b, sl[c]) + Lives(b, sm[c])

LEMMA CountedChange ==
    ASSUME NEW sl, NEW sm, NEW c \in Conn, But(c, sl, sm),
           IsFiniteSet(Tabled(sl)), NEW f
    PROVE  CountMoves(f, c, sl, sm)
  <1>1. Counted(sl, f) \subseteq Tabled(sl)
    BY DEF Counted, Tabled
  <1>2. IsFiniteSet(Counted(sl, f))
    BY <1>1, FS_Subset
  <1>3. Counted(sl, f) \ {c} = Counted(sm, f) \ {c}
    BY DEF Counted, But
  <1>4. /\ c \in Counted(sl, f) <=> sl[c] # None /\ Flag(f, sl[c])
        /\ c \in Counted(sm, f) <=> sm[c] # None /\ Flag(f, sm[c])
    BY DEF Counted
  <1>5. /\ Cardinality(Counted(sl, f)) \in Nat
        /\ Cardinality(Counted(sm, f)) = Cardinality(Counted(sl, f))
              - (IF c \in Counted(sl, f) THEN 1 ELSE 0) + (IF c \in Counted(sm, f) THEN 1 ELSE 0)
    BY <1>2, <1>3, OneChange
  <1>. QED  BY <1>4, <1>5 DEF Weight, CountMoves

LEMMA HostedChange ==
    ASSUME NEW sl, NEW sm, NEW c \in Conn, But(c, sl, sm),
           IsFiniteSet(Tabled(sl)), NEW b
    PROVE  HostMoves(b, c, sl, sm)
  <1>1. Hosted(sl, b) \subseteq Tabled(sl)
    BY DEF Hosted, Tabled
  <1>2. IsFiniteSet(Hosted(sl, b))
    BY <1>1, FS_Subset
  <1>3. Hosted(sl, b) \ {c} = Hosted(sm, b) \ {c}
    BY DEF Hosted, But
  <1>4. /\ c \in Hosted(sl, b) <=> sl[c] # None /\ Bare(sl[c].e) = b
        /\ c \in Hosted(sm, b) <=> sm[c] # None /\ Bare(sm[c].e) = b
    BY DEF Hosted
  <1>5. /\ Cardinality(Hosted(sl, b)) \in Nat
        /\ Cardinality(Hosted(sm, b)) = Cardinality(Hosted(sl, b))
              - (IF c \in Hosted(sl, b) THEN 1 ELSE 0) + (IF c \in Hosted(sm, b) THEN 1 ELSE 0)
    BY <1>2, <1>3, OneChange
  <1>. QED  BY <1>4, <1>5 DEF Lives, HostMoves

LEMMA TabledChange ==
    ASSUME NEW sl, NEW sm, NEW c \in Conn, But(c, sl, sm),
           IsFiniteSet(Tabled(sl))
    PROVE  IsFiniteSet(Tabled(sm))
  <1>1. Tabled(sl) \ {c} = Tabled(sm) \ {c}
    BY DEF Tabled, But
  <1>. QED  BY <1>1, OneChange

\* adjust changes every counter that counts the slot, by n.
LEMMA adjustIs ==
    ASSUME NEW r, IsRecord(r, CountNames), NEW s, s # None, NEW n \in Int,
           \A f \in CountFields : r[f] \in Int
    PROVE  /\ IsRecord(adjust(r, s, n), CountNames)
           /\ \A f \in CountFields :
                 /\ adjust(r, s, n)[f] \in Int
                 /\ adjust(r, s, n)[f] = r[f] + n * Weight(f, s)
           /\ adjust(r, s, n).in_max = r.in_max /\ adjust(r, s, n).out_max = r.out_max
  <1>. DEFINE a == adjust(r, s, n)
  <1>1. IsRecord(a, CountNames)
    BY DEF adjust, IsRecord, CountNames, CountFields
  <1>2. /\ a.fixed = Adjusted(r.fixed, s.fixed, n)
        /\ a.cluster = Adjusted(r.cluster, s.cluster, n)
        /\ a.accept = Adjusted(r.accept, s.state = "accept", n)
        /\ a.attempts = Adjusted(r.attempts, s.state \in {"connect", "connected"}, n)
        /\ a.fixed_active = Adjusted(r.fixed_active, s.state = "active" /\ s.fixed, n)
        /\ a.in_active = Adjusted(r.in_active,
              (s.state = "active" /\ ~s.fixed /\ ~s.cluster) /\ s.inbound, n)
        /\ a.out_active = Adjusted(r.out_active,
              (s.state = "active" /\ ~s.fixed /\ ~s.cluster) /\ ~s.inbound, n)
        /\ a.active = Adjusted(r.active, s.state = "active", n)
        /\ a.in_max = r.in_max /\ a.out_max = r.out_max
    BY DEF adjust, IsRecord, CountNames, CountFields
  <1>. HIDE DEF a
  <1>3. ASSUME NEW f \in CountFields PROVE a[f] = Adjusted(r[f], Flag(f, s), n)
    <2>1. CASE f = "fixed"         BY <1>2, <2>1 DEF Flag, Adjusted
    <2>2. CASE f = "cluster"       BY <1>2, <2>2 DEF Flag, Adjusted
    <2>3. CASE f = "accept"        BY <1>2, <2>3 DEF Flag, Adjusted
    <2>4. CASE f = "attempts"      BY <1>2, <2>4 DEF Flag, Adjusted
    <2>5. CASE f = "fixed_active"  BY <1>2, <2>5 DEF Flag, Adjusted
    <2>6. CASE f = "in_active"     BY <1>2, <2>6 DEF Flag, Adjusted
    <2>7. CASE f = "out_active"    BY <1>2, <2>7 DEF Flag, Adjusted
    <2>8. CASE f = "active"        BY <1>2, <2>8 DEF Flag, Adjusted
    <2>. QED  BY <2>1, <2>2, <2>3, <2>4, <2>5, <2>6, <2>7, <2>8 DEF CountFields
  <1>4. \A f \in CountFields : a[f] \in Int /\ a[f] = r[f] + n * Weight(f, s)
    <2>. SUFFICES ASSUME NEW f \in CountFields
                  PROVE  a[f] \in Int /\ a[f] = r[f] + n * Weight(f, s)
      OBVIOUS
    <2>1. r[f] \in Int /\ a[f] = Adjusted(r[f], Flag(f, s), n)
      BY <1>3
    <2>2. CASE Flag(f, s)
      BY <2>1, <2>2 DEF Adjusted, Weight
    <2>3. CASE ~Flag(f, s)
      BY <2>1, <2>3 DEF Adjusted, Weight
    <2>. QED  BY <2>2, <2>3
  <1>. QED  BY <1>1, <1>2, <1>4 DEF a

-----------------------------------------------------------------------------
(* The operations of Logic *)

LEMMA SlotSet ==
    ASSUME Inv, NEW c \in Conn, NEW s, slot' = [slot EXCEPT ![c] = s]
    PROVE  slot'[c] = s /\ But(c, slot, slot')
  BY DEF Inv, Types, IsRecord, But

LEMMA CountsNat == ASSUME Booked PROVE \A f \in CountFields : counts[f] \in Nat
  <1>1. \A f : Counted(slot, f) \subseteq Tabled(slot)
    BY DEF Counted, Tabled
  <1>2. \A f : Cardinality(Counted(slot, f)) \in Nat
    BY <1>1, FS_Subset, FS_CardinalityType DEF Booked
  <1>. QED  BY <1>2 DEF Booked

LEMMA AddressesNat == ASSUME Booked PROVE \A b \in Bares : connected_addresses[b] \in Nat
  <1>1. \A b : Hosted(slot, b) \subseteq Tabled(slot)
    BY DEF Hosted, Tabled
  <1>2. \A b : Cardinality(Hosted(slot, b)) \in Nat
    BY <1>1, FS_Subset, FS_CardinalityType DEF Booked
  <1>. QED  BY <1>2 DEF Booked

\* The counters follow a slot that is entered, changed or removed.
LEMMA CountsStep ==
    ASSUME Inv, Booked, NEW c \in Conn, NEW s, slot' = [slot EXCEPT ![c] = s],
           \A f \in CountFields :
              counts'[f] = counts[f] - Weight(f, slot[c])
                                     + Weight(f, s)
    PROVE  \A f \in CountFields : counts'[f] = Cardinality(Counted(slot', f))
  <1>0. IsFiniteSet(Tabled(slot))
    BY DEF Booked
  <1>1. slot'[c] = s /\ But(c, slot, slot')
    BY SlotSet
  <1>2. ASSUME NEW f \in CountFields
        PROVE  CountMoves(f, c, slot, slot')
    BY <1>0, <1>1, CountedChange
  <1>3. \A f \in CountFields : counts[f] = Cardinality(Counted(slot, f))
    BY DEF Booked
  <1>. QED  BY <1>1, <1>2, <1>3 DEF CountMoves

LEMMA AddressesStep ==
    ASSUME Inv, Booked, NEW c \in Conn, NEW s, slot' = [slot EXCEPT ![c] = s],
           \A b \in Bares :
              connected_addresses'[b] = connected_addresses[b]
                  - Lives(b, slot[c]) + Lives(b, s)
    PROVE  \A b \in Bares : connected_addresses'[b] = Cardinality(Hosted(slot', b))
  <1>0. IsFiniteSet(Tabled(slot))
    BY DEF Booked
  <1>1. slot'[c] = s /\ But(c, slot, slot')
    BY SlotSet
  <1>2. ASSUME NEW b \in Bares
        PROVE  HostMoves(b, c, slot, slot')
    BY <1>0, <1>1, HostedChange
  <1>3. \A b \in Bares : connected_addresses[b] = Cardinality(Hosted(slot, b))
    BY DEF Booked
  <1>. QED
    <2>. SUFFICES ASSUME NEW b \in Bares
                  PROVE  connected_addresses'[b] = Cardinality(Hosted(slot', b))
      OBVIOUS
    <2>1. connected_addresses'[b] = connected_addresses[b]
              - Lives(b, slot[c]) + Lives(b, s)
      OBVIOUS
    <2>. QED  BY <1>1, <1>2, <1>3, <2>1 DEF HostMoves

\* A step that leaves the finder's tables alone.
Same == UNCHANGED <<slot, slots, connected_addresses, keys, counts>>

LEMMA SameBooked == ASSUME Booked, Same PROVE Booked'
  <1>1. /\ Tabled(slot') = Tabled(slot)
        /\ \A f : Counted(slot', f) = Counted(slot, f)
        /\ \A b : Hosted(slot', b) = Hosted(slot, b)
    BY DEF Same
  <1>. QED  BY <1>1 DEF Same, Booked

LEMMA ListBooked ==
    ASSUME Inv, Booked, NEW c \in Conn, NEW s \in Slot, List(c, s),
           slot[c] = None, slots[s.e] = None, s.key = None
    PROVE  /\ Booked' /\ slot'[c] = s /\ IsRecord(slot', Conn)
           /\ counts'.in_max = counts.in_max /\ counts'.out_max = counts.out_max
           /\ \A f \in CountFields : counts'[f] = counts[f] + Weight(f, s)
  <1>1. /\ slot' = [slot EXCEPT ![c] = s] /\ slots' = [slots EXCEPT ![s.e] = c]
        /\ connected_addresses' = [connected_addresses EXCEPT ![Bare(s.e)] = @ + 1]
        /\ counts' = adjust(counts, s, 1) /\ keys' = keys
    BY DEF List
  <1>2. slot'[c] = s /\ But(c, slot, slot')
    BY <1>1, SlotSet
  <1>0. \A d \in Conn \ {c} : slot'[d] = slot[d]
    BY <1>2 DEF But
  <1>3. s.e \in Endpoint /\ Bare(s.e) \in Bares /\ s # None /\ c # None
    BY OverlayAssumption DEF Slot, Bares
  <1>4. \A f \in CountFields : counts[f] \in Nat
    BY CountsNat
  <1>5. /\ IsRecord(counts', CountNames)
        /\ \A f \in CountFields : counts'[f] = counts[f] + 1 * Weight(f, s)
        /\ counts'.in_max = counts.in_max /\ counts'.out_max = counts.out_max
    BY <1>1, <1>3, <1>4, adjustIs DEF Booked
  <1>6. \A f \in CountFields : counts'[f] = counts[f] + Weight(f, s)
    BY <1>4, <1>5 DEF Weight
  <1>7. \A f \in CountFields :
           counts'[f] = counts[f] - Weight(f, slot[c])
                                  + Weight(f, s)
    BY <1>3, <1>4, <1>6 DEF Weight
  <1>8. \A f \in CountFields : counts'[f] = Cardinality(Counted(slot', f))
    BY <1>1, <1>7, CountsStep
  <1>9. /\ IsRecord(connected_addresses', Bares)
        /\ connected_addresses'[Bare(s.e)] = connected_addresses[Bare(s.e)] + 1
        /\ \A b \in Bares \ {Bare(s.e)} : connected_addresses'[b] = connected_addresses[b]
    BY <1>1, <1>3 DEF Booked, IsRecord
  <1>10. \A b \in Bares :
            connected_addresses'[b] = connected_addresses[b]
                - Lives(b, slot[c]) + Lives(b, s)
    <2>. SUFFICES ASSUME NEW b \in Bares
                  PROVE  connected_addresses'[b] = connected_addresses[b]
                            - Lives(b, slot[c])
                            + Lives(b, s)
      OBVIOUS
    <2>1. connected_addresses[b] \in Nat
      BY AddressesNat
    <2>2. CASE b = Bare(s.e)
      BY <1>3, <1>9, <2>1, <2>2 DEF Lives
    <2>3. CASE b # Bare(s.e)
      BY <1>3, <1>9, <2>1, <2>3 DEF Lives
    <2>. QED  BY <2>2, <2>3
  <1>11. \A b \in Bares : connected_addresses'[b] = Cardinality(Hosted(slot', b))
    BY <1>1, <1>10, AddressesStep
  <1>12. IsFiniteSet(Tabled(slot'))
    BY <1>2, TabledChange DEF Booked
  <1>13. /\ IsRecord(slots', Endpoint) /\ slots'[s.e] = c
         /\ \A e \in Endpoint \ {s.e} : slots'[e] = slots[e]
    BY <1>1, <1>3 DEF Booked, IsRecord
  <1>14. \A d \in Conn : slot'[d] # None => slot'[d] \in Slot /\ slots'[slot'[d].e] = d
    <2>. SUFFICES ASSUME NEW d \in Conn, slot'[d] # None
                  PROVE  slot'[d] \in Slot /\ slots'[slot'[d].e] = d
      OBVIOUS
    <2>1. CASE d = c
      BY <1>2, <1>13, <2>1
    <2>2. CASE d # c
      <3>1. slot'[d] = slot[d] /\ slot[d] \in Slot /\ slots[slot[d].e] = d
        BY <1>0, <2>2 DEF Booked
      <3>2. slot[d].e \in Endpoint /\ d # None
        BY <3>1, OverlayAssumption DEF Slot
      <3>. QED  BY <1>13, <3>1, <3>2
    <2>. QED  BY <2>1, <2>2
  <1>15. \A e \in Endpoint : slots'[e] # None =>
            slots'[e] \in Conn /\ slot'[slots'[e]] # None /\ slot'[slots'[e]].e = e
    BY <1>0, <1>2, <1>3, <1>13 DEF Booked
  <1>16. \A k \in Key : k \in keys' <=> \E d \in Conn : slot'[d] # None /\ slot'[d].key = k
    BY <1>0, <1>1, <1>2, OverlayAssumption DEF Booked
  <1>17. \A d, g \in Conn : slot'[d] # None /\ slot'[g] # None /\ slot'[d].key = slot'[g].key =>
            d = g \/ slot'[d].key = None
    BY <1>0, <1>2 DEF Booked
  <1>18. IsRecord(slot', Conn)
    BY <1>1 DEF Inv, Types, IsRecord
  <1>. QED  BY <1>2, <1>5, <1>6, <1>8, <1>9, <1>11, <1>12, <1>13, <1>14, <1>15, <1>16, <1>17, <1>18 DEF Booked

\* A slot changes in its place: it keeps its endpoint, and its key or gets a new one.
LEMMA ChangeBooked ==
    ASSUME Inv, Booked, NEW c \in Conn, NEW s \in Slot, slot[c] # None,
           slot' = [slot EXCEPT ![c] = s], s.e = slot[c].e,
           UNCHANGED <<slots, connected_addresses>>,
           IsRecord(counts', CountNames),
           \A f \in CountFields : counts'[f] = counts[f] - Weight(f, slot[c]) + Weight(f, s),
           \/ s.key = slot[c].key /\ keys' = keys
           \/ s.key \in Key \ keys /\ slot[c].key = None /\ keys' = keys \cup {s.key}
    PROVE  Booked'
  <1>1. slot'[c] = s /\ But(c, slot, slot')
    BY SlotSet
  <1>2. \A d \in Conn \ {c} : slot'[d] = slot[d]
    BY <1>1 DEF But
  <1>3. s # None
    BY OverlayAssumption
  <1>4. \A f \in CountFields : counts'[f] = Cardinality(Counted(slot', f))
    BY CountsStep
  <1>5. \A b \in Bares :
            connected_addresses'[b] = connected_addresses[b] - Lives(b, slot[c]) + Lives(b, s)
    <2>. SUFFICES ASSUME NEW b \in Bares
                  PROVE  connected_addresses'[b]
                            = connected_addresses[b] - Lives(b, slot[c]) + Lives(b, s)
      OBVIOUS
    <2>1. connected_addresses[b] \in Nat
      BY AddressesNat
    <2>2. Lives(b, slot[c]) = Lives(b, s) /\ Lives(b, s) \in Nat
      BY <1>3 DEF Lives
    <2>. QED  BY <2>1, <2>2
  <1>6. \A b \in Bares : connected_addresses'[b] = Cardinality(Hosted(slot', b))
    BY <1>5, AddressesStep
  <1>7. IsFiniteSet(Tabled(slot'))
    BY <1>1, TabledChange DEF Booked
  <1>8. \A d \in Conn : slot'[d] # None => slot'[d] \in Slot /\ slots'[slot'[d].e] = d
    BY <1>1, <1>2 DEF Booked
  <1>9. \A e \in Endpoint : slots'[e] # None =>
            slots'[e] \in Conn /\ slot'[slots'[e]] # None /\ slot'[slots'[e]].e = e
    BY <1>1, <1>2, <1>3 DEF Booked
  <1>10. \A k \in Key : k \in keys <=> \E d \in Conn : slot[d] # None /\ slot[d].key = k
    BY DEF Booked
  <1>11. \A d, g \in Conn : slot[d] # None /\ slot[g] # None /\ slot[d].key = slot[g].key =>
            d = g \/ slot[d].key = None
    BY DEF Booked
  <1>12. CASE s.key = slot[c].key /\ keys' = keys
    <2>1. \A d \in Conn : (slot'[d] # None <=> slot[d] # None) /\ slot'[d].key = slot[d].key
      BY <1>1, <1>2, <1>3, <1>12
    <2>2. \A k \in Key : k \in keys' <=> \E d \in Conn : slot'[d] # None /\ slot'[d].key = k
      BY <1>10, <1>12, <2>1
    <2>3. \A d, g \in Conn : slot'[d] # None /\ slot'[g] # None /\ slot'[d].key = slot'[g].key =>
             d = g \/ slot'[d].key = None
      BY <1>11, <2>1
    <2>. QED  BY <1>4, <1>6, <1>7, <1>8, <1>9, <2>2, <2>3 DEF Booked
  <1>13. CASE s.key \in Key \ keys /\ slot[c].key = None /\ keys' = keys \cup {s.key}
    <2>1. \A d \in Conn \ {c} : slot[d] # None => slot[d].key # s.key
      BY <1>10, <1>13
    <2>2. \A k \in Key : k \in keys' <=> \E d \in Conn : slot'[d] # None /\ slot'[d].key = k
      <3>. SUFFICES ASSUME NEW k \in Key
                    PROVE  k \in keys' <=> \E d \in Conn : slot'[d] # None /\ slot'[d].key = k
        OBVIOUS
      <3>1. CASE k = s.key
        BY <1>1, <1>3, <1>13, <3>1
      <3>2. CASE k # s.key
        <4>1. k # None
          BY OverlayAssumption
        <4>. QED  BY <1>1, <1>2, <1>10, <1>13, <3>2, <4>1
      <3>. QED  BY <3>1, <3>2
    <2>3. \A d, g \in Conn : slot'[d] # None /\ slot'[g] # None /\ slot'[d].key = slot'[g].key =>
             d = g \/ slot'[d].key = None
      BY <1>1, <1>2, <1>11, <2>1
    <2>. QED  BY <1>4, <1>6, <1>7, <1>8, <1>9, <2>2, <2>3 DEF Booked
  <1>. QED  BY <1>12, <1>13

\* Taking a slot out of the counts and putting another in.
LEMMA Readjusted ==
    ASSUME Booked, NEW r, IsRecord(r, CountNames), \A f \in CountFields : r[f] \in Int,
           NEW s, s # None, NEW t, t # None
    PROVE  LET a == adjust(adjust(r, s, -1), t, 1) IN
           /\ IsRecord(a, CountNames)
           /\ \A f \in CountFields : a[f] \in Int /\ a[f] = r[f] - Weight(f, s) + Weight(f, t)
           /\ a.in_max = r.in_max /\ a.out_max = r.out_max
  <1>. DEFINE b == adjust(r, s, -1)
             a == adjust(b, t, 1)
  <1>1. /\ IsRecord(b, CountNames)
        /\ \A f \in CountFields : b[f] \in Int /\ b[f] = r[f] + (-1) * Weight(f, s)
        /\ b.in_max = r.in_max /\ b.out_max = r.out_max
    BY adjustIs
  <1>. HIDE DEF b
  <1>2. /\ IsRecord(a, CountNames)
        /\ \A f \in CountFields : a[f] \in Int /\ a[f] = b[f] + 1 * Weight(f, t)
        /\ a.in_max = b.in_max /\ a.out_max = b.out_max
    BY <1>1, adjustIs
  <1>. HIDE DEF a
  <1>3. \A f : Weight(f, s) \in Int /\ Weight(f, t) \in Int
    BY DEF Weight
  <1>4. \A f \in CountFields : a[f] = r[f] - Weight(f, s) + Weight(f, t)
    <2>. SUFFICES ASSUME NEW f \in CountFields PROVE a[f] = r[f] - Weight(f, s) + Weight(f, t)
      OBVIOUS
    <2>1. /\ r[f] \in Int /\ b[f] \in Int /\ Weight(f, s) \in Int /\ Weight(f, t) \in Int
          /\ b[f] = r[f] + (-1) * Weight(f, s) /\ a[f] = b[f] + 1 * Weight(f, t)
      BY <1>1, <1>2, <1>3
    <2>. QED  BY <2>1
  <1>. QED  BY <1>1, <1>2, <1>4 DEF a, b

LEMMA onConnectedBooked ==
    ASSUME Inv, Booked, NEW c \in Conn, slot[c] # None, onConnected(c)
    PROVE  /\ Booked' /\ slot'[c] # None /\ slot'[c].cluster = slot[c].cluster
           /\ counts'.in_max = counts.in_max /\ counts'.out_max = counts.out_max
           /\ counts'.in_active <= counts.in_active /\ counts'.out_active <= counts.out_active
  <1>. DEFINE s == [slot[c] EXCEPT !.state = "connected"]
  <1>1. /\ slot' = [slot EXCEPT ![c] = s] /\ keys' = keys
        /\ counts' = adjust(adjust(counts, slot[c], -1), s, 1)
        /\ UNCHANGED <<slots, connected_addresses>>
    BY DEF onConnected
  <1>2. /\ s \in Slot /\ s.e = slot[c].e /\ s.key = slot[c].key
        /\ s.cluster = slot[c].cluster /\ s.state = "connected"
    BY DEF Booked, Slot
  <1>. HIDE DEF s
  <1>3. s # None
    BY <1>2, OverlayAssumption
  <1>4. \A f \in CountFields : counts[f] \in Nat
    BY CountsNat
  <1>5. /\ IsRecord(counts', CountNames)
        /\ \A f \in CountFields : counts'[f] = counts[f] - Weight(f, slot[c]) + Weight(f, s)
        /\ counts'.in_max = counts.in_max /\ counts'.out_max = counts.out_max
    <2>1. IsRecord(counts, CountNames) /\ \A f \in CountFields : counts[f] \in Int
      BY <1>4 DEF Booked
    <2>. QED  BY <1>1, <1>3, <2>1, Readjusted
  <1>6. Booked'
    BY <1>1, <1>2, <1>5, ChangeBooked
  <1>7. slot'[c] = s
    BY <1>1, SlotSet
  <1>8. /\ Weight("in_active", s) = 0 /\ Weight("out_active", s) = 0
        /\ Weight("in_active", slot[c]) \in Nat /\ Weight("out_active", slot[c]) \in Nat
    BY <1>2 DEF Weight, Flag
  <1>9. counts'.in_active <= counts.in_active /\ counts'.out_active <= counts.out_active
    <2>1. "in_active" \in CountFields /\ "out_active" \in CountFields
      BY DEF CountFields
    <2>2. /\ counts.in_active \in Nat /\ counts.out_active \in Nat
          /\ counts'.in_active = counts.in_active - Weight("in_active", slot[c]) + Weight("in_active", s)
          /\ counts'.out_active = counts.out_active - Weight("out_active", slot[c]) + Weight("out_active", s)
      BY <1>4, <1>5, <2>1
    <2>. QED  BY <1>8, <2>2
  <1>. QED  BY <1>2, <1>3, <1>5, <1>6, <1>7, <1>9

LEMMA activateBooked ==
    ASSUME Inv, Booked, Limits, setup' = setup, NEW c \in Conn, slot[c] # None,
           ~slot[c].cluster, slot[c].key = None, NEW k \in Key, NEW cluster \in BOOLEAN,
           Activatable(c, k), activate(c, k, cluster)
    PROVE  Booked' /\ Limits' /\ slot'[c] # None
  <1>. DEFINE keyed == [slot[c] EXCEPT !.key = k, !.cluster = cluster]
             s == [keyed EXCEPT !.state = "active"]
             c1 == adjust(adjust(counts, slot[c], -1), keyed, 1)
  <1>1. /\ slot' = [slot EXCEPT ![c] = s] /\ keys' = keys \cup {k}
        /\ counts' = adjust(adjust(c1, keyed, -1), s, 1)
        /\ UNCHANGED <<slots, connected_addresses>>
    BY DEF activate
  <1>2. slot[c] \in Slot
    BY DEF Booked
  <1>3. /\ keyed \in Slot /\ keyed.e = slot[c].e /\ keyed.key = k /\ keyed.cluster = cluster
        /\ keyed.fixed = slot[c].fixed /\ keyed.inbound = slot[c].inbound
    BY <1>2 DEF Slot
  <1>4. /\ s \in Slot /\ s.e = keyed.e /\ s.key = keyed.key /\ s.cluster = keyed.cluster
        /\ s.fixed = keyed.fixed /\ s.inbound = keyed.inbound /\ s.state = "active"
    <2>. HIDE DEF keyed
    <2>. QED  BY <1>3 DEF Slot
  <1>. HIDE DEF s, keyed
  <1>5. s # None /\ keyed # None
    BY <1>3, <1>4, OverlayAssumption
  <1>6. IsRecord(counts, CountNames) /\ \A f \in CountFields : counts[f] \in Nat
    BY CountsNat DEF Booked
  <1>7. /\ IsRecord(c1, CountNames)
        /\ \A f \in CountFields : c1[f] \in Int /\ c1[f] = counts[f] - Weight(f, slot[c]) + Weight(f, keyed)
        /\ c1.in_max = counts.in_max /\ c1.out_max = counts.out_max
    <2>1. \A f \in CountFields : counts[f] \in Int
      BY <1>6
    <2>. QED  BY <1>5, <1>6, <2>1, Readjusted
  <1>. HIDE DEF c1
  <1>8. /\ IsRecord(counts', CountNames)
        /\ \A f \in CountFields : counts'[f] = c1[f] - Weight(f, keyed) + Weight(f, s)
        /\ counts'.in_max = c1.in_max /\ counts'.out_max = c1.out_max
    BY <1>1, <1>5, <1>7, Readjusted
  <1>9. \A f : Weight(f, slot[c]) \in 0 .. 1 /\ Weight(f, keyed) \in 0 .. 1 /\ Weight(f, s) \in 0 .. 1
    BY DEF Weight
  <1>10. \A f \in CountFields : counts'[f] = counts[f] - Weight(f, slot[c]) + Weight(f, s)
    <2>. SUFFICES ASSUME NEW f \in CountFields
                  PROVE  counts'[f] = counts[f] - Weight(f, slot[c]) + Weight(f, s)
      OBVIOUS
    <2>1. /\ counts[f] \in Nat /\ c1[f] = counts[f] - Weight(f, slot[c]) + Weight(f, keyed)
          /\ counts'[f] = c1[f] - Weight(f, keyed) + Weight(f, s)
          /\ Weight(f, slot[c]) \in 0 .. 1 /\ Weight(f, keyed) \in 0 .. 1 /\ Weight(f, s) \in 0 .. 1
      BY <1>6, <1>7, <1>8, <1>9
    <2>. QED  BY <2>1
  <1>11. Booked'
    <2>1. k \notin keys
      BY DEF Activatable
    <2>. QED  BY <1>1, <1>3, <1>4, <1>8, <1>10, <2>1, ChangeBooked
  <1>12. slot'[c] = s
    BY <1>1, SlotSet
  <1>13. /\ Weight("in_active", s) = 1 => counts.in_active < counts.in_max
         /\ Weight("out_active", s) = 1 => counts.out_active < counts.out_max
    <2>1. slot[c].fixed \/ (slot[c].inbound /\ counts.in_active < counts.in_max)
            \/ (~slot[c].inbound /\ counts.out_active < counts.out_max)
      BY DEF Activatable, can_activate
    <2>2. /\ Weight("in_active", s) = 1 => ~s.fixed /\ s.inbound
          /\ Weight("out_active", s) = 1 => ~s.fixed /\ ~s.inbound
      BY DEF Weight, Flag
    <2>. QED  BY <1>3, <1>4, <2>1, <2>2
  <1>14. /\ counts.in_active \in Nat /\ counts.out_active \in Nat
         /\ counts'.in_active = counts.in_active - Weight("in_active", slot[c]) + Weight("in_active", s)
         /\ counts'.out_active = counts.out_active - Weight("out_active", slot[c]) + Weight("out_active", s)
    <2>1. "in_active" \in CountFields /\ "out_active" \in CountFields
      BY DEF CountFields
    <2>. QED  BY <1>6, <1>10, <2>1
  <1>15. counts'.in_max = counts.in_max /\ counts'.out_max = counts.out_max
    BY <1>7, <1>8
  <1>16. /\ counts.in_max \in Nat /\ counts.out_max \in Nat
         /\ counts.in_active <= counts.in_max /\ counts.out_active <= counts.out_max
    BY DEF Limits
  <1>17. counts'.in_active <= counts.in_max /\ counts'.out_active <= counts.out_max
    BY <1>9, <1>13, <1>14, <1>16
  <1>18. Limits'
    BY <1>15, <1>17 DEF Limits
  <1>. QED  BY <1>5, <1>11, <1>12, <1>18

LEMMA on_closedBooked ==
    ASSUME Inv, Booked, Limits, setup' = setup, NEW c \in Conn, slot[c] # None, on_closed(c)
    PROVE  Booked' /\ Limits' /\ slot'[c] = None
  <1>. DEFINE s == slot[c]
  <1>1. /\ slot' = [slot EXCEPT ![c] = None] /\ slots' = [slots EXCEPT ![s.e] = None]
        /\ connected_addresses' = [connected_addresses EXCEPT ![Bare(s.e)] = @ - 1]
        /\ counts' = adjust(counts, s, -1) /\ keys' = keys \ {s.key}
    BY DEF on_closed
  <1>2. slot'[c] = None /\ But(c, slot, slot')
    BY <1>1, SlotSet
  <1>3. \A d \in Conn \ {c} : slot'[d] = slot[d]
    BY <1>2 DEF But
  <1>4. s \in Slot /\ s # None /\ slots[s.e] = c
    BY DEF Booked
  <1>5. s.e \in Endpoint /\ Bare(s.e) \in Bares
    BY <1>4 DEF Slot, Bares
  <1>. HIDE DEF s
  <1>6. IsRecord(counts, CountNames) /\ \A f \in CountFields : counts[f] \in Nat
    BY CountsNat DEF Booked
  <1>7. \A f : Weight(f, s) \in 0 .. 1 /\ Weight(f, None) = 0
    BY DEF Weight
  <1>8. /\ IsRecord(counts', CountNames)
        /\ \A f \in CountFields : counts'[f] = counts[f] + (-1) * Weight(f, s)
        /\ counts'.in_max = counts.in_max /\ counts'.out_max = counts.out_max
    <2>1. \A f \in CountFields : counts[f] \in Int
      BY <1>6
    <2>. QED  BY <1>1, <1>4, <1>6, <2>1, adjustIs
  <1>9. \A f \in CountFields : counts'[f] = counts[f] - Weight(f, s) + Weight(f, None)
    <2>. SUFFICES ASSUME NEW f \in CountFields
                  PROVE  counts'[f] = counts[f] - Weight(f, s) + Weight(f, None)
      OBVIOUS
    <2>1. /\ counts[f] \in Nat /\ counts'[f] = counts[f] + (-1) * Weight(f, s)
          /\ Weight(f, s) \in 0 .. 1 /\ Weight(f, None) = 0
      BY <1>6, <1>7, <1>8
    <2>. QED  BY <2>1
  <1>10. \A f \in CountFields : counts'[f] = Cardinality(Counted(slot', f))
    BY <1>1, <1>9, CountsStep DEF s
  <1>11. /\ IsRecord(connected_addresses', Bares)
         /\ connected_addresses'[Bare(s.e)] = connected_addresses[Bare(s.e)] - 1
         /\ \A b \in Bares \ {Bare(s.e)} : connected_addresses'[b] = connected_addresses[b]
    BY <1>1, <1>5 DEF Booked, IsRecord
  <1>12. \A b \in Bares :
            connected_addresses'[b] = connected_addresses[b] - Lives(b, s) + Lives(b, None)
    <2>. SUFFICES ASSUME NEW b \in Bares
                  PROVE  connected_addresses'[b] = connected_addresses[b] - Lives(b, s) + Lives(b, None)
      OBVIOUS
    <2>1. connected_addresses[b] \in Nat /\ Lives(b, None) = 0
      BY AddressesNat DEF Lives
    <2>2. CASE b = Bare(s.e)
      <3>1. Lives(b, s) = 1
        BY <1>4, <2>2 DEF Lives
      <3>. QED  BY <1>11, <2>1, <2>2, <3>1
    <2>3. CASE b # Bare(s.e)
      <3>1. Lives(b, s) = 0
        BY <2>3 DEF Lives
      <3>. QED  BY <1>11, <2>1, <2>3, <3>1
    <2>. QED  BY <2>2, <2>3
  <1>13. \A b \in Bares : connected_addresses'[b] = Cardinality(Hosted(slot', b))
    BY <1>1, <1>12, AddressesStep DEF s
  <1>14. IsFiniteSet(Tabled(slot'))
    BY <1>2, TabledChange DEF Booked
  <1>15. /\ IsRecord(slots', Endpoint) /\ slots'[s.e] = None
         /\ \A e \in Endpoint \ {s.e} : slots'[e] = slots[e]
    BY <1>1, <1>5 DEF Booked, IsRecord
  <1>16. \A d \in Conn : slot'[d] # None => slot'[d] \in Slot /\ slots'[slot'[d].e] = d
    <2>. SUFFICES ASSUME NEW d \in Conn, slot'[d] # None
                  PROVE  slot'[d] \in Slot /\ slots'[slot'[d].e] = d
      OBVIOUS
    <2>1. d # c /\ slot'[d] = slot[d]
      BY <1>2, <1>3
    <2>2. slot[d] \in Slot /\ slots[slot[d].e] = d
      BY <2>1 DEF Booked
    <2>3. slot[d].e \in Endpoint /\ slot[d].e # s.e
      BY <1>4, <2>1, <2>2 DEF Slot
    <2>. QED  BY <1>15, <2>1, <2>2, <2>3
  <1>17. \A e \in Endpoint : slots'[e] # None =>
            slots'[e] \in Conn /\ slot'[slots'[e]] # None /\ slot'[slots'[e]].e = e
    <2>. SUFFICES ASSUME NEW e \in Endpoint, slots'[e] # None
                  PROVE  slots'[e] \in Conn /\ slot'[slots'[e]] # None /\ slot'[slots'[e]].e = e
      OBVIOUS
    <2>1. e # s.e /\ slots'[e] = slots[e]
      BY <1>15
    <2>2. slots[e] \in Conn /\ slot[slots[e]] # None /\ slot[slots[e]].e = e
      BY <2>1 DEF Booked
    <2>3. slots[e] # c
      BY <2>1, <2>2 DEF s
    <2>. QED  BY <1>3, <2>1, <2>2, <2>3
  <1>18. \A g, d \in Conn : slot[d] # None /\ slot[g] # None /\ slot[d].key = slot[g].key =>
            d = g \/ slot[d].key = None
    BY DEF Booked
  <1>19. \A k \in Key : k \in keys' <=> \E d \in Conn : slot'[d] # None /\ slot'[d].key = k
    <2>. SUFFICES ASSUME NEW k \in Key
                  PROVE  k \in keys' <=> \E d \in Conn : slot'[d] # None /\ slot'[d].key = k
      OBVIOUS
    <2>1. k # None /\ (k \in keys <=> \E d \in Conn : slot[d] # None /\ slot[d].key = k)
      BY OverlayAssumption DEF Booked
    <2>2. CASE k = s.key
      <3>1. \A d \in Conn : slot'[d] # None => slot'[d].key # k
        BY <1>2, <1>3, <1>4, <1>18, <2>1, <2>2 DEF s
      <3>. QED  BY <1>1, <2>2, <3>1
    <2>3. CASE k # s.key
      <3>1. k \in keys' <=> k \in keys
        BY <1>1, <2>3
      <3>2. (\E d \in Conn : slot[d] # None /\ slot[d].key = k) =>
               \E d \in Conn : slot'[d] # None /\ slot'[d].key = k
        BY <1>3, <2>3 DEF s
      <3>3. (\E d \in Conn : slot'[d] # None /\ slot'[d].key = k) =>
               \E d \in Conn : slot[d] # None /\ slot[d].key = k
        BY <1>2, <1>3
      <3>. QED  BY <2>1, <3>1, <3>2, <3>3
    <2>. QED  BY <2>2, <2>3
  <1>20. \A d, g \in Conn : slot'[d] # None /\ slot'[g] # None /\ slot'[d].key = slot'[g].key =>
            d = g \/ slot'[d].key = None
    BY <1>2, <1>3, <1>18
  <1>21. Booked'
    BY <1>8, <1>10, <1>11, <1>13, <1>14, <1>15, <1>16, <1>17, <1>19, <1>20 DEF Booked
  <1>22. /\ counts.in_active \in Nat /\ counts.out_active \in Nat
         /\ counts'.in_active = counts.in_active - Weight("in_active", s) + Weight("in_active", None)
         /\ counts'.out_active = counts.out_active - Weight("out_active", s) + Weight("out_active", None)
    <2>1. "in_active" \in CountFields /\ "out_active" \in CountFields
      BY DEF CountFields
    <2>. QED  BY <1>6, <1>9, <2>1
  <1>23. /\ counts.in_max \in Nat /\ counts.out_max \in Nat
         /\ counts.in_active <= counts.in_max /\ counts.out_active <= counts.out_max
    BY DEF Limits
  <1>24. counts'.in_active <= counts.in_max /\ counts'.out_active <= counts.out_max
    BY <1>7, <1>22, <1>23
  <1>25. Limits'
    BY <1>8, <1>24 DEF Limits
  <1>. QED  BY <1>2, <1>21, <1>25

-----------------------------------------------------------------------------
(* The steps, and the slots *)

LEMMA ConnSet ==
    ASSUME Inv, NEW c \in Conn, NEW r, conn' = [conn EXCEPT ![c] = r]
    PROVE  conn'[c] = r /\ \A d \in Conn \ {c} : conn'[d] = conn[d]
  BY DEF Inv, Types, IsRecord

LEMMA ConnFieldsOf ==
    ASSUME Inv, NEW c \in Conn PROVE IsRecord(conn[c], ConnFields)
  BY DEF Inv, Sound

LEMMA OthersPlaced ==
    ASSUME SlotInv, NEW c \in Conn, Placed(c)',
           \A d \in Conn \ {c} : conn'[d] = conn[d] /\ slot'[d] = slot[d]
    PROVE  \A d \in Conn : Placed(d)'
  <1>. SUFFICES ASSUME NEW d \in Conn, d # c PROVE Placed(d)'
    OBVIOUS
  <1>1. Placed(d) /\ conn'[d] = conn[d] /\ slot'[d] = slot[d]
    BY DEF SlotInv
  <1>. QED  BY <1>1 DEF Placed, HasKey, Keyless

\* A connection moves on and the finder is not called.
LEMMA StageSlots ==
    ASSUME Inv, SlotInv, Same, setup' = setup, toConnect' \subseteq Endpoint,
           bootcache' \subseteq Endpoint, NEW c \in Conn, NEW r, conn' = [conn EXCEPT ![c] = r],
           \/ r.attempt = conn[c].attempt \/ r.attempt \in {"moved", "reported", "gone"}
           \/ r.attempt = "closed" /\ Trying(c),
           \/ r.peer = conn[c].peer \/ r.peer \in {"reported", "removed", "gone"}
           \/ r.peer \in {"posted", "up", "deactivated"} /\ HasKey(c)
    PROVE  SlotInv'
  <1>1. conn'[c] = r /\ \A d \in Conn \ {c} : conn'[d] = conn[d]
    BY ConnSet
  <1>2. slot'[c] = slot[c] /\ \A d \in Conn \ {c} : slot'[d] = slot[d]
    BY DEF Same
  <1>3. HasKey(c)' => HasKey(c)
    BY <1>1 DEF HasKey
  <1>4. Keyless(c)' => Keyless(c)
    BY <1>1 DEF Keyless, Trying
  <1>5. conn'[c].attempt = "none" /\ conn'[c].peer = "none" =>
           conn[c].attempt = "none" /\ conn[c].peer = "none"
    BY <1>1
  <1>6. Placed(c)
    BY DEF SlotInv
  <1>7. Placed(c)'
    BY <1>2, <1>3, <1>4, <1>5, <1>6 DEF Placed
  <1>8. \A d \in Conn : Placed(d)'
    BY <1>1, <1>2, <1>7, OthersPlaced
  <1>9. Booked' /\ Limits'
    BY SameBooked DEF SlotInv, Limits, Same
  <1>. QED  BY <1>8, <1>9 DEF SlotInv

LEMMA ElsewhereSlots ==
    ASSUME SlotInv, Same, setup' = setup, toConnect' \subseteq Endpoint,
           bootcache' \subseteq Endpoint, conn' = conn
    PROVE  SlotInv'
  <1>1. \A d \in Conn : Placed(d)'
    BY DEF SlotInv, Same, Placed, HasKey, Keyless
  <1>2. Booked' /\ Limits'
    BY SameBooked DEF SlotInv, Limits, Same
  <1>. QED  BY <1>1, <1>2 DEF SlotInv

\* A slot is made for a connection.
LEMMA ListSlots ==
    ASSUME Inv, SlotInv, setup' = setup, toConnect' \subseteq Endpoint, NEW c \in Conn,
           NEW e \in Endpoint, NEW inbound \in BOOLEAN, List(c, NewSlot(e, inbound)),
           conn[c].attempt = "none", conn[c].peer = "none", slots[e] = None,
           NEW r, conn' = [conn EXCEPT ![c] = r],
           r.attempt \in {"none", "connecting"}, r.peer \in {"none", "handoff"},
           r.attempt = "none" <=> r.peer = "handoff"
    PROVE  SlotInv'
  <1>. DEFINE s == NewSlot(e, inbound)
  <1>1. conn'[c] = r /\ \A d \in Conn \ {c} : conn'[d] = conn[d]
    BY ConnSet
  <1>2. /\ s \in Slot /\ s.e = e /\ s.key = None /\ s.cluster = FALSE
        /\ s.state \in {"accept", "connect"}
    BY DEF NewSlot, Slot
  <1>. HIDE DEF s
  <1>3. slot[c] = None /\ Booked
    BY DEF SlotInv, Placed
  <1>4. /\ Booked' /\ slot'[c] = s
        /\ counts'.in_max = counts.in_max /\ counts'.out_max = counts.out_max
        /\ \A f \in CountFields : counts'[f] = counts[f] + Weight(f, s)
    BY <1>2, <1>3, ListBooked DEF s
  <1>5. \A d \in Conn \ {c} : slot'[d] = slot[d]
    BY DEF List, Inv, Types, IsRecord
  <1>6. s # None
    BY <1>2, OverlayAssumption
  <1>7. Placed(c)'
    BY <1>1, <1>2, <1>4, <1>6 DEF Placed, HasKey, Keyless
  <1>8. \A d \in Conn : Placed(d)'
    BY <1>1, <1>5, <1>7, OthersPlaced
  <1>9. "in_active" \in CountFields /\ "out_active" \in CountFields
    BY DEF CountFields
  <1>10. Weight("in_active", s) = 0 /\ Weight("out_active", s) = 0
    BY <1>2 DEF Weight, Flag
  <1>11. counts.in_active \in Nat /\ counts.out_active \in Nat
    BY <1>3, <1>9, CountsNat
  <1>12. counts'.in_active = counts.in_active /\ counts'.out_active = counts.out_active
    BY <1>4, <1>9, <1>10, <1>11
  <1>13. Limits'
    BY <1>4, <1>12 DEF SlotInv, Limits
  <1>14. bootcache' = bootcache
    BY DEF List
  <1>. QED  BY <1>4, <1>8, <1>13, <1>14 DEF SlotInv

\* activate, for a connection that has no key yet.
LEMMA ActivateSlots ==
    ASSUME Inv, SlotInv, setup' = setup, toConnect' = toConnect, NEW c \in Conn, Keyless(c),
           NEW k \in Key, Activatable(c, k), activate(c, k, k \in setup.cluster),
           NEW r, conn' = [conn EXCEPT ![c] = r],
           \/ r.attempt = "activated" /\ r.peer = "none"
           \/ r.attempt = "none" /\ r.peer = "activated"
    PROVE  SlotInv'
  <1>1. conn'[c] = r /\ \A d \in Conn \ {c} : conn'[d] = conn[d]
    BY ConnSet
  <1>2. Booked /\ Limits /\ slot[c] # None /\ ~slot[c].cluster /\ slot[c] \in Slot
    BY DEF SlotInv, Placed, Booked
  <1>3. slot[c].key = None
    BY DEF Inv, Sound
  <1>4. (k \in setup.cluster) \in BOOLEAN
    OBVIOUS
  <1>5. Booked' /\ Limits' /\ slot'[c] # None
    BY <1>2, <1>3, <1>4, activateBooked
  <1>6. \A d \in Conn \ {c} : slot'[d] = slot[d]
    BY DEF activate, Inv, Types, IsRecord
  <1>7. Placed(c)'
    BY <1>1, <1>5 DEF Placed, Keyless
  <1>8. \A d \in Conn : Placed(d)'
    BY <1>1, <1>6, <1>7, OthersPlaced
  <1>9. bootcache' \subseteq Endpoint
    <2>1. bootcache' = bootcache \/ bootcache' = bootcache \cup {slot[c].e}
      <3>. DEFINE g == k \in setup.cluster
                 keyed == [slot[c] EXCEPT !.key = k, !.cluster = g]
                 s == [keyed EXCEPT !.state = "active"]
      <3>1. keyed.e = slot[c].e /\ IsRecord(keyed, SlotFields)
        <4>1. IsRecord(slot[c], SlotFields)
          BY DEF Inv, Sound
        <4>. HIDE DEF g
        <4>. QED  BY <4>1 DEF IsRecord, SlotFields
      <3>2. s.e = keyed.e
        <4>. HIDE DEF keyed
        <4>. QED  BY <3>1 DEF IsRecord, SlotFields
      <3>3. bootcache' = IF s.inbound THEN bootcache ELSE bootcache \cup {s.e}
        BY DEF activate
      <3>. HIDE DEF s, keyed
      <3>. QED  BY <3>1, <3>2, <3>3
    <2>2. slot[c].e \in Endpoint
      BY <1>2 DEF Slot
    <2>. QED  BY <2>1, <2>2 DEF SlotInv
  <1>. QED  BY <1>5, <1>8, <1>9 DEF SlotInv

\* on_closed, for a connection that is over.
LEMMA ClosedSlots ==
    ASSUME Inv, SlotInv, setup' = setup, toConnect' = toConnect, NEW c \in Conn,
           slot[c] # None, on_closed(c), NEW r, conn' = [conn EXCEPT ![c] = r],
           r.attempt \notin {"connecting", "connected", "activated", "closed"},
           r.peer \in {"none", "reported"}
    PROVE  SlotInv'
  <1>1. conn'[c] = r /\ \A d \in Conn \ {c} : conn'[d] = conn[d]
    BY ConnSet
  <1>2. Booked /\ Limits
    BY DEF SlotInv
  <1>3. Booked' /\ Limits' /\ slot'[c] = None
    BY <1>2, on_closedBooked
  <1>4. \A d \in Conn \ {c} : slot'[d] = slot[d]
    BY DEF on_closed, Inv, Types, IsRecord
  <1>5. Placed(c)'
    BY <1>1, <1>3 DEF Placed, HasKey, Keyless
  <1>6. \A d \in Conn : Placed(d)'
    BY <1>1, <1>4, <1>5, OthersPlaced
  <1>7. slot[c].e \in Endpoint
    BY <1>2 DEF Booked, Slot
  <1>8. bootcache' \subseteq Endpoint
    BY <1>7 DEF on_closed, SlotInv
  <1>. QED  BY <1>3, <1>6, <1>8 DEF SlotInv

LEMMA HandoffSlots ==
    ASSUME Inv, SlotInv, NEW c \in Conn, NEW e \in setup.inEndpoints, onHandoff(c, e)
    PROVE  SlotInv'
  <1>0. conn[c].attempt = "none" /\ conn[c].peer = "none" /\ IsRecord(conn[c], ConnFields)
    BY ConnFieldsOf DEF onHandoff, NextOf, Free
  <1>1. setup' = setup /\ toConnect' = toConnect /\ e \in Endpoint /\ slots[e] = None
    BY OverlayAssumption DEF onHandoff, Inv, Types
  <1>2. CASE UNCHANGED finder /\ conn' = [conn EXCEPT ![c] = [conn[c] EXCEPT !.peer = "gone"]]
    <2>. DEFINE r == [conn[c] EXCEPT !.peer = "gone"]
    <2>1. r.attempt = conn[c].attempt /\ r.peer = "gone"
      BY <1>0 DEF IsRecord, ConnFields
    <2>2. Same /\ bootcache' = bootcache
      BY <1>2 DEF finder, Same
    <2>. HIDE DEF r
    <2>3. conn' = [conn EXCEPT ![c] = r]
      BY <1>2 DEF r
    <2>. QED  BY <1>1, <2>1, <2>2, <2>3, StageSlots DEF SlotInv
  <1>3. ASSUME NEW k, new_inbound_slot(c, e),
               conn' = [conn EXCEPT ![c] = [conn[c] EXCEPT !.peer = "handoff", !.open = TRUE,
                                                           !.e = e, !.usage = k]]
        PROVE  SlotInv'
    <2>. DEFINE r == [conn[c] EXCEPT !.peer = "handoff", !.open = TRUE, !.e = e, !.usage = k]
    <2>1. r.attempt = "none" /\ r.peer = "handoff"
      BY <1>0 DEF IsRecord, ConnFields
    <2>2. List(c, NewSlot(e, TRUE)) /\ conn' = [conn EXCEPT ![c] = r]
      BY <1>3 DEF new_inbound_slot
    <2>. HIDE DEF r
    <2>. QED  BY <1>0, <1>1, <2>1, <2>2, ListSlots DEF SlotInv
  <1>. QED  BY <1>2, <1>3 DEF onHandoff, Set

LEMMA connectSlots ==
    ASSUME Inv, SlotInv, NEW c \in Conn, NEW e, connect(c, e)
    PROVE  SlotInv'
  <1>0. conn[c].attempt = "none" /\ conn[c].peer = "none" /\ IsRecord(conn[c], ConnFields)
    BY ConnFieldsOf DEF connect, NextOf, Free
  <1>1. setup' = setup /\ toConnect' \subseteq Endpoint /\ e \in Endpoint
    BY DEF connect, SlotInv
  <1>2. CASE UNCHANGED finder /\ conn' = conn
    BY <1>1, <1>2, ElsewhereSlots DEF finder, Same, SlotInv
  <1>3. ASSUME NEW k, ~OutboundDuplicate(e), new_outbound_slot(c, e),
               conn' = [conn EXCEPT ![c] = [conn[c] EXCEPT !.attempt = "connecting", !.open = TRUE,
                                                           !.e = e, !.usage = k]]
        PROVE  SlotInv'
    <2>. DEFINE r == [conn[c] EXCEPT !.attempt = "connecting", !.open = TRUE, !.e = e, !.usage = k]
    <2>1. r.attempt = "connecting" /\ r.peer = "none"
      BY <1>0 DEF IsRecord, ConnFields
    <2>2. List(c, NewSlot(e, FALSE)) /\ conn' = [conn EXCEPT ![c] = r] /\ slots[e] = None
      BY <1>3 DEF new_outbound_slot, OutboundDuplicate
    <2>. HIDE DEF r
    <2>. QED  BY <1>0, <1>1, <2>1, <2>2, ListSlots
  <1>. QED  BY <1>2, <1>3 DEF connect, Set

LEMMA handoffActivateSlots ==
    ASSUME Inv, SlotInv, NEW c \in Conn, NEW k \in Key, handoffActivate(c, k)
    PROVE  SlotInv'
  <1>0. conn[c].attempt = "none" /\ conn[c].peer = "handoff" /\ IsRecord(conn[c], ConnFields)
    BY ConnFieldsOf DEF handoffActivate, Inv, Sound
  <1>1. setup' = setup /\ toConnect' = toConnect /\ Keyless(c) /\ toConnect' \subseteq Endpoint
    BY <1>0 DEF handoffActivate, Keyless, SlotInv
  <1>2. CASE Activatable(c, k)
    <2>. DEFINE r == [conn[c] EXCEPT !.peer = "activated", !.key = k]
    <2>1. r.attempt = "none" /\ r.peer = "activated"
      BY <1>0 DEF IsRecord, ConnFields
    <2>2. activate(c, k, k \in setup.cluster) /\ conn' = [conn EXCEPT ![c] = r]
      BY <1>2 DEF handoffActivate, Set
    <2>. HIDE DEF r
    <2>. QED  BY <1>1, <1>2, <2>1, <2>2, ActivateSlots
  <1>3. CASE ~Activatable(c, k)
    <2>. DEFINE r == [conn[c] EXCEPT !.peer = "gone", !.open = FALSE]
    <2>1. r.attempt = conn[c].attempt /\ r.peer = "gone"
      BY <1>0 DEF IsRecord, ConnFields
    <2>2. notActivated(c, k) /\ conn' = [conn EXCEPT ![c] = r]
      BY <1>3 DEF handoffActivate, Set
    <2>3. slot[c].e \in Endpoint
      BY <1>1 DEF SlotInv, Placed, Booked, Slot
    <2>4. Same /\ bootcache' \subseteq Endpoint
      BY <2>2, <2>3 DEF notActivated, Same, SlotInv
    <2>. HIDE DEF r
    <2>. QED  BY <1>1, <2>1, <2>2, <2>4, StageSlots
  <1>. QED  BY <1>2, <1>3

LEMMA processResponseSlots ==
    ASSUME Inv, SlotInv, NEW c \in Conn, NEW k \in Key, processResponse(c, k)
    PROVE  SlotInv'
  <1>0. conn[c].attempt = "connected" /\ conn[c].peer = "none" /\ IsRecord(conn[c], ConnFields)
    BY ConnFieldsOf DEF processResponse, Inv, Sound
  <1>1. setup' = setup /\ toConnect' = toConnect /\ Keyless(c) /\ toConnect' \subseteq Endpoint
    BY <1>0 DEF processResponse, Keyless, SlotInv
  <1>2. CASE Activatable(c, k)
    <2>. DEFINE r == [conn[c] EXCEPT !.attempt = "activated", !.key = k]
    <2>1. r.attempt = "activated" /\ r.peer = "none"
      BY <1>0 DEF IsRecord, ConnFields
    <2>2. activate(c, k, k \in setup.cluster) /\ conn' = [conn EXCEPT ![c] = r]
      BY <1>2 DEF processResponse, Set
    <2>. HIDE DEF r
    <2>. QED  BY <1>1, <1>2, <2>1, <2>2, ActivateSlots
  <1>3. CASE ~Activatable(c, k)
    <2>. DEFINE r == [conn[c] EXCEPT !.attempt = "closed", !.open = FALSE]
    <2>1. r.attempt = "closed" /\ r.peer = conn[c].peer /\ Trying(c)
      BY <1>0 DEF IsRecord, ConnFields, Trying
    <2>2. notActivated(c, k) /\ conn' = [conn EXCEPT ![c] = r]
      BY <1>3 DEF processResponse, Set
    <2>3. slot[c].e \in Endpoint
      BY <1>1 DEF SlotInv, Placed, Booked, Slot
    <2>4. Same /\ bootcache' \subseteq Endpoint
      BY <2>2, <2>3 DEF notActivated, Same, SlotInv
    <2>. HIDE DEF r
    <2>. QED  BY <1>1, <2>1, <2>2, <2>4, StageSlots
  <1>. QED  BY <1>2, <1>3

LEMMA onHandshakeSlots ==
    ASSUME Inv, SlotInv, NEW c \in Conn, NEW local, onHandshake(c, local)
    PROVE  SlotInv'
  <1>0. conn[c].attempt = "connecting" /\ conn[c].peer = "none" /\ IsRecord(conn[c], ConnFields)
    BY ConnFieldsOf DEF onHandshake, Inv, Sound
  <1>1. /\ setup' = setup /\ toConnect' = toConnect /\ Keyless(c)
        /\ toConnect \subseteq Endpoint /\ bootcache \subseteq Endpoint
    BY <1>0 DEF onHandshake, Keyless, SlotInv
  <1>2. CASE SelfConnect(local)
    <2>. DEFINE r == [conn[c] EXCEPT !.attempt = "closed", !.open = FALSE]
    <2>1. r.attempt = "closed" /\ r.peer = conn[c].peer /\ Trying(c)
      BY <1>0 DEF IsRecord, ConnFields, Trying
    <2>2. Same /\ bootcache' = bootcache /\ conn' = [conn EXCEPT ![c] = r]
      BY <1>2 DEF onHandshake, Set, finder, Same
    <2>. HIDE DEF r
    <2>. QED  BY <1>1, <2>1, <2>2, StageSlots
  <1>3. CASE ~SelfConnect(local)
    <2>. DEFINE r == [conn[c] EXCEPT !.attempt = "connected"]
    <2>1. r.attempt = "connected" /\ r.peer = "none"
      BY <1>0 DEF IsRecord, ConnFields
    <2>2. onConnected(c) /\ conn' = [conn EXCEPT ![c] = r]
      BY <1>3 DEF onHandshake, Set
    <2>. HIDE DEF r
    <2>3. Booked /\ Limits /\ slot[c] # None /\ ~slot[c].cluster
      BY <1>1 DEF SlotInv, Placed
    <2>4. /\ Booked' /\ slot'[c] # None /\ slot'[c].cluster = slot[c].cluster
          /\ counts'.in_max = counts.in_max /\ counts'.out_max = counts.out_max
          /\ counts'.in_active <= counts.in_active /\ counts'.out_active <= counts.out_active
      BY <2>2, <2>3, onConnectedBooked
    <2>5. conn'[c] = r /\ \A d \in Conn \ {c} : conn'[d] = conn[d]
      BY <2>2, ConnSet
    <2>6. \A d \in Conn \ {c} : slot'[d] = slot[d]
      BY <2>2 DEF onConnected, Inv, Types, IsRecord
    <2>7. Placed(c)'
      BY <2>1, <2>3, <2>4, <2>5 DEF Placed
    <2>8. \A d \in Conn : Placed(d)'
      BY <2>5, <2>6, <2>7, OthersPlaced
    <2>9. counts.in_active \in Nat /\ counts.out_active \in Nat
      BY <2>3, CountsNat DEF CountFields
    <2>10. counts'.in_active \in Nat /\ counts'.out_active \in Nat
      <3>1. \A f : Counted(slot', f) \subseteq Tabled(slot')
        BY DEF Counted, Tabled
      <3>2. IsFiniteSet(Tabled(slot')) /\ \A f \in CountFields : counts'[f] = Cardinality(Counted(slot', f))
        BY <2>4 DEF Booked
      <3>3. \A f \in CountFields : counts'[f] \in Nat
        BY <3>1, <3>2, FS_Subset, FS_CardinalityType
      <3>. QED  BY <3>3 DEF CountFields
    <2>11. counts'.in_active <= counts.in_max /\ counts'.out_active <= counts.out_max
      BY <2>3, <2>4, <2>9, <2>10 DEF Limits
    <2>12. Limits'
      BY <1>1, <2>3, <2>4, <2>11 DEF Limits
    <2>13. bootcache' = bootcache
      BY <2>2 DEF onConnected
    <2>. QED  BY <1>1, <2>4, <2>8, <2>12, <2>13 DEF SlotInv
  <1>. QED  BY <1>2, <1>3

LEMMA handoffRefusedSlots ==
    ASSUME Inv, SlotInv, NEW c \in Conn, handoffRefused(c) PROVE SlotInv'
  <1>. DEFINE r == [conn[c] EXCEPT !.peer = "gone", !.open = FALSE]
  <1>0. IsRecord(conn[c], ConnFields)
    BY ConnFieldsOf
  <1>1. /\ conn' = [conn EXCEPT ![c] = r] /\ Same /\ setup' = setup
        /\ toConnect' = toConnect /\ bootcache' = bootcache
    BY DEF handoffRefused, Set, finder, Same
  <1>2. r.attempt = conn[c].attempt /\ r.peer = "gone"
    BY <1>0 DEF IsRecord, ConnFields
  <1>. HIDE DEF r
  <1>. QED  BY <1>1, <1>2, StageSlots DEF SlotInv

LEMMA handoffAddSlots ==
    ASSUME Inv, SlotInv, NEW c \in Conn, handoffAdd(c) PROVE SlotInv'
  <1>. DEFINE r == [conn[c] EXCEPT !.peer = "posted"]
  <1>0. IsRecord(conn[c], ConnFields)
    BY ConnFieldsOf
  <1>1. /\ conn' = [conn EXCEPT ![c] = r] /\ Same /\ setup' = setup
        /\ toConnect' = toConnect /\ bootcache' = bootcache
    BY DEF handoffAdd, Set, finder, Same
  <1>2. r.attempt = conn[c].attempt /\ r.peer = "posted"
    BY <1>0 DEF IsRecord, ConnFields
  <1>3. HasKey(c)
    BY DEF handoffAdd, HasKey
  <1>. HIDE DEF r
  <1>. QED  BY <1>1, <1>2, <1>3, StageSlots DEF SlotInv

LEMMA attemptFailsSlots ==
    ASSUME Inv, SlotInv, NEW c \in Conn, attemptFails(c) PROVE SlotInv'
  <1>. DEFINE r == [conn[c] EXCEPT !.attempt = "closed", !.open = FALSE]
  <1>0. IsRecord(conn[c], ConnFields)
    BY ConnFieldsOf
  <1>1. /\ conn' = [conn EXCEPT ![c] = r] /\ Same /\ setup' = setup
        /\ toConnect' = toConnect /\ bootcache' = bootcache
    BY DEF attemptFails, Set, finder, Same
  <1>2. r.attempt = "closed" /\ r.peer = conn[c].peer
    BY <1>0 DEF IsRecord, ConnFields
  <1>3. Trying(c)
    BY DEF attemptFails, Trying
  <1>. HIDE DEF r
  <1>. QED  BY <1>1, <1>2, <1>3, StageSlots DEF SlotInv

LEMMA attemptRedirectedSlots ==
    ASSUME Inv, SlotInv, NEW c \in Conn, NEW eps, eps \subseteq Endpoint, attemptRedirected(c, eps) PROVE SlotInv'
  <1>. DEFINE r == [conn[c] EXCEPT !.attempt = "closed", !.open = FALSE]
  <1>0. IsRecord(conn[c], ConnFields)
    BY ConnFieldsOf
  <1>1. /\ conn' = [conn EXCEPT ![c] = r] /\ Same /\ setup' = setup
        /\ toConnect' = toConnect /\ bootcache' = bootcache \cup eps
    BY DEF attemptRedirected, Set, finder, Same, onRedirects
  <1>2. r.attempt = "closed" /\ r.peer = conn[c].peer
    BY <1>0 DEF IsRecord, ConnFields
  <1>3. Trying(c)
    BY DEF attemptRedirected, Trying
  <1>. HIDE DEF r
  <1>. QED  BY <1>1, <1>2, <1>3, StageSlots DEF SlotInv

LEMMA add_activeSlots ==
    ASSUME Inv, SlotInv, NEW c \in Conn, NEW late, add_active(c, late) PROVE SlotInv'
  <1>. DEFINE r == [conn[c] EXCEPT !.attempt = "moved", !.peer = "posted", !.late = late]
  <1>0. IsRecord(conn[c], ConnFields)
    BY ConnFieldsOf
  <1>1. /\ conn' = [conn EXCEPT ![c] = r] /\ Same /\ setup' = setup
        /\ toConnect' = toConnect /\ bootcache' = bootcache
    BY DEF add_active, Set, finder, Same
  <1>2. r.attempt = "moved" /\ r.peer = "posted"
    BY <1>0 DEF IsRecord, ConnFields
  <1>3. HasKey(c)
    BY DEF add_active, HasKey
  <1>. HIDE DEF r
  <1>. QED  BY <1>1, <1>2, <1>3, StageSlots DEF SlotInv

LEMMA lateTimerSlots ==
    ASSUME Inv, SlotInv, NEW c \in Conn, lateTimer(c) PROVE SlotInv'
  <1>. DEFINE r == [conn[c] EXCEPT !.late = FALSE, !.open = FALSE]
  <1>0. IsRecord(conn[c], ConnFields)
    BY ConnFieldsOf
  <1>1. /\ conn' = [conn EXCEPT ![c] = r] /\ Same /\ setup' = setup
        /\ toConnect' = toConnect /\ bootcache' = bootcache
    BY DEF lateTimer, Set, finder, Same
  <1>2. r.attempt = conn[c].attempt /\ r.peer = conn[c].peer
    BY <1>0 DEF IsRecord, ConnFields
  <1>. HIDE DEF r
  <1>. QED  BY <1>1, <1>2, StageSlots DEF SlotInv

LEMMA attemptStopSlots ==
    ASSUME Inv, SlotInv, NEW c \in Conn, attemptStop(c) PROVE SlotInv'
  <1>. DEFINE r == [conn[c] EXCEPT !.open = FALSE, !.attempt = IF Trying(c) THEN "closed" ELSE @]
  <1>0. IsRecord(conn[c], ConnFields)
    BY ConnFieldsOf
  <1>1. /\ conn' = [conn EXCEPT ![c] = r] /\ Same /\ setup' = setup
        /\ toConnect' = toConnect /\ bootcache' = bootcache
    BY DEF attemptStop, Set, finder, Same
  <1>2. /\ r.attempt = conn[c].attempt \/ (r.attempt = "closed" /\ Trying(c))
        /\ r.peer = conn[c].peer
    BY <1>0 DEF IsRecord, ConnFields
  <1>. HIDE DEF r
  <1>. QED  BY <1>1, <1>2, StageSlots DEF SlotInv

LEMMA attemptRemoveSlots ==
    ASSUME Inv, SlotInv, NEW c \in Conn, attemptRemove(c) PROVE SlotInv'
  <1>. DEFINE r == [conn[c] EXCEPT !.attempt = "gone"]
  <1>0. IsRecord(conn[c], ConnFields)
    BY ConnFieldsOf
  <1>1. /\ conn' = [conn EXCEPT ![c] = r] /\ Same /\ setup' = setup
        /\ toConnect' = toConnect /\ bootcache' = bootcache
    BY DEF attemptRemove, Set, finder, Same
  <1>2. r.attempt = "gone" /\ r.peer = conn[c].peer
    BY <1>0 DEF IsRecord, ConnFields
  <1>. HIDE DEF r
  <1>. QED  BY <1>1, <1>2, StageSlots DEF SlotInv

LEMMA runSlots ==
    ASSUME Inv, SlotInv, NEW c \in Conn, run(c) PROVE SlotInv'
  <1>. DEFINE r == [conn[c] EXCEPT !.peer = "up"]
  <1>0. IsRecord(conn[c], ConnFields)
    BY ConnFieldsOf
  <1>1. /\ conn' = [conn EXCEPT ![c] = r] /\ Same /\ setup' = setup
        /\ toConnect' = toConnect /\ bootcache' = bootcache
    BY DEF run, Set, finder, Same
  <1>2. r.attempt = conn[c].attempt /\ r.peer = "up"
    BY <1>0 DEF IsRecord, ConnFields
  <1>3. HasKey(c)
    BY DEF run, HasKey
  <1>. HIDE DEF r
  <1>. QED  BY <1>1, <1>2, <1>3, StageSlots DEF SlotInv

LEMMA closeSlots ==
    ASSUME Inv, SlotInv, NEW c \in Conn, close(c) PROVE SlotInv'
  <1>. DEFINE r == [conn[c] EXCEPT !.open = FALSE]
  <1>0. IsRecord(conn[c], ConnFields)
    BY ConnFieldsOf
  <1>1. /\ conn' = [conn EXCEPT ![c] = r] /\ Same /\ setup' = setup
        /\ toConnect' = toConnect /\ bootcache' = bootcache
    BY DEF close, Set, finder, Same
  <1>2. r.attempt = conn[c].attempt /\ r.peer = conn[c].peer
    BY <1>0 DEF IsRecord, ConnFields
  <1>. HIDE DEF r
  <1>. QED  BY <1>1, <1>2, StageSlots DEF SlotInv

LEMMA peerStopSlots ==
    ASSUME Inv, SlotInv, NEW c \in Conn, peerStop(c) PROVE SlotInv'
  <1>. DEFINE r == [conn[c] EXCEPT !.open = FALSE]
  <1>0. IsRecord(conn[c], ConnFields)
    BY ConnFieldsOf
  <1>1. /\ conn' = [conn EXCEPT ![c] = r] /\ Same /\ setup' = setup
        /\ toConnect' = toConnect /\ bootcache' = bootcache
    BY DEF peerStop, Set, finder, Same
  <1>2. r.attempt = conn[c].attempt /\ r.peer = conn[c].peer
    BY <1>0 DEF IsRecord, ConnFields
  <1>. HIDE DEF r
  <1>. QED  BY <1>1, <1>2, StageSlots DEF SlotInv

LEMMA chargePeerSlots ==
    ASSUME Inv, SlotInv, NEW c \in Conn, NEW onStrand, chargePeer(c, onStrand) PROVE SlotInv'
  <1>0. IsRecord(conn[c], ConnFields)
    BY ConnFieldsOf
  <1>1. /\ Same /\ setup' = setup /\ toConnect' = toConnect /\ bootcache' = bootcache
    BY DEF chargePeer, finder, Same
  <1>2. PICK b : conn' = [conn EXCEPT ![c] = [conn[c] EXCEPT !.open = b]]
    BY DEF chargePeer, Set
  <1>. DEFINE r == [conn[c] EXCEPT !.open = b]
  <1>3. r.attempt = conn[c].attempt /\ r.peer = conn[c].peer
    BY <1>0 DEF IsRecord, ConnFields
  <1>4. conn' = [conn EXCEPT ![c] = r]
    BY <1>2
  <1>. HIDE DEF r
  <1>. QED  BY <1>1, <1>3, <1>4, StageSlots DEF SlotInv

LEMMA attemptOnClosedSlots ==
    ASSUME Inv, SlotInv, NEW c \in Conn, attemptOnClosed(c) PROVE SlotInv'
  <1>. DEFINE r == [conn[c] EXCEPT !.attempt = "reported"]
  <1>0. IsRecord(conn[c], ConnFields) /\ conn[c].attempt = "closed" /\ conn[c].peer = "none"
    BY ConnFieldsOf DEF attemptOnClosed, Inv, Sound
  <1>1. /\ conn' = [conn EXCEPT ![c] = r] /\ on_closed(c) /\ setup' = setup
        /\ toConnect' = toConnect
    BY DEF attemptOnClosed, Set
  <1>2. r.attempt = "reported" /\ r.peer = "none"
    BY <1>0 DEF IsRecord, ConnFields
  <1>3. slot[c] # None
    BY <1>0 DEF SlotInv, Placed, Keyless
  <1>. HIDE DEF r
  <1>. QED  BY <1>1, <1>2, <1>3, ClosedSlots

LEMMA destroySlots ==
    ASSUME Inv, SlotInv, NEW c \in Conn, destroy(c) PROVE SlotInv'
  <1>0. IsRecord(conn[c], ConnFields)
    BY ConnFieldsOf
  <1>1. setup' = setup /\ toConnect' = toConnect
    BY DEF destroy
  <1>2. ASSUME NEW p \in {"deactivated", "removed", "gone"}, UNCHANGED finder,
               p = "deactivated" => conn[c].peer = "up",
               conn' = [conn EXCEPT ![c] = [conn[c] EXCEPT !.peer = p]]
        PROVE  SlotInv'
    <2>. DEFINE r == [conn[c] EXCEPT !.peer = p]
    <2>1. r.attempt = conn[c].attempt /\ r.peer = p
      BY <1>0 DEF IsRecord, ConnFields
    <2>2. Same /\ bootcache' = bootcache /\ conn' = [conn EXCEPT ![c] = r]
      BY <1>2 DEF finder, Same
    <2>3. p = "deactivated" => HasKey(c)
      BY <1>2 DEF HasKey
    <2>. HIDE DEF r
    <2>4. r.peer \in {"reported", "removed", "gone"} \/ (r.peer = "deactivated" /\ HasKey(c))
      BY <1>2, <2>1, <2>3
    <2>. QED  BY <1>1, <2>1, <2>2, <2>4, StageSlots DEF SlotInv
  <1>3. ASSUME conn[c].peer = "deactivated", on_closed(c),
               conn' = [conn EXCEPT ![c] = [conn[c] EXCEPT !.peer = "reported"]]
        PROVE  SlotInv'
    <2>. DEFINE r == [conn[c] EXCEPT !.peer = "reported"]
    <2>1. r.attempt = conn[c].attempt /\ r.peer = "reported"
      BY <1>0 DEF IsRecord, ConnFields
    <2>2. slot[c] # None
      BY <1>3 DEF SlotInv, Placed, HasKey
    <2>3. conn[c].attempt \notin {"connecting", "connected", "activated", "closed"}
      BY <1>3 DEF Inv, Sound
    <2>. HIDE DEF r
    <2>4. conn' = [conn EXCEPT ![c] = r]
      BY <1>3 DEF r
    <2>. QED  BY <1>1, <1>3, <2>1, <2>2, <2>3, <2>4, ClosedSlots
  <1>. QED
    <2>1. CASE Over(c) /\ UNCHANGED finder /\ Set(c, [conn[c] EXCEPT !.peer = "deactivated"])
      BY <1>2, <2>1 DEF Over, Set
    <2>2. CASE /\ conn[c].peer = "deactivated" /\ on_closed(c)
               /\ Set(c, [conn[c] EXCEPT !.peer = "reported"])
      BY <1>3, <2>2 DEF Set
    <2>3. CASE UNCHANGED finder /\ Set(c, [conn[c] EXCEPT !.peer = "removed"])
      BY <1>2, <2>3 DEF Set
    <2>4. CASE UNCHANGED finder /\ Set(c, [conn[c] EXCEPT !.peer = "gone"])
      BY <1>2, <2>4 DEF Set
    <2>. QED  BY <2>1, <2>2, <2>3, <2>4 DEF destroy

\* autoconnect hands out endpoints it knows.
LEMMA AutoConnectsKnown ==
    ASSUME SlotInv, NEW auto, NEW live, live \subseteq Endpoint, NEW result \in AutoConnects(auto, live)
    PROVE  result \subseteq Endpoint
  <1>1. \A S, n : \A T \in AtMost(S, n) : T \subseteq S
    BY DEF AtMost
  <1>2. \A S, n, q : \A T \in Handouts(S, n, q) : T \subseteq S
    BY DEF Handouts
  <1>3. \A q : get_fixed(q) \subseteq Endpoint
    BY DEF get_fixed, FixedEndpoints
  <1>4. bootcache \subseteq Endpoint
    BY DEF SlotInv
  <1>. DEFINE squelched == m_squelches \cup Listed(slots)
  <1>5. \/ result = {}
        \/ result \in AtMost(get_fixed(squelched), attempts_needed)
        \/ result \in Handouts(live, attempts_needed, squelched)
        \/ result \in Handouts(bootcache, attempts_needed, squelched)
    BY DEF AutoConnects
  <1>. HIDE DEF squelched
  <1>. QED  BY <1>1, <1>2, <1>3, <1>4, <1>5

\* Timers, stops, the resolver, cluster gossip and the resource manager.
LEMMA OutsideSlots ==
    ASSUME Inv, SlotInv,
           \/ Ticks \/ Stops \/ requestStop
           \/ \E e \in setup.fixed : resolved(e) \/ backoffEnds(e)
           \/ \E c \in Conn, o \in Origin, gossip \in setup.gossip : onCluster(c, o, gossip)
           \/ \E entries \in SUBSET Inactive, origins \in SUBSET Imported : groom(entries, origins)
           \/ \E k \in EntryKey : cool(k)
    PROVE  SlotInv'
  <1>0. toConnect \subseteq Endpoint /\ bootcache \subseteq Endpoint
    BY DEF SlotInv
  <1>1. CASE Ticks
    <2>0. PICK live \in {{}, setup.live} :
             \E result \in AutoConnects(setup.autoConnect, live) : on_timer(result)
      BY <1>1 DEF Ticks
    <2>1. PICK result \in AutoConnects(setup.autoConnect, live) : on_timer(result)
      BY <2>0
    <2>2. live \subseteq Endpoint
      BY OverlayAssumption DEF Inv, Types
    <2>3. result \subseteq Endpoint
      BY <2>2, AutoConnectsKnown
    <2>4. /\ Same /\ setup' = setup /\ toConnect' = result /\ bootcache' = bootcache /\ conn' = conn
      BY <2>1 DEF on_timer, autoconnect, Same
    <2>. QED  BY <1>0, <2>3, <2>4, ElsewhereSlots
  <1>2. ASSUME UNCHANGED <<finder, conn, toConnect, setup>> PROVE SlotInv'
    BY <1>0, <1>2, ElsewhereSlots DEF finder, Same
  <1>3. CASE Stops \/ requestStop
    BY <1>2, <1>3 DEF Stops, stop, timerStops, onChildrenStopped, requestStop
  <1>4. CASE \E e \in setup.fixed : resolved(e) \/ backoffEnds(e)
    <2>1. Same /\ UNCHANGED <<conn, toConnect, setup, bootcache>>
      BY <1>4 DEF resolved, backoffEnds, addFixedPeer, backedOff, overlay, Same
    <2>. QED  BY <1>0, <2>1, ElsewhereSlots
  <1>5. CASE \E c \in Conn, o \in Origin, gossip \in setup.gossip : onCluster(c, o, gossip)
    BY <1>2, <1>5 DEF onCluster, overlay
  <1>6. CASE \E entries \in SUBSET Inactive, origins \in SUBSET Imported :
                groom(entries, origins)
    BY <1>2, <1>6 DEF groom, overlay
  <1>7. CASE \E k \in EntryKey : cool(k)
    BY <1>2, <1>7 DEF cool, overlay
  <1>. QED  BY <1>1, <1>3, <1>4, <1>5, <1>6, <1>7

LEMMA InitSlots == Init => SlotInv
  <1>. SUFFICES ASSUME Init PROVE SlotInv
    OBVIOUS
  <1>1. \A c \in Conn : slot[c] = None
    BY DEF Init
  <1>2. /\ Tabled(slot) = {} /\ \A f : Counted(slot, f) = {} /\ \A b : Hosted(slot, b) = {}
    BY <1>1 DEF Tabled, Counted, Hosted
  <1>3. IsFiniteSet({}) /\ Cardinality({}) = 0
    BY FS_EmptySet
  <1>4. /\ setup \in Setups /\ setup.maxPeers \in Nat /\ setup.outPeers \in Nat
        /\ setup.boot \subseteq Endpoint
    BY OverlayAssumption DEF Init
  <1>. DEFINE out == IF setup.wantIncoming
                     THEN setup.outPeers + (IF setup.roundUp THEN 1 ELSE 0) ELSE setup.maxPeers
             ins == IF setup.maxPeers >= out THEN setup.maxPeers - out ELSE 0
  <1>5. counts = [ZeroCounts EXCEPT !.out_max = out, !.in_max = ins]
    BY DEF Init, onConfig
  <1>6. out \in Nat /\ ins \in Nat /\ (setup.outPeers < setup.maxPeers => ins + out = setup.maxPeers)
    <2>1. out \in Nat /\ (setup.outPeers < setup.maxPeers => out <= setup.maxPeers)
      BY <1>4
    <2>. HIDE DEF out
    <2>. QED  BY <1>4, <2>1
  <1>. HIDE DEF out, ins
  <1>7. /\ IsRecord(counts, CountNames) /\ counts.in_max = ins /\ counts.out_max = out
        /\ \A f \in CountFields : counts[f] = 0
    <2>1. /\ IsRecord(counts, CountNames) /\ counts.in_max = ins /\ counts.out_max = out
          /\ counts.fixed = 0 /\ counts.cluster = 0 /\ counts.accept = 0 /\ counts.attempts = 0
          /\ counts.fixed_active = 0 /\ counts.in_active = 0 /\ counts.out_active = 0
          /\ counts.active = 0
      BY <1>5 DEF ZeroCounts, IsRecord, CountNames, CountFields
    <2>. QED  BY <2>1 DEF CountFields
  <1>8. counts.in_active = 0 /\ counts.out_active = 0
    BY <1>7 DEF CountFields
  <1>9. Limits
    BY <1>6, <1>7, <1>8 DEF Limits
  <1>10. /\ IsRecord(slots, Endpoint) /\ \A e \in Endpoint : slots[e] = None
         /\ IsRecord(connected_addresses, Bares) /\ \A b \in Bares : connected_addresses[b] = 0
         /\ keys = {}
    BY DEF Init, IsRecord
  <1>11. Booked
    BY <1>1, <1>2, <1>3, <1>7, <1>10 DEF Booked
  <1>12. \A c \in Conn : conn[c] = NewConn
    BY DEF Init
  <1>13. \A c \in Conn : Placed(c)
    BY <1>1, <1>12 DEF Placed, HasKey, Keyless, NewConn
  <1>14. toConnect \subseteq Endpoint /\ bootcache \subseteq Endpoint
    BY <1>4 DEF Init
  <1>. QED  BY <1>9, <1>11, <1>13, <1>14 DEF SlotInv

LEMMA NextSlots ==
    ASSUME Inv, SlotInv, [Next]_vars
    PROVE  SlotInv'
  <1>0. /\ setup.inConn \subseteq Conn /\ setup.outConn \subseteq Conn /\ setup.keys \subseteq Key
        /\ setup.redirects \subseteq Endpoint
    BY OverlayAssumption DEF Inv, Types
  <1>1. CASE UNCHANGED vars
    BY <1>1, ElsewhereSlots DEF vars, finder, overlay, Same, SlotInv
  <1>2. CASE \E c \in setup.inConn : HandoffStep(c)
    BY <1>0, <1>2, handoffRefusedSlots, handoffActivateSlots, handoffAddSlots DEF HandoffStep
  <1>3. CASE \E c \in setup.outConn : AttemptStep(c)
    <2>1. PICK c \in Conn : AttemptStep(c)
      BY <1>0, <1>3
    <2>2. CASE \E k \in setup.keys : processResponse(c, k)
      BY <1>0, <2>2, processResponseSlots
    <2>3. CASE \E eps \in {setup.redirects} \ {{}} : attemptRedirected(c, eps)
      BY <1>0, <2>3, attemptRedirectedSlots
    <2>. QED
      BY <2>1, <2>2, <2>3, onHandshakeSlots, attemptFailsSlots, add_activeSlots DEF AttemptStep
  <1>4. CASE \E c \in setup.outConn : Ending(c)
    BY <1>0, <1>4, attemptStopSlots, attemptOnClosedSlots, attemptRemoveSlots, lateTimerSlots
       DEF Ending
  <1>5. CASE \E c \in setup.inConn \cup setup.outConn : run(c) \/ peerStop(c) \/ destroy(c)
    BY <1>0, <1>5, runSlots, peerStopSlots, destroySlots
  <1>6. CASE Connects
    BY <1>0, <1>6, connectSlots DEF Connects
  <1>7. CASE \E c \in setup.inConn, e \in setup.inEndpoints : onHandoff(c, e)
    BY <1>0, <1>7, HandoffSlots
  <1>8. CASE \E c \in setup.inConn \cup setup.outConn :
                close(c) \/ \E onStrand \in BOOLEAN : chargePeer(c, onStrand)
    BY <1>0, <1>8, closeSlots, chargePeerSlots
  <1>9. CASE \/ Ticks \/ Stops \/ requestStop
             \/ \E e \in setup.fixed : resolved(e) \/ backoffEnds(e)
             \/ \E c \in Conn, o \in Origin, gossip \in setup.gossip : onCluster(c, o, gossip)
             \/ \E entries \in SUBSET Inactive, origins \in SUBSET Imported :
                    groom(entries, origins)
             \/ \E k \in EntryKey : cool(k)
    BY <1>9, OutsideSlots
  <1>10. CASE Next
    <2>1. CASE Work
      BY <2>1, <1>2, <1>3, <1>4, <1>5, <1>6, <1>9 DEF Work
    <2>2. CASE ~Work
      BY <1>0, <1>10, <2>2, <1>7, <1>8, <1>9 DEF Next
    <2>. QED  BY <2>1, <2>2
  <1>. QED  BY <1>1, <1>10

\* Logic's tables and its counts agree after any sequence of handshakes, closes and
\* failures, and every connection that will report its close still has its slot.
THEOREM SlotInvariance == Spec => []SlotInv
  <1>1. Init => SlotInv
    BY InitSlots
  <1>2. Inv /\ SlotInv /\ [Next]_vars => SlotInv'
    BY NextSlots
  <1>. QED  BY <1>1, <1>2, Invariance, PTL DEF Spec

\* The assertions of Logic::remove hold: a slot is found under its endpoint, its address
\* and its key, and every counter is the number of slots it counts (peerfinder/impl/
\* Logic.h:973-1002, Counts.h:268-310).
THEOREM SlotsAccountedHolds == Spec => []SlotsAccounted
  <1>1. Inv /\ SlotInv => SlotsAccounted
    <2>. SUFFICES ASSUME Inv, SlotInv PROVE SlotsAccounted
      OBVIOUS
    <2>0. Booked /\ keys \subseteq Key /\ None \notin Key
      BY OverlayAssumption DEF SlotInv, Inv, Types
    <2>1. \A c \in InTable : slots[slot[c].e] = c
      BY <2>0 DEF Booked, InTable
    <2>2. \A e \in Endpoint : slots[e] # None => slot[slots[e]] # None /\ slot[slots[e]].e = e
      BY <2>0 DEF Booked
    <2>3. keys = {slot[c].key : c \in InTable} \ {None}
      <3>1. \A c \in InTable : slot[c].key \in Key \cup {None}
        BY <2>0 DEF Booked, InTable, Slot
      <3>2. \A k \in Key : k \in keys <=> \E c \in InTable : slot[c].key = k
        BY <2>0 DEF Booked, InTable
      <3>. QED  BY <2>0, <3>1, <3>2
    <2>4. \A c, d \in InTable : slot[c].key = slot[d].key => c = d \/ slot[c].key = None
      BY <2>0 DEF Booked, InTable
    <2>5. \A b : Hosted(slot, b) = {c \in InTable : Bare(slot[c].e) = b}
      BY DEF Hosted, InTable
    <2>6. \A b \in Bares :
             connected_addresses[b] = CountOf({c \in InTable : Bare(slot[c].e) = b})
      <3>1. \A b \in Bares : connected_addresses[b] = Cardinality(Hosted(slot, b))
        BY <2>0 DEF Booked
      <3>. QED  BY <2>5, <3>1, Zenon DEF CountOf
    <2>7. /\ Counted(slot, "accept") = {c \in InTable : slot[c].state = "accept"}
          /\ Counted(slot, "attempts") = {c \in InTable : slot[c].state \in {"connect", "connected"}}
          /\ Counted(slot, "active") = {c \in InTable : slot[c].state = "active"}
          /\ Counted(slot, "fixed_active") =
                {c \in InTable : slot[c].state = "active" /\ slot[c].fixed}
          /\ Counted(slot, "cluster") = {c \in InTable : slot[c].cluster}
      BY SMT DEF Counted, InTable, Flag
    <2>8. /\ counts.accept = Cardinality(Counted(slot, "accept"))
          /\ counts.attempts = Cardinality(Counted(slot, "attempts"))
          /\ counts.active = Cardinality(Counted(slot, "active"))
          /\ counts.fixed_active = Cardinality(Counted(slot, "fixed_active"))
          /\ counts.cluster = Cardinality(Counted(slot, "cluster"))
      BY <2>0 DEF Booked, CountFields
    <2>9. /\ counts.accept = CountOf({c \in InTable : slot[c].state = "accept"})
          /\ counts.attempts = CountOf({c \in InTable : slot[c].state \in {"connect", "connected"}})
          /\ counts.active = CountOf({c \in InTable : slot[c].state = "active"})
          /\ counts.fixed_active =
                CountOf({c \in InTable : slot[c].state = "active" /\ slot[c].fixed})
          /\ counts.cluster = CountOf({c \in InTable : slot[c].cluster})
      BY <2>7, <2>8, Zenon DEF CountOf
    <2>. QED  BY <2>1, <2>2, <2>3, <2>4, <2>6, <2>9, Zenon DEF SlotsAccounted
  <1>. QED  BY <1>1, Invariance, SlotInvariance, PTL

\* However handshakes interleave between the slot's creation and its activation, no more
\* peers are active than the configuration has places for (Counts.h:73-85).
THEOREM LimitsHoldAlways == Spec => []LimitsHold
  <1>1. SlotInv => LimitsHold
    <2>. SUFFICES ASSUME SlotInv PROVE LimitsHold
      OBVIOUS
    <2>. DEFINE ins  == {c \in InTable : Plain(c) /\ slot[c].inbound}
               outs == {c \in InTable : Plain(c) /\ ~slot[c].inbound}
    <2>1. Counted(slot, "in_active") = ins /\ Counted(slot, "out_active") = outs
      BY DEF Counted, InTable, Flag, Plain
    <2>2. /\ counts.in_active = Cardinality(Counted(slot, "in_active"))
          /\ counts.out_active = Cardinality(Counted(slot, "out_active"))
      BY DEF SlotInv, Booked, CountFields
    <2>3. counts.in_active = CountOf(ins) /\ counts.out_active = CountOf(outs)
      BY <2>1, <2>2, Zenon DEF CountOf
    <2>4. counts.in_active \in Nat /\ counts.out_active \in Nat
      BY CountsNat DEF SlotInv, CountFields
    <2>. HIDE DEF ins, outs
    <2>5. /\ counts.in_active <= counts.in_max /\ counts.out_active <= counts.out_max
          /\ counts.in_max \in Nat /\ counts.out_max \in Nat
          /\ setup.outPeers < setup.maxPeers => counts.in_max + counts.out_max = setup.maxPeers
      BY DEF SlotInv, Limits
    <2>6. /\ CountOf(ins) <= counts.in_max
          /\ CountOf(outs) <= counts.out_max
          /\ setup.outPeers < setup.maxPeers => CountOf(ins) + CountOf(outs) <= setup.maxPeers
      BY <2>3, <2>4, <2>5
    <2>. QED  BY <2>6 DEF LimitsHold, ins, outs
  <1>. QED  BY <1>1, SlotInvariance, PTL

-----------------------------------------------------------------------------
(* The resource manager's operations *)

\* What connection record r contributes to the references to k.
AttemptWeight(k, r) == IF r.attempt \notin {"none", "gone"} /\ r.usage = k THEN 1 ELSE 0
PeerWeight(k, r)    == IF r.peer \notin {"none", "gone"} /\ r.usage = k THEN 1 ELSE 0
HoldWeight(k, r)    == AttemptWeight(k, r) + PeerWeight(k, r)

HoldersMove(k, c, cn, cm) ==
    /\ IsFiniteSet(AttemptRefs(cm, k)) /\ IsFiniteSet(PeerRefs(cm, k))
    /\ Holders(cn, k) \in Nat /\ Holders(cm, k) \in Nat
    /\ Holders(cn, k) >= HoldWeight(k, cn[c])
    /\ Holders(cm, k) = Holders(cn, k) - HoldWeight(k, cn[c]) + HoldWeight(k, cm[c])

LEMMA HoldersChange ==
    ASSUME NEW cn, NEW cm, NEW c \in Conn, But(c, cn, cm), NEW k,
           IsFiniteSet(AttemptRefs(cn, k)), IsFiniteSet(PeerRefs(cn, k))
    PROVE  HoldersMove(k, c, cn, cm)
  <1>1. /\ AttemptRefs(cn, k) \ {c} = AttemptRefs(cm, k) \ {c}
        /\ PeerRefs(cn, k) \ {c} = PeerRefs(cm, k) \ {c}
    BY DEF AttemptRefs, PeerRefs, But
  <1>. DEFINE A == AttemptRefs(cn, k)
             B == AttemptRefs(cm, k)
             P == PeerRefs(cn, k)
             Q == PeerRefs(cm, k)
  <1>2. /\ IsFiniteSet(B) /\ Cardinality(A) \in Nat /\ Cardinality(B) \in Nat
        /\ Cardinality(B) = Cardinality(A) - (IF c \in A THEN 1 ELSE 0) + (IF c \in B THEN 1 ELSE 0)
    BY <1>1, OneChange
  <1>3. /\ IsFiniteSet(Q) /\ Cardinality(P) \in Nat /\ Cardinality(Q) \in Nat
        /\ Cardinality(Q) = Cardinality(P) - (IF c \in P THEN 1 ELSE 0) + (IF c \in Q THEN 1 ELSE 0)
    BY <1>1, OneChange
  <1>4. /\ AttemptWeight(k, cn[c]) = (IF c \in A THEN 1 ELSE 0)
        /\ AttemptWeight(k, cm[c]) = (IF c \in B THEN 1 ELSE 0)
        /\ PeerWeight(k, cn[c]) = (IF c \in P THEN 1 ELSE 0)
        /\ PeerWeight(k, cm[c]) = (IF c \in Q THEN 1 ELSE 0)
    BY DEF AttemptWeight, PeerWeight, AttemptRefs, PeerRefs
  <1>5. Cardinality(A) >= (IF c \in A THEN 1 ELSE 0) /\ Cardinality(P) >= (IF c \in P THEN 1 ELSE 0)
    <2>1. IsFiniteSet(A \ {c}) /\ Cardinality(A \ {c}) = IF c \in A THEN Cardinality(A) - 1 ELSE Cardinality(A)
      BY FS_RemoveElement
    <2>2. IsFiniteSet(P \ {c}) /\ Cardinality(P \ {c}) = IF c \in P THEN Cardinality(P) - 1 ELSE Cardinality(P)
      BY FS_RemoveElement
    <2>3. Cardinality(A \ {c}) \in Nat /\ Cardinality(P \ {c}) \in Nat
      BY <2>1, <2>2, FS_CardinalityType
    <2>. HIDE DEF A, P
    <2>. QED  BY <1>2, <1>3, <2>1, <2>2, <2>3
  <1>6. Holders(cn, k) = Cardinality(A) + Cardinality(P) /\ Holders(cm, k) = Cardinality(B) + Cardinality(Q)
    BY DEF Holders
  <1>7. IsFiniteSet(AttemptRefs(cm, k)) /\ IsFiniteSet(PeerRefs(cm, k))
    BY <1>2, <1>3
  <1>. HIDE DEF A, B, P, Q
  <1>8. /\ HoldWeight(k, cn[c]) = (IF c \in A THEN 1 ELSE 0) + (IF c \in P THEN 1 ELSE 0)
        /\ HoldWeight(k, cm[c]) = (IF c \in B THEN 1 ELSE 0) + (IF c \in Q THEN 1 ELSE 0)
    BY <1>4 DEF HoldWeight
  <1>9. /\ Holders(cn, k) \in Nat /\ Holders(cm, k) \in Nat
        /\ Holders(cn, k) >= HoldWeight(k, cn[c])
        /\ Holders(cm, k) = Holders(cn, k) - HoldWeight(k, cn[c]) + HoldWeight(k, cm[c])
    BY <1>2, <1>3, <1>5, <1>6, <1>8
  <1>. QED  BY <1>7, <1>9 DEF HoldersMove

EntryIs(v, n, i, b) ==
    v \in Entry /\ v.refcount = n /\ v.remote_balance = i /\ v.inactive = b

LEMMA EntryWith ==
    ASSUME NEW e \in Entry, NEW a \in Int, NEW b \in BOOLEAN
    PROVE  EntryIs([e EXCEPT !.refcount = a, !.inactive = b], a, e.remote_balance, b)
  <1>. DEFINE v == [e EXCEPT !.refcount = a, !.inactive = b]
  <1>1. /\ e = [f \in {"refcount", "local_balance", "remote_balance", "inactive"} |-> e[f]]
        /\ e.local_balance \in Int /\ e.remote_balance \in Int
    BY Zenon DEF Entry
  <1>2. v.refcount = a
    BY <1>1, Zenon
  <1>3. v.inactive = b
    BY <1>1, Zenon
  <1>4. v.remote_balance = e.remote_balance /\ v.local_balance = e.local_balance
    BY <1>1, Zenon
  <1>5. v = [f \in {"refcount", "local_balance", "remote_balance", "inactive"} |-> v[f]]
    BY <1>1, Zenon
  <1>. HIDE DEF v
  <1>6. v \in Entry
    BY <1>1, <1>2, <1>3, <1>4, <1>5, Zenon DEF Entry
  <1>7. EntryIs(v, a, v.remote_balance, b)
    BY <1>2, <1>3, <1>6, Zenon DEF EntryIs
  <1>. QED  BY <1>4, <1>7, Zenon DEF v

LEMMA NewEntryIn == NewEntry \in Entry /\ NewEntry.refcount = 0 /\ NewEntry.remote_balance = 0
  BY DEF NewEntry, Entry

LEMMA EntryRewritten ==
    ASSUME NEW e \in Entry, NEW a \in Int, NEW r \in Int, NEW b \in BOOLEAN
    PROVE  EntryIs([e EXCEPT !.refcount = a, !.remote_balance = r, !.inactive = b], a, r, b)
  <1>. DEFINE v == [e EXCEPT !.refcount = a, !.remote_balance = r, !.inactive = b]
  <1>1. /\ e = [f \in {"refcount", "local_balance", "remote_balance", "inactive"} |-> e[f]]
        /\ e.local_balance \in Int /\ e.remote_balance \in Int
    BY Zenon DEF Entry
  <1>2. v.refcount = a
    BY <1>1, Zenon
  <1>3. v.inactive = b
    BY <1>1, Zenon
  <1>4. v.remote_balance = r /\ v.local_balance = e.local_balance
    BY <1>1, Zenon
  <1>5. v = [f \in {"refcount", "local_balance", "remote_balance", "inactive"} |-> v[f]]
    BY <1>1, Zenon
  <1>. HIDE DEF v
  <1>6. v \in Entry
    BY <1>1, <1>2, <1>3, <1>4, <1>5, Zenon DEF Entry
  <1>7. EntryIs(v, a, v.remote_balance, b)
    BY <1>2, <1>3, <1>6, Zenon DEF EntryIs
  <1>. QED  BY <1>4, <1>7, Zenon DEF v


\* Table u is t with another entry k.
Sets(t, u, k) == IsRecord(u, EntryKey) /\ \A j \in EntryKey \ {k} : u[j] = t[j]

LEMMA newEndpointTally ==
    ASSUME NEW t, IsRecord(t, EntryKey), NEW k \in EntryKey, NEW n \in Nat, NEW i \in Nat, i <= n,
           Tallied(t[k], n, i)
    PROVE  Sets(t, newEndpoint(t, k), k) /\ Tallied(newEndpoint(t, k)[k], n + 1, i)
  <1>. DEFINE entry == IF t[k] = Absent THEN NewEntry ELSE t[k]
             v == [entry EXCEPT !.refcount = @ + 1, !.inactive = FALSE]
  <1>1. newEndpoint(t, k) = [t EXCEPT ![k] = v]
    BY DEF newEndpoint
  <1>2. entry \in Entry /\ entry.refcount = n /\ entry.remote_balance = i
    <2>1. CASE t[k] = Absent
      <3>1. n = 0 /\ i = 0
        BY <2>1, OverlayAssumption DEF Tallied
      <3>. QED  BY <2>1, <3>1, NewEntryIn
    <2>2. CASE t[k] # Absent
      BY <2>2, Zenon DEF Tallied
    <2>. QED  BY <2>1, <2>2
  <1>. HIDE DEF entry
  <1>3. v \in Entry /\ v.refcount = n + 1 /\ v.remote_balance = i /\ v.inactive = FALSE
    <2>1. entry.refcount + 1 = n + 1 /\ entry.refcount + 1 \in Int
      BY <1>2
    <2>2. EntryIs(v, entry.refcount + 1, entry.remote_balance, FALSE)
      BY <1>2, <2>1, EntryWith, Zenon
    <2>. QED  BY <1>2, <2>1, <2>2, Zenon DEF EntryIs
  <1>. HIDE DEF v
  <1>4. Sets(t, newEndpoint(t, k), k) /\ newEndpoint(t, k)[k] = v
    BY <1>1 DEF Sets, IsRecord
  <1>5. (n + 1 = 0) = FALSE
    OBVIOUS
  <1>. QED  BY <1>3, <1>4, <1>5 DEF Tallied

LEMMA releaseTally ==
    ASSUME NEW t, IsRecord(t, EntryKey), NEW k \in EntryKey, NEW n \in Nat, n > 0, NEW i,
           Tallied(t[k], n, i)
    PROVE  Sets(t, release(t, k), k) /\ Tallied(release(t, k)[k], n - 1, i)
  <1>. DEFINE b == t[k].refcount = 1
             v == [t[k] EXCEPT !.refcount = @ - 1, !.inactive = b]
  <1>1. t[k] \in Entry /\ t[k].refcount = n /\ t[k].remote_balance = i
    BY DEF Tallied
  <1>2. release(t, k) = [t EXCEPT ![k] = v]
    BY <1>1 DEF release, IsRecord, Entry
  <1>3. (t[k].refcount = 1) = (n - 1 = 0)
    BY <1>1
  <1>4. v \in Entry /\ v.refcount = n - 1 /\ v.remote_balance = i /\ v.inactive = (n - 1 = 0)
    <2>1. t[k].refcount - 1 = n - 1 /\ t[k].refcount - 1 \in Int
      BY <1>1
    <2>2. b = (n - 1 = 0)
      BY <1>3
    <2>4. b \in BOOLEAN
      OBVIOUS
    <2>. HIDE DEF b
    <2>3. EntryIs(v, t[k].refcount - 1, t[k].remote_balance, b)
      BY <1>1, <2>1, <2>4, EntryWith, Zenon
    <2>. QED  BY <1>1, <2>1, <2>2, <2>3, Zenon DEF EntryIs
  <1>. HIDE DEF v
  <1>5. Sets(t, release(t, k), k) /\ release(t, k)[k] = v
    BY <1>2 DEF Sets, IsRecord
  <1>. QED  BY <1>4, <1>5 DEF Tallied

LEMMA acquireTally ==
    ASSUME NEW t, IsRecord(t, EntryKey), NEW k \in EntryKey, NEW n \in Nat, n > 0, NEW i,
           Tallied(t[k], n, i)
    PROVE  Sets(t, acquire(t, k), k) /\ Tallied(acquire(t, k)[k], n + 1, i)
  <1>. DEFINE v == [t[k] EXCEPT !.refcount = @ + 1]
  <1>1. /\ t[k] \in Entry /\ t[k].refcount = n /\ t[k].remote_balance = i
        /\ t[k].inactive = (n = 0)
    BY DEF Tallied
  <1>2. acquire(t, k) = [t EXCEPT ![k] = v]
    BY DEF acquire
  <1>3. (n = 0) = FALSE /\ (n + 1 = 0) = FALSE
    OBVIOUS
  <1>4. v \in Entry /\ v.refcount = n + 1 /\ v.remote_balance = i /\ v.inactive = (n = 0)
    BY <1>1 DEF Entry
  <1>. HIDE DEF v
  <1>5. Sets(t, acquire(t, k), k) /\ acquire(t, k)[k] = v
    BY <1>2 DEF Sets, IsRecord
  <1>. QED  BY <1>3, <1>4, <1>5 DEF Tallied

LEMMA chargeTally ==
    ASSUME NEW t, IsRecord(t, EntryKey), NEW k \in EntryKey, NEW n, NEW i, NEW fee \in Int,
           t[k] # Absent, Tallied(t[k], n, i)
    PROVE  /\ Sets(t, charge(t, k, fee), k) /\ Tallied(charge(t, k, fee)[k], n, i)
           /\ charge(t, k, fee)[k] # Absent
  <1>. DEFINE v == [t[k] EXCEPT !.local_balance = @ + fee]
  <1>1. /\ t[k] \in Entry /\ t[k].refcount = n /\ t[k].remote_balance = i
        /\ t[k].inactive = (n = 0)
    BY DEF Tallied
  <1>2. charge(t, k, fee) = [t EXCEPT ![k] = v]
    BY DEF charge
  <1>3. v \in Entry /\ v.refcount = n /\ v.remote_balance = i /\ v.inactive = (n = 0)
    BY <1>1 DEF Entry
  <1>. HIDE DEF v
  <1>4. Sets(t, charge(t, k, fee), k) /\ charge(t, k, fee)[k] = v
    BY <1>2 DEF Sets, IsRecord
  <1>. QED  BY <1>3, <1>4, OverlayAssumption DEF Tallied

LEMMA disconnectTally ==
    ASSUME NEW t, IsRecord(t, EntryKey), NEW k \in EntryKey, NEW n, NEW i,
           t[k] # Absent, Tallied(t[k], n, i)
    PROVE  /\ Sets(t, disconnect(t, k), k) /\ Tallied(disconnect(t, k)[k], n, i)
           /\ disconnect(t, k)[k] # Absent
  <1>1. feeDrop \in Int
    BY OverlayAssumption
  <1>2. CASE overDrop(t, k)
    BY <1>1, <1>2, chargeTally DEF disconnect
  <1>3. CASE ~overDrop(t, k)
    BY <1>3 DEF disconnect, Sets
  <1>. QED  BY <1>2, <1>3

-----------------------------------------------------------------------------
(* Who refers to an entry *)

Stays(j, r, s)  == HoldWeight(j, s) = HoldWeight(j, r)

\* With record s for r there is one more reference to k, and no other change.
Lifts(k, r, s) ==
    HoldWeight(k, s) = HoldWeight(k, r) + 1 /\ \A j : j # k => Stays(j, r, s)

\* Records r and s hold the same references.
Keeps(r, s) ==
    /\ s.usage = r.usage
    /\ s.attempt \in {"none", "gone"} <=> r.attempt \in {"none", "gone"}
    /\ s.peer \in {"none", "gone"} <=> r.peer \in {"none", "gone"}

LEMMA WeightNat == \A k, r : HoldWeight(k, r) \in Nat
  BY DEF HoldWeight, AttemptWeight, PeerWeight

LEMMA KeepsStays == ASSUME NEW r, NEW s, Keeps(r, s), NEW j PROVE Stays(j, r, s)
  <1>1. AttemptWeight(j, s) = AttemptWeight(j, r) /\ PeerWeight(j, s) = PeerWeight(j, r)
    BY DEF Keeps, AttemptWeight, PeerWeight
  <1>. QED  BY <1>1, Zenon DEF Stays, HoldWeight

LEMMA LiftPeer ==
    ASSUME NEW r, NEW s, NEW k, s.usage = k,
           r.peer \in {"none", "gone"}, s.peer \notin {"none", "gone"},
           \/ r.attempt \in {"none", "gone"} /\ s.attempt \in {"none", "gone"}
           \/ r.attempt \notin {"none", "gone"} /\ s.attempt \notin {"none", "gone"} /\ r.usage = k
    PROVE  Lifts(k, r, s)
  <1>1. \A j : AttemptWeight(j, s) = AttemptWeight(j, r)
    BY DEF AttemptWeight
  <1>2. PeerWeight(k, r) = 0 /\ PeerWeight(k, s) = 1
    BY DEF PeerWeight
  <1>3. \A j : j # k => PeerWeight(j, r) = 0 /\ PeerWeight(j, s) = 0
    BY DEF PeerWeight
  <1>4. AttemptWeight(k, r) \in Nat
    BY DEF AttemptWeight
  <1>5. HoldWeight(k, s) = HoldWeight(k, r) + 1
    BY <1>1, <1>2, <1>4 DEF HoldWeight
  <1>6. \A j : j # k => Stays(j, r, s)
    BY <1>1, <1>3, Zenon DEF HoldWeight, Stays
  <1>. QED  BY <1>5, <1>6 DEF Lifts

LEMMA LiftAttempt ==
    ASSUME NEW r, NEW s, NEW k, s.usage = k,
           r.attempt \in {"none", "gone"}, s.attempt \notin {"none", "gone"},
           \/ r.peer \in {"none", "gone"} /\ s.peer \in {"none", "gone"}
           \/ r.peer \notin {"none", "gone"} /\ s.peer \notin {"none", "gone"} /\ r.usage = k
    PROVE  Lifts(k, r, s)
  <1>1. \A j : PeerWeight(j, s) = PeerWeight(j, r)
    BY DEF PeerWeight
  <1>2. AttemptWeight(k, r) = 0 /\ AttemptWeight(k, s) = 1
    BY DEF AttemptWeight
  <1>3. \A j : j # k => AttemptWeight(j, r) = 0 /\ AttemptWeight(j, s) = 0
    BY DEF AttemptWeight
  <1>4. PeerWeight(k, r) \in Nat
    BY DEF PeerWeight
  <1>5. HoldWeight(k, s) = HoldWeight(k, r) + 1
    BY <1>1, <1>2, <1>4 DEF HoldWeight
  <1>6. \A j : j # k => Stays(j, r, s)
    BY <1>1, <1>3, Zenon DEF HoldWeight, Stays
  <1>. QED  BY <1>5, <1>6 DEF Lifts

\* The number of references to k with the connections cn and the imports it.
Refs(cn, it, k) == Holders(cn, k) + Imports(it, k)

LEMMA TalliedAt ==
    ASSUME NEW t, NEW cn, NEW it, AllTallied(t, cn, it), NEW k \in EntryKey
    PROVE  /\ Tallied(t[k], Refs(cn, it, k), Imports(it, k)) /\ RefsFinite(cn, it, k)
           /\ Holders(cn, k) \in Nat /\ Imports(it, k) \in Nat /\ Refs(cn, it, k) \in Nat
           /\ Imports(it, k) <= Refs(cn, it, k)
  <1>1. Tallied(t[k], Refs(cn, it, k), Imports(it, k)) /\ RefsFinite(cn, it, k)
    BY Zenon DEF AllTallied, Refs
  <1>2. Holders(cn, k) \in Nat /\ Imports(it, k) \in Nat
    BY <1>1, FS_CardinalityType DEF RefsFinite, Holders, Imports
  <1>. QED  BY <1>1, <1>2 DEF Refs

LEMMA HoldersAt ==
    ASSUME NEW t, NEW cn, NEW cm, NEW it, AllTallied(t, cn, it), NEW k \in EntryKey,
           NEW c \in Conn, But(c, cn, cm)
    PROVE  HoldersMove(k, c, cn, cm) /\ RefsFinite(cm, it, k)
  <1>1. RefsFinite(cn, it, k)
    BY TalliedAt
  <1>2. HoldersMove(k, c, cn, cm)
    BY <1>1, HoldersChange DEF RefsFinite
  <1>. QED  BY <1>1, <1>2 DEF RefsFinite, HoldersMove

\* The references change at k only, and the table with them.
LEMMA MoveTallied ==
    ASSUME NEW t, NEW u, NEW cn, NEW cm, NEW it, AllTallied(t, cn, it), NEW k \in EntryKey,
           NEW c \in Conn, But(c, cn, cm), \A j : j # k => Stays(j, cn[c], cm[c]),
           Sets(t, u, k), Tallied(u[k], Refs(cm, it, k), Imports(it, k))
    PROVE  AllTallied(u, cm, it)
  <1>. SUFFICES ASSUME NEW j \in EntryKey
                PROVE  RefsFinite(cm, it, j) /\ Tallied(u[j], Refs(cm, it, j), Imports(it, j))
    BY Zenon DEF AllTallied, Refs
  <1>1. RefsFinite(cm, it, j) /\ HoldersMove(j, c, cn, cm)
    BY HoldersAt, Zenon
  <1>2. CASE j = k
    BY <1>1, <1>2
  <1>3. CASE j # k
    <2>1. HoldWeight(j, cm[c]) = HoldWeight(j, cn[c])
      BY <1>3, Zenon DEF Stays
    <2>2. Holders(cm, j) = Holders(cn, j)
      BY <1>1, <2>1, WeightNat DEF HoldersMove
    <2>3. Tallied(t[j], Refs(cn, it, j), Imports(it, j))
      BY TalliedAt, Zenon
    <2>4. u[j] = t[j]
      BY <1>3, Zenon DEF Sets
    <2>. QED  BY <1>1, <2>2, <2>3, <2>4, Zenon DEF Refs
  <1>. QED  BY <1>2, <1>3

LEMMA KeepTallied ==
    ASSUME NEW t, NEW cn, NEW cm, NEW it, AllTallied(t, cn, it),
           NEW c \in Conn, But(c, cn, cm), Keeps(cn[c], cm[c])
    PROVE  AllTallied(t, cm, it)
  <1>. SUFFICES ASSUME NEW j \in EntryKey
                PROVE  RefsFinite(cm, it, j) /\ Tallied(t[j], Refs(cm, it, j), Imports(it, j))
    BY Zenon DEF AllTallied, Refs
  <1>1. RefsFinite(cm, it, j) /\ HoldersMove(j, c, cn, cm)
    BY HoldersAt, Zenon
  <1>2. HoldWeight(j, cm[c]) = HoldWeight(j, cn[c])
    BY KeepsStays, Zenon DEF Stays
  <1>3. Holders(cm, j) = Holders(cn, j)
    BY <1>1, <1>2, WeightNat DEF HoldersMove
  <1>4. Tallied(t[j], Refs(cn, it, j), Imports(it, j))
    BY TalliedAt, Zenon
  <1>. QED  BY <1>1, <1>3, <1>4, Zenon DEF Refs

LEMMA EntryTallied ==
    ASSUME NEW t, NEW u, NEW cn, NEW it, AllTallied(t, cn, it), NEW k \in EntryKey, Sets(t, u, k),
           Tallied(u[k], Refs(cn, it, k), Imports(it, k))
    PROVE  AllTallied(u, cn, it)
  <1>. SUFFICES ASSUME NEW j \in EntryKey
                PROVE  RefsFinite(cn, it, j) /\ Tallied(u[j], Refs(cn, it, j), Imports(it, j))
    BY Zenon DEF AllTallied, Refs
  <1>1. Tallied(t[j], Refs(cn, it, j), Imports(it, j)) /\ RefsFinite(cn, it, j)
    BY TalliedAt, Zenon
  <1>. QED  BY <1>1, Zenon DEF Sets

\* What the operations do to a table that tallies.
LEMMA newEndpointRefs ==
    ASSUME NEW t, IsRecord(t, EntryKey), NEW cn, NEW cm, NEW it, AllTallied(t, cn, it),
           NEW k \in EntryKey, NEW c \in Conn, But(c, cn, cm), Lifts(k, cn[c], cm[c])
    PROVE  IsRecord(newEndpoint(t, k), EntryKey) /\ AllTallied(newEndpoint(t, k), cm, it)
  <1>. DEFINE n == Refs(cn, it, k)
             i == Imports(it, k)
             u == newEndpoint(t, k)
  <1>1. Tallied(t[k], n, i) /\ n \in Nat /\ i \in Nat /\ i <= n
    BY TalliedAt, Zenon
  <1>2. HoldersMove(k, c, cn, cm)
    BY HoldersAt, Zenon
  <1>3. HoldWeight(k, cm[c]) = HoldWeight(k, cn[c]) + 1 /\ \A j : j # k => Stays(j, cn[c], cm[c])
    BY DEF Lifts
  <1>4. Refs(cm, it, k) = n + 1
    <2>1. Holders(cm, k) = Holders(cn, k) + 1
      BY <1>2, <1>3, WeightNat DEF HoldersMove
    <2>2. Holders(cn, k) \in Nat
      BY TalliedAt, Zenon
    <2>. QED  BY <1>1, <2>1, <2>2 DEF Refs
  <1>. HIDE DEF n, i, u
  <1>5. Sets(t, u, k) /\ Tallied(u[k], n + 1, i)
    BY <1>1, newEndpointTally, Zenon DEF u
  <1>6. AllTallied(u, cm, it)
    <2>1. Tallied(u[k], Refs(cm, it, k), Imports(it, k))
      BY <1>4, <1>5, Zenon DEF i
    <2>. QED  BY <1>3, <1>5, <2>1, MoveTallied, Zenon
  <1>. QED  BY <1>5, <1>6, Zenon DEF Sets, u

LEMMA acquireRefs ==
    ASSUME NEW t, IsRecord(t, EntryKey), NEW cn, NEW cm, NEW it, AllTallied(t, cn, it),
           NEW k \in EntryKey, NEW c \in Conn, But(c, cn, cm), Lifts(k, cn[c], cm[c]),
           HoldWeight(k, cn[c]) > 0
    PROVE  IsRecord(acquire(t, k), EntryKey) /\ AllTallied(acquire(t, k), cm, it)
  <1>. DEFINE n == Refs(cn, it, k)
             i == Imports(it, k)
             u == acquire(t, k)
  <1>1. Tallied(t[k], n, i) /\ n \in Nat /\ i \in Nat /\ i <= n
    BY TalliedAt, Zenon
  <1>2. HoldersMove(k, c, cn, cm)
    BY HoldersAt, Zenon
  <1>3. HoldWeight(k, cm[c]) = HoldWeight(k, cn[c]) + 1 /\ \A j : j # k => Stays(j, cn[c], cm[c])
    BY DEF Lifts
  <1>4. Refs(cm, it, k) = n + 1 /\ n > 0
    <2>1. Holders(cm, k) = Holders(cn, k) + 1 /\ Holders(cn, k) > 0
      BY <1>2, <1>3, WeightNat DEF HoldersMove
    <2>2. Holders(cn, k) \in Nat
      BY TalliedAt, Zenon
    <2>. QED  BY <1>1, <2>1, <2>2 DEF Refs
  <1>. HIDE DEF n, i, u
  <1>5. Sets(t, u, k) /\ Tallied(u[k], n + 1, i)
    BY <1>1, <1>4, acquireTally, Zenon DEF u
  <1>6. AllTallied(u, cm, it)
    <2>1. Tallied(u[k], Refs(cm, it, k), Imports(it, k))
      BY <1>4, <1>5, Zenon DEF i
    <2>. QED  BY <1>3, <1>5, <2>1, MoveTallied, Zenon
  <1>. QED  BY <1>5, <1>6, Zenon DEF Sets, u

LEMMA releaseRefs ==
    ASSUME NEW t, IsRecord(t, EntryKey), NEW cn, NEW cm, NEW it, AllTallied(t, cn, it),
           NEW k \in EntryKey, NEW c \in Conn, But(c, cn, cm), Lifts(k, cm[c], cn[c])
    PROVE  IsRecord(release(t, k), EntryKey) /\ AllTallied(release(t, k), cm, it)
  <1>. DEFINE n == Refs(cn, it, k)
             i == Imports(it, k)
             u == release(t, k)
  <1>1. Tallied(t[k], n, i) /\ n \in Nat /\ i \in Nat /\ i <= n
    BY TalliedAt, Zenon
  <1>2. HoldersMove(k, c, cn, cm)
    BY HoldersAt, Zenon
  <1>3. HoldWeight(k, cn[c]) = HoldWeight(k, cm[c]) + 1 /\ \A j : j # k => Stays(j, cm[c], cn[c])
    BY DEF Lifts
  <1>4. Refs(cm, it, k) = n - 1 /\ n > 0
    <2>1. Holders(cm, k) = Holders(cn, k) - 1 /\ Holders(cn, k) > 0
      BY <1>2, <1>3, WeightNat DEF HoldersMove
    <2>2. Holders(cn, k) \in Nat
      BY TalliedAt, Zenon
    <2>. QED  BY <1>1, <2>1, <2>2 DEF Refs
  <1>. HIDE DEF n, i, u
  <1>5. Sets(t, u, k) /\ Tallied(u[k], n - 1, i)
    BY <1>1, <1>4, releaseTally, Zenon DEF u
  <1>6. AllTallied(u, cm, it)
    <2>1. Tallied(u[k], Refs(cm, it, k), Imports(it, k))
      BY <1>4, <1>5, Zenon DEF i
    <2>2. \A j : j # k => Stays(j, cn[c], cm[c])
      BY <1>3, Zenon DEF Stays
    <2>. QED  BY <1>5, <2>1, <2>2, MoveTallied, Zenon
  <1>. QED  BY <1>5, <1>6, Zenon DEF Sets, u

\* A consumer that is made, asked whether to disconnect, and destroyed.
LEMMA refusedRefs ==
    ASSUME NEW t, IsRecord(t, EntryKey), NEW cn, NEW it, AllTallied(t, cn, it), NEW k \in EntryKey
    PROVE  LET u == release(disconnect(newEndpoint(t, k), k), k)
           IN  IsRecord(u, EntryKey) /\ AllTallied(u, cn, it)
  <1>. DEFINE n == Refs(cn, it, k)
             i == Imports(it, k)
             t1 == newEndpoint(t, k)
             t2 == disconnect(t1, k)
             u == release(t2, k)
  <1>1. Tallied(t[k], n, i) /\ n \in Nat /\ i \in Nat /\ i <= n
    BY TalliedAt, Zenon
  <1>2. n + 1 \in Nat /\ n + 1 > 0 /\ n + 1 # 0
    BY <1>1
  <1>. HIDE DEF n, i, t1, t2, u
  <1>3. Sets(t, t1, k) /\ Tallied(t1[k], n + 1, i)
    BY <1>1, newEndpointTally, Zenon DEF t1
  <1>4. IsRecord(t1, EntryKey) /\ t1[k] # Absent
    <2>1. n + 1 # 0
      BY <1>2
    <2>2. t1[k] = Absent => n + 1 = 0
      BY <1>3, OverlayAssumption, Zenon DEF Tallied
    <2>. QED  BY <1>3, <2>1, <2>2, Zenon DEF Sets
  <1>5. Sets(t1, t2, k) /\ Tallied(t2[k], n + 1, i) /\ IsRecord(t2, EntryKey)
    BY <1>3, <1>4, disconnectTally, Zenon DEF t2, Sets
  <1>6. Sets(t2, u, k) /\ Tallied(u[k], n, i)
    <2>. DEFINE m == n + 1
    <2>1. m \in Nat /\ m > 0 /\ m - 1 = n
      BY <1>1
    <2>2. Tallied(t2[k], m, i)
      BY <1>5, Zenon
    <2>. HIDE DEF m
    <2>3. Sets(t2, u, k) /\ Tallied(u[k], m - 1, i)
      BY <1>5, <2>1, <2>2, releaseTally, Zenon DEF u
    <2>. QED  BY <2>1, <2>3, Zenon
  <1>7. Sets(t, u, k) /\ Tallied(u[k], n, i)
    BY <1>3, <1>5, <1>6, Zenon DEF Sets
  <1>8. AllTallied(u, cn, it)
    BY <1>7, EntryTallied, Zenon DEF n, i
  <1>. QED  BY <1>7, <1>8, Zenon DEF Sets, u, t2, t1

\* A charge to a consumer some connection holds.
LEMMA chargeRefs ==
    ASSUME NEW t, IsRecord(t, EntryKey), NEW cn, NEW it, AllTallied(t, cn, it), NEW k \in EntryKey,
           t[k] # Absent, NEW fee \in Int
    PROVE  /\ IsRecord(charge(t, k, fee), EntryKey) /\ AllTallied(charge(t, k, fee), cn, it)
           /\ charge(t, k, fee)[k] # Absent
  <1>. DEFINE u == charge(t, k, fee)
  <1>1. Tallied(t[k], Refs(cn, it, k), Imports(it, k))
    BY TalliedAt, Zenon
  <1>2. /\ Sets(t, u, k) /\ Tallied(u[k], Refs(cn, it, k), Imports(it, k)) /\ u[k] # Absent
    BY <1>1, chargeTally, Zenon
  <1>. HIDE DEF u
  <1>. QED  BY <1>2, EntryTallied, Zenon DEF Sets, u

LEMMA disconnectRefs ==
    ASSUME NEW t, IsRecord(t, EntryKey), NEW cn, NEW it, AllTallied(t, cn, it), NEW k \in EntryKey,
           t[k] # Absent
    PROVE  IsRecord(disconnect(t, k), EntryKey) /\ AllTallied(disconnect(t, k), cn, it)
  <1>1. feeDrop \in Int
    BY OverlayAssumption
  <1>2. CASE overDrop(t, k)
    BY <1>1, <1>2, chargeRefs, Zenon DEF disconnect
  <1>3. CASE ~overDrop(t, k)
    BY <1>3, Zenon DEF disconnect
  <1>. QED  BY <1>2, <1>3

\* An entry a connection refers to is in the table.
LEMMA HeldPresent ==
    ASSUME NEW t, NEW cn, NEW it, AllTallied(t, cn, it), NEW k \in EntryKey,
           NEW c \in Conn, HoldWeight(k, cn[c]) > 0
    PROVE  t[k] # Absent
  <1>1. Tallied(t[k], Refs(cn, it, k), Imports(it, k)) /\ Holders(cn, k) \in Nat /\ Imports(it, k) \in Nat
    BY TalliedAt, Zenon
  <1>2. But(c, cn, cn)
    BY DEF But
  <1>3. HoldersMove(k, c, cn, cn)
    BY <1>2, HoldersAt, Zenon
  <1>4. Holders(cn, k) > 0
    BY <1>3, WeightNat DEF HoldersMove
  <1>5. Refs(cn, it, k) # 0
    BY <1>1, <1>4 DEF Refs
  <1>. QED  BY <1>1, <1>5, OverlayAssumption, Zenon DEF Tallied

UsageKnown(r) ==
    r.attempt \notin {"none", "gone"} \/ r.peer \notin {"none", "gone"} => r.usage \in EntryKey

LEMMA RefStep ==
    ASSUME RefInv, NEW c \in Conn, But(c, conn, conn'), import_table' = import_table,
           IsRecord(table', EntryKey), AllTallied(table', conn', import_table), UsageKnown(conn'[c])
    PROVE  RefInv'
  <1>1. \A d \in Conn : (AttemptHolds(d) \/ PeerHolds(d) => conn[d].usage \in EntryKey)'
    <2>. SUFFICES ASSUME NEW d \in Conn
                  PROVE  (AttemptHolds(d) \/ PeerHolds(d) => conn[d].usage \in EntryKey)'
      OBVIOUS
    <2>1. CASE d = c
      BY <2>1, Zenon DEF UsageKnown, AttemptHolds, PeerHolds
    <2>2. CASE d # c
      BY <2>2, Zenon DEF But, RefInv, AttemptHolds, PeerHolds
    <2>. QED  BY <2>1, <2>2
  <1>2. AllTallied(table', conn', import_table')
    BY Zenon
  <1>. QED  BY <1>1, <1>2, Zenon DEF RefInv

LEMMA KeepRefs ==
    ASSUME RefInv, NEW c \in Conn, But(c, conn, conn'), Keeps(conn[c], conn'[c]),
           table' = table, import_table' = import_table
    PROVE  RefInv'
  <1>1. AllTallied(table, conn', import_table)
    BY KeepTallied, Zenon DEF RefInv
  <1>2. UsageKnown(conn'[c])
    BY Zenon DEF UsageKnown, Keeps, RefInv, AttemptHolds, PeerHolds
  <1>. QED  BY <1>1, <1>2, RefStep, Zenon DEF RefInv

LEMMA SameRefs ==
    ASSUME RefInv, UNCHANGED <<conn, table, import_table>>
    PROVE  RefInv'
  BY DEF RefInv, AttemptHolds, PeerHolds

-----------------------------------------------------------------------------
(* The steps of a connection *)

LEMMA ConnBut ==
    ASSUME Inv, NEW c \in Conn, NEW r, conn' = [conn EXCEPT ![c] = r]
    PROVE  conn'[c] = r /\ But(c, conn, conn')
  BY ConnSet DEF But

LEMMA SetKeeps ==
    ASSUME Inv, RefInv, NEW c \in Conn, NEW r, conn' = [conn EXCEPT ![c] = r], Keeps(conn[c], r),
           table' = table, import_table' = import_table
    PROVE  RefInv'
  BY ConnBut, KeepRefs, Zenon

LEMMA handoffAddRefs ==
    ASSUME Inv, RefInv, NEW c \in Conn, handoffAdd(c) PROVE RefInv'
  <1>. DEFINE r == [conn[c] EXCEPT !.peer = "posted"]
  <1>0. IsRecord(conn[c], ConnFields)
    BY ConnFieldsOf
  <1>1. conn' = [conn EXCEPT ![c] = r] /\ table' = table /\ import_table' = import_table
    BY DEF handoffAdd, Set, resource
  <1>2. /\ r.attempt = conn[c].attempt /\ r.peer = "posted"
        /\ r.usage = conn[c].usage
    BY <1>0 DEF IsRecord, ConnFields
  <1>3. conn[c].peer = "activated"
    BY DEF handoffAdd
  <1>4. Keeps(conn[c], r)
    BY <1>2, <1>3 DEF Keeps
  <1>. HIDE DEF r
  <1>. QED  BY <1>1, <1>4, SetKeeps, Zenon

LEMMA attemptFailsRefs ==
    ASSUME Inv, RefInv, NEW c \in Conn, attemptFails(c) PROVE RefInv'
  <1>. DEFINE r == [conn[c] EXCEPT !.attempt = "closed", !.open = FALSE]
  <1>0. IsRecord(conn[c], ConnFields)
    BY ConnFieldsOf
  <1>1. conn' = [conn EXCEPT ![c] = r] /\ table' = table /\ import_table' = import_table
    BY DEF attemptFails, Set, resource
  <1>2. /\ r.attempt = "closed" /\ r.peer = conn[c].peer
        /\ r.usage = conn[c].usage
    BY <1>0 DEF IsRecord, ConnFields
  <1>3. conn[c].attempt \in {"connecting", "connected"}
    BY DEF attemptFails, Trying
  <1>4. Keeps(conn[c], r)
    BY <1>2, <1>3 DEF Keeps
  <1>. HIDE DEF r
  <1>. QED  BY <1>1, <1>4, SetKeeps, Zenon

LEMMA attemptRedirectedRefs ==
    ASSUME Inv, RefInv, NEW c \in Conn, NEW eps, attemptRedirected(c, eps) PROVE RefInv'
  <1>. DEFINE r == [conn[c] EXCEPT !.attempt = "closed", !.open = FALSE]
  <1>0. IsRecord(conn[c], ConnFields)
    BY ConnFieldsOf
  <1>1. conn' = [conn EXCEPT ![c] = r] /\ table' = table /\ import_table' = import_table
    BY DEF attemptRedirected, Set, resource
  <1>2. /\ r.attempt = "closed" /\ r.peer = conn[c].peer
        /\ r.usage = conn[c].usage
    BY <1>0 DEF IsRecord, ConnFields
  <1>3. conn[c].attempt = "connected"
    BY DEF attemptRedirected
  <1>4. Keeps(conn[c], r)
    BY <1>2, <1>3 DEF Keeps
  <1>. HIDE DEF r
  <1>. QED  BY <1>1, <1>4, SetKeeps, Zenon

LEMMA attemptOnClosedRefs ==
    ASSUME Inv, RefInv, NEW c \in Conn, attemptOnClosed(c) PROVE RefInv'
  <1>. DEFINE r == [conn[c] EXCEPT !.attempt = "reported"]
  <1>0. IsRecord(conn[c], ConnFields)
    BY ConnFieldsOf
  <1>1. conn' = [conn EXCEPT ![c] = r] /\ table' = table /\ import_table' = import_table
    BY DEF attemptOnClosed, Set, resource
  <1>2. /\ r.attempt = "reported" /\ r.peer = conn[c].peer
        /\ r.usage = conn[c].usage
    BY <1>0 DEF IsRecord, ConnFields
  <1>3. conn[c].attempt = "closed"
    BY DEF attemptOnClosed
  <1>4. Keeps(conn[c], r)
    BY <1>2, <1>3 DEF Keeps
  <1>. HIDE DEF r
  <1>. QED  BY <1>1, <1>4, SetKeeps, Zenon

LEMMA lateTimerRefs ==
    ASSUME Inv, RefInv, NEW c \in Conn, lateTimer(c) PROVE RefInv'
  <1>. DEFINE r == [conn[c] EXCEPT !.late = FALSE, !.open = FALSE]
  <1>0. IsRecord(conn[c], ConnFields)
    BY ConnFieldsOf
  <1>1. conn' = [conn EXCEPT ![c] = r] /\ table' = table /\ import_table' = import_table
    BY DEF lateTimer, Set, resource
  <1>2. /\ r.attempt = conn[c].attempt /\ r.peer = conn[c].peer
        /\ r.usage = conn[c].usage
    BY <1>0 DEF IsRecord, ConnFields
  <1>3. Keeps(conn[c], r)
    BY <1>2 DEF Keeps
  <1>. HIDE DEF r
  <1>. QED  BY <1>1, <1>3, SetKeeps, Zenon

LEMMA runRefs ==
    ASSUME Inv, RefInv, NEW c \in Conn, run(c) PROVE RefInv'
  <1>. DEFINE r == [conn[c] EXCEPT !.peer = "up"]
  <1>0. IsRecord(conn[c], ConnFields)
    BY ConnFieldsOf
  <1>1. conn' = [conn EXCEPT ![c] = r] /\ table' = table /\ import_table' = import_table
    BY DEF run, Set, resource
  <1>2. /\ r.attempt = conn[c].attempt /\ r.peer = "up"
        /\ r.usage = conn[c].usage
    BY <1>0 DEF IsRecord, ConnFields
  <1>3. conn[c].peer = "posted"
    BY DEF run
  <1>4. Keeps(conn[c], r)
    BY <1>2, <1>3 DEF Keeps
  <1>. HIDE DEF r
  <1>. QED  BY <1>1, <1>4, SetKeeps, Zenon

LEMMA closeRefs ==
    ASSUME Inv, RefInv, NEW c \in Conn, close(c) PROVE RefInv'
  <1>. DEFINE r == [conn[c] EXCEPT !.open = FALSE]
  <1>0. IsRecord(conn[c], ConnFields)
    BY ConnFieldsOf
  <1>1. conn' = [conn EXCEPT ![c] = r] /\ table' = table /\ import_table' = import_table
    BY DEF close, Set, resource
  <1>2. /\ r.attempt = conn[c].attempt /\ r.peer = conn[c].peer
        /\ r.usage = conn[c].usage
    BY <1>0 DEF IsRecord, ConnFields
  <1>3. Keeps(conn[c], r)
    BY <1>2 DEF Keeps
  <1>. HIDE DEF r
  <1>. QED  BY <1>1, <1>3, SetKeeps, Zenon

LEMMA peerStopRefs ==
    ASSUME Inv, RefInv, NEW c \in Conn, peerStop(c) PROVE RefInv'
  <1>. DEFINE r == [conn[c] EXCEPT !.open = FALSE]
  <1>0. IsRecord(conn[c], ConnFields)
    BY ConnFieldsOf
  <1>1. conn' = [conn EXCEPT ![c] = r] /\ table' = table /\ import_table' = import_table
    BY DEF peerStop, Set, resource
  <1>2. /\ r.attempt = conn[c].attempt /\ r.peer = conn[c].peer
        /\ r.usage = conn[c].usage
    BY <1>0 DEF IsRecord, ConnFields
  <1>3. Keeps(conn[c], r)
    BY <1>2 DEF Keeps
  <1>. HIDE DEF r
  <1>. QED  BY <1>1, <1>3, SetKeeps, Zenon

LEMMA attemptStopRefs ==
    ASSUME Inv, RefInv, NEW c \in Conn, attemptStop(c) PROVE RefInv'
  <1>. DEFINE r == [conn[c] EXCEPT !.open = FALSE,
                                  !.attempt = IF Trying(c) THEN "closed" ELSE @]
  <1>0. IsRecord(conn[c], ConnFields)
    BY ConnFieldsOf
  <1>1. conn' = [conn EXCEPT ![c] = r] /\ table' = table /\ import_table' = import_table
    BY DEF attemptStop, Set, resource
  <1>2. /\ r.attempt = (IF Trying(c) THEN "closed" ELSE conn[c].attempt) /\ r.peer = conn[c].peer
        /\ r.usage = conn[c].usage
    BY <1>0 DEF IsRecord, ConnFields
  <1>3. conn[c].attempt \in {"connecting", "connected", "moved", "closed"}
    BY DEF attemptStop
  <1>4. Keeps(conn[c], r)
    BY <1>2, <1>3 DEF Keeps
  <1>. HIDE DEF r
  <1>. QED  BY <1>1, <1>4, SetKeeps, Zenon

LEMMA onHandshakeRefs ==
    ASSUME Inv, RefInv, NEW c \in Conn, NEW local, onHandshake(c, local) PROVE RefInv'
  <1>0. IsRecord(conn[c], ConnFields)
    BY ConnFieldsOf
  <1>1. /\ conn[c].attempt = "connecting" /\ table' = table /\ import_table' = import_table
        /\ \/ conn' = [conn EXCEPT ![c] = [conn[c] EXCEPT !.attempt = "closed", !.open = FALSE]]
           \/ conn' = [conn EXCEPT ![c] = [conn[c] EXCEPT !.attempt = "connected"]]
    BY DEF onHandshake, Set, resource
  <1>2. Keeps(conn[c], [conn[c] EXCEPT !.attempt = "closed", !.open = FALSE])
    BY <1>0, <1>1 DEF IsRecord, ConnFields, Keeps
  <1>3. Keeps(conn[c], [conn[c] EXCEPT !.attempt = "connected"])
    BY <1>0, <1>1 DEF IsRecord, ConnFields, Keeps
  <1>. QED  BY <1>1, <1>2, <1>3, SetKeeps, Zenon

LEMMA processResponseRefs ==
    ASSUME Inv, RefInv, NEW c \in Conn, NEW k, processResponse(c, k) PROVE RefInv'
  <1>0. IsRecord(conn[c], ConnFields)
    BY ConnFieldsOf
  <1>1. /\ conn[c].attempt = "connected" /\ table' = table /\ import_table' = import_table
        /\ \/ conn' = [conn EXCEPT ![c] = [conn[c] EXCEPT !.attempt = "closed", !.open = FALSE]]
           \/ conn' = [conn EXCEPT ![c] = [conn[c] EXCEPT !.attempt = "activated", !.key = k]]
    BY DEF processResponse, Set, resource
  <1>2. Keeps(conn[c], [conn[c] EXCEPT !.attempt = "closed", !.open = FALSE])
    BY <1>0, <1>1 DEF IsRecord, ConnFields, Keeps
  <1>3. Keeps(conn[c], [conn[c] EXCEPT !.attempt = "activated", !.key = k])
    BY <1>0, <1>1 DEF IsRecord, ConnFields, Keeps
  <1>. QED  BY <1>1, <1>2, <1>3, SetKeeps, Zenon

\* The peer's consumer is destroyed, or the attempt's.
LEMMA DropRefs ==
    ASSUME Inv, RefInv, NEW c \in Conn, NEW r, conn' = [conn EXCEPT ![c] = r],
           table' = release(table, conn[c].usage), import_table' = import_table,
           r.usage = conn[c].usage,
           \/ /\ r.peer = "gone" /\ conn[c].peer \notin {"none", "gone"}
              /\ r.attempt = conn[c].attempt
           \/ /\ r.attempt = "gone" /\ conn[c].attempt \notin {"none", "gone"}
              /\ r.peer = conn[c].peer
    PROVE  RefInv'
  <1>. DEFINE k == conn[c].usage
  <1>1. k \in EntryKey
    BY Zenon DEF RefInv, AttemptHolds, PeerHolds
  <1>2. Lifts(k, r, conn[c])
    BY LiftPeer, LiftAttempt, Zenon
  <1>3. conn'[c] = r /\ But(c, conn, conn')
    BY ConnBut, Zenon
  <1>4. UsageKnown(conn'[c])
    BY <1>1, <1>3, Zenon DEF UsageKnown
  <1>. HIDE DEF k
  <1>5. IsRecord(table', EntryKey) /\ AllTallied(table', conn', import_table)
    <2>1. table' = release(table, k)
      BY DEF k
    <2>2. IsRecord(table, EntryKey) /\ AllTallied(table, conn, import_table) /\ Lifts(k, conn'[c], conn[c])
      BY <1>2, <1>3, Zenon DEF RefInv
    <2>. QED  BY <1>1, <1>3, <2>1, <2>2, releaseRefs, Zenon
  <1>. QED  BY <1>3, <1>4, <1>5, RefStep, Zenon

LEMMA handoffRefusedRefs ==
    ASSUME Inv, RefInv, NEW c \in Conn, handoffRefused(c) PROVE RefInv'
  <1>. DEFINE r == [conn[c] EXCEPT !.peer = "gone", !.open = FALSE]
  <1>0. IsRecord(conn[c], ConnFields)
    BY ConnFieldsOf
  <1>1. /\ conn' = [conn EXCEPT ![c] = r] /\ table' = release(table, conn[c].usage)
        /\ import_table' = import_table /\ conn[c].peer = "handoff"
    BY DEF handoffRefused, Set
  <1>2. r.attempt = conn[c].attempt /\ r.peer = "gone" /\ r.usage = conn[c].usage
    BY <1>0 DEF IsRecord, ConnFields
  <1>. HIDE DEF r
  <1>3. conn[c].peer \notin {"none", "gone"}
    BY <1>1
  <1>. QED  BY <1>1, <1>2, <1>3, DropRefs, Zenon

LEMMA handoffActivateRefs ==
    ASSUME Inv, RefInv, NEW c \in Conn, NEW k, handoffActivate(c, k) PROVE RefInv'
  <1>0. IsRecord(conn[c], ConnFields)
    BY ConnFieldsOf
  <1>1. conn[c].peer = "handoff" /\ import_table' = import_table
    BY DEF handoffActivate
  <1>2. CASE Activatable(c, k)
    <2>1. /\ conn' = [conn EXCEPT ![c] = [conn[c] EXCEPT !.peer = "activated", !.key = k]]
          /\ table' = table
      BY <1>2 DEF handoffActivate, Set
    <2>2. Keeps(conn[c], [conn[c] EXCEPT !.peer = "activated", !.key = k])
      BY <1>0, <1>1 DEF IsRecord, ConnFields, Keeps
    <2>. QED  BY <1>1, <2>1, <2>2, SetKeeps, Zenon
  <1>3. CASE ~Activatable(c, k)
    <2>. DEFINE r == [conn[c] EXCEPT !.peer = "gone", !.open = FALSE]
    <2>1. conn' = [conn EXCEPT ![c] = r] /\ table' = release(table, conn[c].usage)
      BY <1>3 DEF handoffActivate, Set
    <2>2. r.attempt = conn[c].attempt /\ r.peer = "gone" /\ r.usage = conn[c].usage
      BY <1>0 DEF IsRecord, ConnFields
    <2>. HIDE DEF r
    <2>3. conn[c].peer \notin {"none", "gone"}
      BY <1>1
    <2>. QED  BY <1>1, <2>1, <2>2, <2>3, DropRefs, Zenon
  <1>. QED  BY <1>2, <1>3

LEMMA attemptRemoveRefs ==
    ASSUME Inv, RefInv, NEW c \in Conn, attemptRemove(c) PROVE RefInv'
  <1>. DEFINE r == [conn[c] EXCEPT !.attempt = "gone"]
  <1>0. IsRecord(conn[c], ConnFields)
    BY ConnFieldsOf
  <1>1. /\ conn' = [conn EXCEPT ![c] = r] /\ table' = release(table, conn[c].usage)
        /\ import_table' = import_table /\ conn[c].attempt \in {"reported", "moved"}
    BY DEF attemptRemove, Set
  <1>2. r.attempt = "gone" /\ r.peer = conn[c].peer /\ r.usage = conn[c].usage
    BY <1>0 DEF IsRecord, ConnFields
  <1>. HIDE DEF r
  <1>3. conn[c].attempt \notin {"none", "gone"}
    BY <1>1
  <1>. QED  BY <1>1, <1>2, <1>3, DropRefs, Zenon

LEMMA destroyRefs ==
    ASSUME Inv, RefInv, NEW c \in Conn, destroy(c) PROVE RefInv'
  <1>0. IsRecord(conn[c], ConnFields)
    BY ConnFieldsOf
  <1>1. import_table' = import_table
    BY DEF destroy
  <1>2. ASSUME NEW p \in {"deactivated", "reported", "removed"},
               conn[c].peer \in {"up", "deactivated", "reported"}, table' = table,
               conn' = [conn EXCEPT ![c] = [conn[c] EXCEPT !.peer = p]]
        PROVE  RefInv'
    <2>1. Keeps(conn[c], [conn[c] EXCEPT !.peer = p])
      BY <1>0, <1>2 DEF IsRecord, ConnFields, Keeps
    <2>. QED  BY <1>1, <1>2, <2>1, SetKeeps, Zenon
  <1>3. ASSUME conn[c].peer = "removed", table' = release(table, conn[c].usage),
               conn' = [conn EXCEPT ![c] = [conn[c] EXCEPT !.peer = "gone"]]
        PROVE  RefInv'
    <2>. DEFINE r == [conn[c] EXCEPT !.peer = "gone"]
    <2>1. r.attempt = conn[c].attempt /\ r.peer = "gone" /\ r.usage = conn[c].usage
      BY <1>0 DEF IsRecord, ConnFields
    <2>2. conn[c].peer \notin {"none", "gone"} /\ conn' = [conn EXCEPT ![c] = r]
      BY <1>3
    <2>. HIDE DEF r
    <2>. QED  BY <1>1, <1>3, <2>1, <2>2, DropRefs, Zenon
  <1>. QED  BY <1>2, <1>3 DEF destroy, Set, Over

\* The attempt's consumer is copied for the peer.
LEMMA add_activeRefs ==
    ASSUME Inv, RefInv, NEW c \in Conn, NEW late, add_active(c, late) PROVE RefInv'
  <1>. DEFINE r == [conn[c] EXCEPT !.attempt = "moved", !.peer = "posted", !.late = late]
             k == conn[c].usage
  <1>0. IsRecord(conn[c], ConnFields)
    BY ConnFieldsOf
  <1>1. /\ conn' = [conn EXCEPT ![c] = r] /\ table' = acquire(table, k)
        /\ import_table' = import_table /\ conn[c].attempt = "activated"
    BY DEF add_active, Set
  <1>2. conn[c].peer = "none"
    BY <1>1 DEF Inv, Sound
  <1>3. r.attempt = "moved" /\ r.peer = "posted" /\ r.usage = k
    BY <1>0 DEF IsRecord, ConnFields
  <1>. HIDE DEF r
  <1>4. k \in EntryKey
    BY <1>1 DEF RefInv, AttemptHolds
  <1>5. Lifts(k, conn[c], r)
    <2>1. /\ conn[c].peer \in {"none", "gone"} /\ r.peer \notin {"none", "gone"}
          /\ conn[c].attempt \notin {"none", "gone"} /\ r.attempt \notin {"none", "gone"}
      BY <1>1, <1>2, <1>3
    <2>. QED  BY <1>3, <2>1, LiftPeer, Zenon
  <1>6. HoldWeight(k, conn[c]) > 0
    BY <1>1, <1>2 DEF HoldWeight, AttemptWeight, PeerWeight
  <1>. HIDE DEF k
  <1>7. conn'[c] = r /\ But(c, conn, conn')
    BY <1>1, ConnBut, Zenon
  <1>8. IsRecord(table', EntryKey) /\ AllTallied(table', conn', import_table)
    <2>1. IsRecord(table, EntryKey) /\ AllTallied(table, conn, import_table) /\ Lifts(k, conn[c], conn'[c])
      BY <1>5, <1>7, Zenon DEF RefInv
    <2>. QED  BY <1>1, <1>4, <1>6, <1>7, <2>1, acquireRefs, Zenon
  <1>9. UsageKnown(conn'[c])
    BY <1>3, <1>4, <1>7, Zenon DEF UsageKnown
  <1>. QED  BY <1>1, <1>7, <1>8, <1>9, RefStep, Zenon

LEMMA chargePeerRefs ==
    ASSUME Inv, RefInv, NEW c \in Conn, NEW onStrand, chargePeer(c, onStrand) PROVE RefInv'
  <1>. DEFINE k == conn[c].usage
             t1 == charge(table, k, 1)
  <1>0. IsRecord(conn[c], ConnFields)
    BY ConnFieldsOf
  <1>1. conn[c].peer = "up" /\ import_table' = import_table /\ table' = disconnect(t1, k)
    BY DEF chargePeer
  <1>2. PICK b : conn' = [conn EXCEPT ![c] = [conn[c] EXCEPT !.open = b]]
    BY DEF chargePeer, Set
  <1>3. Keeps(conn[c], [conn[c] EXCEPT !.open = b])
    BY <1>0 DEF IsRecord, ConnFields, Keeps
  <1>4. k \in EntryKey
    BY <1>1 DEF RefInv, PeerHolds
  <1>5. HoldWeight(k, conn[c]) > 0
    BY <1>1 DEF HoldWeight, AttemptWeight, PeerWeight
  <1>. HIDE DEF k
  <1>6. table[k] # Absent /\ IsRecord(table, EntryKey) /\ AllTallied(table, conn, import_table)
    BY <1>4, <1>5, HeldPresent, Zenon DEF RefInv
  <1>7. 1 \in Int
    OBVIOUS
  <1>8. IsRecord(t1, EntryKey) /\ AllTallied(t1, conn, import_table) /\ t1[k] # Absent
    BY <1>4, <1>6, <1>7, chargeRefs, Zenon
  <1>. HIDE DEF t1
  <1>9. IsRecord(table', EntryKey) /\ AllTallied(table', conn, import_table)
    BY <1>1, <1>4, <1>8, disconnectRefs, Zenon
  <1>10. conn'[c] = [conn[c] EXCEPT !.open = b] /\ But(c, conn, conn')
    BY <1>2, ConnBut, Zenon
  <1>11. AllTallied(table', conn', import_table)
    BY <1>3, <1>9, <1>10, KeepTallied, Zenon
  <1>12. UsageKnown(conn'[c])
    BY <1>3, <1>10, Zenon DEF UsageKnown, Keeps, RefInv, AttemptHolds, PeerHolds
  <1>. QED  BY <1>1, <1>9, <1>10, <1>11, <1>12, RefStep, Zenon

LEMMA EntryKeys ==
    \A e \in Endpoint : InboundKey(e) \in EntryKey /\ OutboundKey(e) \in EntryKey
  BY OverlayAssumption DEF EntryKey

LEMMA onHandoffRefs ==
    ASSUME Inv, RefInv, NEW c \in Conn, NEW e \in Endpoint, onHandoff(c, e) PROVE RefInv'
  <1>. DEFINE k  == InboundKey(e)
             t1 == newEndpoint(table, k)
  <1>0. IsRecord(conn[c], ConnFields)
    BY ConnFieldsOf
  <1>1. /\ import_table' = import_table
        /\ conn[c].attempt = "none" /\ conn[c].peer = "none"
        /\ \/ /\ table' = release(disconnect(t1, k), k)
              /\ conn' = [conn EXCEPT ![c] = [conn[c] EXCEPT !.peer = "gone"]]
           \/ /\ table' = t1
              /\ conn' = [conn EXCEPT ![c] =
                    [conn[c] EXCEPT !.peer = "handoff", !.open = TRUE, !.e = e, !.usage = k]]
    BY DEF onHandoff, Set, NextOf, Free
  <1>2. k \in EntryKey
    BY EntryKeys
  <1>3. IsRecord(table, EntryKey) /\ AllTallied(table, conn, import_table)
    BY DEF RefInv
  <1>. HIDE DEF k
  <1>4. CASE /\ table' = release(disconnect(t1, k), k)
             /\ conn' = [conn EXCEPT ![c] = [conn[c] EXCEPT !.peer = "gone"]]
    <2>1. Keeps(conn[c], [conn[c] EXCEPT !.peer = "gone"])
      BY <1>0, <1>1 DEF IsRecord, ConnFields, Keeps
    <2>2. conn'[c] = [conn[c] EXCEPT !.peer = "gone"] /\ But(c, conn, conn')
      BY <1>4, ConnBut, Zenon
    <2>3. IsRecord(table', EntryKey) /\ AllTallied(table', conn, import_table)
      BY <1>2, <1>3, <1>4, refusedRefs, Zenon
    <2>4. AllTallied(table', conn', import_table)
      BY <2>1, <2>2, <2>3, KeepTallied, Zenon
    <2>5. UsageKnown(conn'[c])
      BY <2>1, <2>2, Zenon DEF UsageKnown, Keeps, RefInv, AttemptHolds, PeerHolds
    <2>. QED  BY <1>1, <2>2, <2>3, <2>4, <2>5, RefStep, Zenon
  <1>5. CASE /\ table' = t1
             /\ conn' = [conn EXCEPT ![c] =
                    [conn[c] EXCEPT !.peer = "handoff", !.open = TRUE, !.e = e, !.usage = k]]
    <2>. DEFINE r == [conn[c] EXCEPT !.peer = "handoff", !.open = TRUE, !.e = e, !.usage = k]
    <2>1. r.attempt = "none" /\ r.peer = "handoff" /\ r.usage = k
      BY <1>0, <1>1 DEF IsRecord, ConnFields
    <2>. HIDE DEF r
    <2>2. conn'[c] = r /\ But(c, conn, conn')
      BY <1>5, ConnBut, Zenon DEF r
    <2>3. Lifts(k, conn[c], conn'[c])
      <3>1. /\ conn[c].peer \in {"none", "gone"} /\ r.peer \notin {"none", "gone"}
            /\ conn[c].attempt \in {"none", "gone"} /\ r.attempt \in {"none", "gone"}
        BY <1>1, <2>1
      <3>. QED  BY <2>1, <2>2, <3>1, LiftPeer, Zenon
    <2>4. IsRecord(table', EntryKey) /\ AllTallied(table', conn', import_table)
      BY <1>2, <1>3, <1>5, <2>2, <2>3, newEndpointRefs, Zenon
    <2>5. UsageKnown(conn'[c])
      BY <1>2, <2>1, <2>2, Zenon DEF UsageKnown
    <2>. QED  BY <1>1, <2>2, <2>4, <2>5, RefStep, Zenon
  <1>. QED  BY <1>1, <1>4, <1>5, Zenon

LEMMA connectRefs ==
    ASSUME Inv, RefInv, NEW c \in Conn, NEW e \in Endpoint, connect(c, e) PROVE RefInv'
  <1>. DEFINE k  == OutboundKey(e)
             t1 == newEndpoint(table, k)
  <1>0. IsRecord(conn[c], ConnFields)
    BY ConnFieldsOf
  <1>1. /\ import_table' = import_table
        /\ conn[c].attempt = "none" /\ conn[c].peer = "none"
        /\ \/ table' = release(disconnect(t1, k), k) /\ conn' = conn
           \/ /\ table' = t1
              /\ conn' = [conn EXCEPT ![c] =
                    [conn[c] EXCEPT !.attempt = "connecting", !.open = TRUE, !.e = e, !.usage = k]]
    BY DEF connect, Set, NextOf, Free
  <1>2. k \in EntryKey
    BY EntryKeys
  <1>3. IsRecord(table, EntryKey) /\ AllTallied(table, conn, import_table)
    BY DEF RefInv
  <1>. HIDE DEF k
  <1>4. CASE table' = release(disconnect(t1, k), k) /\ conn' = conn
    <2>1. IsRecord(table', EntryKey) /\ AllTallied(table', conn, import_table)
      BY <1>2, <1>3, <1>4, refusedRefs, Zenon
    <2>2. AllTallied(table', conn', import_table) /\ But(c, conn, conn')
      BY <1>4, <2>1, Zenon DEF But
    <2>3. UsageKnown(conn'[c])
      BY <1>4, Zenon DEF UsageKnown, RefInv, AttemptHolds, PeerHolds
    <2>. QED  BY <1>1, <2>1, <2>2, <2>3, RefStep, Zenon
  <1>5. CASE /\ table' = t1
             /\ conn' = [conn EXCEPT ![c] =
                    [conn[c] EXCEPT !.attempt = "connecting", !.open = TRUE, !.e = e, !.usage = k]]
    <2>. DEFINE r == [conn[c] EXCEPT !.attempt = "connecting", !.open = TRUE, !.e = e, !.usage = k]
    <2>1. r.attempt = "connecting" /\ r.peer = "none" /\ r.usage = k
      BY <1>0, <1>1 DEF IsRecord, ConnFields
    <2>. HIDE DEF r
    <2>2. conn'[c] = r /\ But(c, conn, conn')
      BY <1>5, ConnBut, Zenon DEF r
    <2>3. Lifts(k, conn[c], conn'[c])
      <3>1. /\ conn[c].attempt \in {"none", "gone"} /\ r.attempt \notin {"none", "gone"}
            /\ conn[c].peer \in {"none", "gone"} /\ r.peer \in {"none", "gone"}
        BY <1>1, <2>1
      <3>. QED  BY <2>1, <2>2, <3>1, LiftAttempt, Zenon
    <2>4. IsRecord(table', EntryKey) /\ AllTallied(table', conn', import_table)
      BY <1>2, <1>3, <1>5, <2>2, <2>3, newEndpointRefs, Zenon
    <2>5. UsageKnown(conn'[c])
      BY <1>2, <2>1, <2>2, Zenon DEF UsageKnown
    <2>. QED  BY <1>1, <2>2, <2>4, <2>5, RefStep, Zenon
  <1>. QED  BY <1>1, <1>4, <1>5, Zenon

-----------------------------------------------------------------------------
(* Imports *)

\* Only the imports change.
LEMMA ImportStep ==
    ASSUME RefInv, conn' = conn, IsRecord(table', EntryKey), IsRecord(import_table', Origin),
           \A o \in Origin : import_table'[o] # Absent =>
              import_table'[o] \subseteq Endpoint /\ IsFiniteSet(import_table'[o]),
           \A k \in EntryKey : /\ IsFiniteSet(ImportRefs(import_table', k))
                               /\ Tallied(table'[k], Refs(conn, import_table', k), Imports(import_table', k))
    PROVE  RefInv'
  <1>1. AllTallied(table', conn, import_table')
    <2>. SUFFICES ASSUME NEW k \in EntryKey
                  PROVE  /\ RefsFinite(conn, import_table', k)
                         /\ Tallied(table'[k], Refs(conn, import_table', k), Imports(import_table', k))
      BY Zenon DEF AllTallied, Refs
    <2>1. RefsFinite(conn, import_table, k)
      BY TalliedAt, Zenon DEF RefInv
    <2>. QED  BY <2>1, Zenon DEF RefsFinite
  <1>2. \A d \in Conn : (AttemptHolds(d) \/ PeerHolds(d) => conn[d].usage \in EntryKey)'
    BY Zenon DEF RefInv, AttemptHolds, PeerHolds
  <1>3. AllTallied(table', conn', import_table')
    BY <1>1, Zenon
  <1>. QED  BY <1>2, <1>3, Zenon DEF RefInv

LEMMA Row ==
    ASSUME NEW o, NEW S, IsFiniteSet(S)
    PROVE  IsFiniteSet({o} \X S) /\ Cardinality({o} \X S) = Cardinality(S)
  <1>1. IsFiniteSet({o}) /\ Cardinality({o}) = 1
    BY FS_Singleton
  <1>2. IsFiniteSet({o} \X S) /\ Cardinality({o} \X S) = Cardinality({o}) * Cardinality(S)
    BY <1>1, FS_Product
  <1>3. Cardinality(S) \in Nat
    BY FS_CardinalityType
  <1>. QED  BY <1>1, <1>2, <1>3

LEMMA DisjointUnion ==
    ASSUME NEW S, IsFiniteSet(S), NEW T, IsFiniteSet(T), S \cap T = {}
    PROVE  IsFiniteSet(S \cup T) /\ Cardinality(S \cup T) = Cardinality(S) + Cardinality(T)
  <1>1. Cardinality({}) = 0
    BY FS_EmptySet
  <1>2. Cardinality(S) \in Nat /\ Cardinality(T) \in Nat
    BY FS_CardinalityType
  <1>3. /\ IsFiniteSet(S \cup T)
        /\ Cardinality(S \cup T) = Cardinality(S) + Cardinality(T) - Cardinality(S \cap T)
    BY FS_Union, Zenon
  <1>4. Cardinality(S \cap T) = 0
    BY <1>1, Zenon
  <1>. QED  BY <1>2, <1>3, <1>4

ImportsMove(k, it, im, by) ==
    /\ IsFiniteSet(ImportRefs(im, k)) /\ Imports(im, k) \in Nat
    /\ Imports(im, k) = Imports(it, k) + by

\* The items of one origin are replaced.
LEMMA ImportsReplaced ==
    ASSUME RefInv, NEW o \in Origin, NEW g, g \subseteq Endpoint, IsFiniteSet(g), g # Absent,
           NEW im, im = [import_table EXCEPT ![o] = g], NEW k \in EntryKey
    PROVE  /\ Items(g, k) \in Nat /\ Items(Previous(o), k) \in Nat
           /\ Items(Previous(o), k) <= Imports(import_table, k)
           /\ ImportsMove(k, import_table, im, Items(g, k) - Items(Previous(o), k))
  <1>. DEFINE P == Previous(o)
             A == {e \in g : InboundKey(e) = k}
             D == {e \in P : InboundKey(e) = k}
             R == {q \in ImportRefs(import_table, k) : q[1] # o}
  <1>1. P \subseteq Endpoint /\ IsFiniteSet(P)
    BY FS_EmptySet DEF Previous, RefInv
  <1>2. IsFiniteSet(A) /\ IsFiniteSet(D)
    BY <1>1, FS_Subset
  <1>3. IsFiniteSet(ImportRefs(import_table, k))
    BY TalliedAt, Zenon DEF RefInv, RefsFinite
  <1>4. IsFiniteSet(R)
    BY <1>3, FS_Subset
  <1>5. ImportRefs(import_table, k) = R \cup ({o} \X D)
    <2>1. ASSUME NEW q PROVE q \in ImportRefs(import_table, k) => q \in R \cup ({o} \X D)
      BY DEF ImportRefs, Previous
    <2>2. {o} \X D \subseteq ImportRefs(import_table, k)
      BY <1>1 DEF ImportRefs, Previous
    <2>. QED  BY <2>1, <2>2
  <1>6. ImportRefs(im, k) = R \cup ({o} \X A)
    <2>0. im[o] = g /\ \A p \in Origin \ {o} : im[p] = import_table[p]
      BY DEF RefInv, IsRecord
    <2>1. ASSUME NEW q PROVE q \in ImportRefs(im, k) => q \in R \cup ({o} \X A)
      BY <2>0 DEF ImportRefs
    <2>2. {o} \X A \subseteq ImportRefs(im, k)
      BY <2>0 DEF ImportRefs
    <2>3. R \subseteq ImportRefs(im, k)
      BY <2>0 DEF ImportRefs
    <2>. QED  BY <2>1, <2>2, <2>3
  <1>7. R \cap ({o} \X D) = {} /\ R \cap ({o} \X A) = {}
    OBVIOUS
  <1>8. Items(g, k) = Cardinality(A) /\ Items(Previous(o), k) = Cardinality(D)
    BY DEF Items
  <1>. HIDE DEF R, A, D, P
  <1>9. /\ IsFiniteSet({o} \X A) /\ Cardinality({o} \X A) = Cardinality(A)
        /\ IsFiniteSet({o} \X D) /\ Cardinality({o} \X D) = Cardinality(D)
    BY <1>2, Row
  <1>10. /\ Cardinality(R) \in Nat /\ Cardinality(A) \in Nat /\ Cardinality(D) \in Nat
    BY <1>2, <1>4, FS_CardinalityType
  <1>11. Cardinality(ImportRefs(import_table, k)) = Cardinality(R) + Cardinality(D)
    BY <1>4, <1>5, <1>7, <1>9, DisjointUnion
  <1>12. IsFiniteSet(ImportRefs(im, k)) /\ Cardinality(ImportRefs(im, k)) = Cardinality(R) + Cardinality(A)
    <2>1. /\ IsFiniteSet(R \cup ({o} \X A))
          /\ Cardinality(R \cup ({o} \X A)) = Cardinality(R) + Cardinality({o} \X A)
      BY <1>4, <1>7, <1>9, DisjointUnion, Zenon
    <2>. QED  BY <1>6, <1>9, <2>1, Zenon
  <1>. QED  BY <1>8, <1>10, <1>11, <1>12 DEF ImportsMove, Imports

LEMMA onClusterRefs ==
    ASSUME Inv, RefInv, NEW c \in Conn, NEW o \in Origin, NEW gossip \in setup.gossip,
           onCluster(c, o, gossip)
    PROVE  RefInv'
  <1>. DEFINE P == Previous(o)
  <1>0. /\ gossip \subseteq Endpoint /\ IsFiniteSet(gossip) /\ gossip # Absent
    BY OverlayAssumption DEF Inv, Types
  <1>1. /\ conn' = conn /\ import_table' = [import_table EXCEPT ![o] = gossip]
        /\ table' = Exchanged(table, gossip, P)
    BY DEF onCluster, overlay, importConsumers
  <1>. HIDE DEF P
  <1>2. IsRecord(table', EntryKey)
    BY <1>1 DEF Exchanged, IsRecord
  <1>3. /\ IsRecord(import_table', Origin)
        /\ \A p \in Origin : import_table'[p] # Absent =>
              import_table'[p] \subseteq Endpoint /\ IsFiniteSet(import_table'[p])
    BY <1>0, <1>1 DEF RefInv, IsRecord
  <1>4. ASSUME NEW k \in EntryKey
        PROVE  /\ IsFiniteSet(ImportRefs(import_table', k))
               /\ Tallied(table'[k], Refs(conn, import_table', k), Imports(import_table', k))
    <2>. DEFINE a  == Items(gossip, k)
               d  == Items(P, k)
               by == a - d
               n  == Refs(conn, import_table, k)
               i  == Imports(import_table, k)
               entry == IF table[k] = Absent /\ a > 0 THEN NewEntry ELSE table[k]
               b  == entry.refcount + by = 0
               v  == [entry EXCEPT !.refcount = @ + by, !.remote_balance = @ + by, !.inactive = b]
    <2>1. a \in Nat /\ d \in Nat /\ d <= i /\ ImportsMove(k, import_table, import_table', by)
      BY <1>0, <1>1, ImportsReplaced, Zenon DEF P
    <2>2. Tallied(table[k], n, i) /\ Holders(conn, k) \in Nat /\ i \in Nat /\ n \in Nat /\ i <= n
      BY TalliedAt, Zenon DEF RefInv
    <2>3. table'[k] = IF a = 0 /\ d = 0 THEN table[k] ELSE v
      BY <1>1, Zenon DEF Exchanged
    <2>4. /\ IsFiniteSet(ImportRefs(import_table', k))
          /\ Imports(import_table', k) = i + by
          /\ Refs(conn, import_table', k) = n + by
      <3>1. IsFiniteSet(ImportRefs(import_table', k)) /\ Imports(import_table', k) = i + by
        BY <2>1 DEF ImportsMove
      <3>2. n = Holders(conn, k) + i /\ Refs(conn, import_table', k) = Holders(conn, k) + Imports(import_table', k)
        BY DEF Refs
      <3>. HIDE DEF n, i, a, d
      <3>3. Refs(conn, import_table', k) = n + by
        BY <2>1, <2>2, <3>1, <3>2
      <3>. QED  BY <3>1, <3>3
    <2>5. CASE a = 0 /\ d = 0
      <3>. HIDE DEF n, i, a, d
      <3>1. i + by = i /\ n + by = n
        BY <2>2, <2>5
      <3>. QED  BY <2>2, <2>3, <2>4, <2>5, <3>1, Zenon
    <2>6. CASE ~(a = 0 /\ d = 0)
      <3>1. entry \in Entry /\ entry.refcount = n /\ entry.remote_balance = i
        <4>. HIDE DEF n, i, a, d
        <4>1. CASE table[k] = Absent
          <5>1. n = 0
            BY <2>2, <4>1, OverlayAssumption, Zenon DEF Tallied
          <5>2. i = 0 /\ a > 0
            BY <2>1, <2>2, <2>6, <5>1
          <5>. QED  BY <4>1, <5>1, <5>2, NewEntryIn, Zenon
        <4>2. CASE table[k] # Absent
          BY <2>2, <4>2, Zenon DEF Tallied
        <4>. QED  BY <4>1, <4>2, Zenon
      <3>2. b \in BOOLEAN
        OBVIOUS
      <3>. HIDE DEF n, i, a, d, entry
      <3>3. b = (n + by = 0)
        BY <3>1, Zenon
      <3>4. /\ entry.refcount + by \in Int /\ entry.remote_balance + by \in Int
            /\ entry.refcount + by = n + by /\ entry.remote_balance + by = i + by
        BY <2>1, <2>2, <3>1
      <3>. HIDE DEF b, by
      <3>5. EntryIs(v, entry.refcount + by, entry.remote_balance + by, b)
        BY <3>1, <3>2, <3>4, EntryRewritten, Zenon
      <3>6. Tallied(v, n + by, i + by)
        BY <3>3, <3>4, <3>5, Zenon DEF EntryIs, Tallied
      <3>. HIDE DEF v
      <3>. QED  BY <2>3, <2>4, <2>6, <3>6, Zenon
    <2>. QED  BY <2>5, <2>6
  <1>. QED  BY <1>1, <1>2, <1>3, <1>4, ImportStep, Zenon

LEMMA groomRefs ==
    ASSUME Inv, RefInv, NEW entries, NEW origins, groom(entries, origins)
    PROVE  RefInv'
  <1>. DEFINE erased  == [k \in EntryKey |-> IF k \in entries THEN Absent ELSE table[k]]
             dropped == [o \in Origin |-> IF o \in origins THEN import_table[o] ELSE {}]
             D(k) == {q \in Origin \X ResEndpoint : q[2] \in dropped[q[1]] /\ InboundKey(q[2]) = k}
  <1>0. /\ entries \subseteq Inactive /\ origins \subseteq Imported /\ conn' = conn
        /\ import_table' = [o \in Origin |-> IF o \in origins THEN Absent ELSE import_table[o]]
        /\ table' = [k \in EntryKey |->
                       LET by == Cardinality(D(k))
                       IN  IF by = 0 THEN erased[k]
                           ELSE [erased[k] EXCEPT !.refcount = @ - by,
                                                  !.remote_balance = @ - by,
                                                  !.inactive = erased[k].refcount = by]]
    BY Zenon DEF groom, periodicActivity, overlay
  <1>1. IsRecord(table', EntryKey)
    BY <1>0, Zenon DEF IsRecord
  <1>2. /\ IsRecord(import_table', Origin)
        /\ \A p \in Origin : import_table'[p] # Absent =>
              import_table'[p] \subseteq Endpoint /\ IsFiniteSet(import_table'[p])
    BY <1>0 DEF RefInv, IsRecord
  <1>3. ASSUME NEW k \in EntryKey
        PROVE  /\ IsFiniteSet(ImportRefs(import_table', k))
               /\ Tallied(table'[k], Refs(conn, import_table', k), Imports(import_table', k))
    <2>. DEFINE by == Cardinality(D(k))
               n  == Refs(conn, import_table, k)
               i  == Imports(import_table, k)
               w  == erased[k]
               b  == w.refcount = by
               v  == [w EXCEPT !.refcount = @ - by, !.remote_balance = @ - by, !.inactive = b]
    <2>1. table'[k] = IF by = 0 THEN w ELSE v
      BY <1>0, Zenon
    <2>2. /\ Tallied(table[k], n, i) /\ Holders(conn, k) \in Nat /\ i \in Nat /\ n \in Nat /\ i <= n
          /\ IsFiniteSet(ImportRefs(import_table, k))
      BY TalliedAt, Zenon DEF RefInv, RefsFinite
    <2>3. /\ D(k) \subseteq ImportRefs(import_table, k)
          /\ ImportRefs(import_table', k) = ImportRefs(import_table, k) \ D(k)
      <3>1. \A o \in Origin : dropped[o] = IF o \in origins THEN import_table[o] ELSE {}
        OBVIOUS
      <3>2. \A o \in origins : o \in Origin /\ import_table[o] # Absent
        BY <1>0 DEF Imported
      <3>3. \A o \in Origin : import_table'[o] = IF o \in origins THEN Absent ELSE import_table[o]
        BY <1>0
      <3>. HIDE DEF dropped
      <3>4. D(k) \subseteq ImportRefs(import_table, k)
        BY <3>1, <3>2, OverlayAssumption DEF ImportRefs
      <3>5. ASSUME NEW q \in Origin \X Endpoint
            PROVE  q \in ImportRefs(import_table', k) <=> q \in ImportRefs(import_table, k) /\ q \notin D(k)
        BY <3>1, <3>2, <3>3, OverlayAssumption DEF ImportRefs
      <3>6. /\ ImportRefs(import_table', k) \subseteq Origin \X Endpoint
            /\ ImportRefs(import_table, k) \subseteq Origin \X Endpoint
        BY DEF ImportRefs
      <3>. QED  BY <3>4, <3>5, <3>6
    <2>4. /\ IsFiniteSet(ImportRefs(import_table', k)) /\ by \in Nat /\ by <= i
          /\ Imports(import_table', k) = i - by
      <3>. DEFINE I == ImportRefs(import_table, k)
                 S == D(k)
      <3>1. I \cap S = S /\ S \in SUBSET I
        BY <2>3, Zenon
      <3>2. ImportRefs(import_table', k) = I \ S
        BY <2>3, Zenon
      <3>3. by = Cardinality(S) /\ i = Cardinality(I)
        BY Zenon DEF Imports
      <3>4. IsFiniteSet(I)
        BY <2>2
      <3>. HIDE DEF I, S, by, i
      <3>5. IsFiniteSet(S) /\ Cardinality(S) <= Cardinality(I)
        BY <3>1, <3>4, FS_Subset, Zenon
      <3>6. IsFiniteSet(I \ S) /\ Cardinality(I \ S) = Cardinality(I) - Cardinality(I \cap S)
        BY <3>4, FS_Difference, Zenon
      <3>7. Cardinality(S) \in Nat
        BY <3>5, FS_CardinalityType
      <3>. QED  BY <3>1, <3>2, <3>3, <3>5, <3>6, <3>7, Zenon DEF Imports
    <2>5. Refs(conn, import_table', k) = n - by
      <3>1. n = Holders(conn, k) + i /\ Refs(conn, import_table', k) = Holders(conn, k) + Imports(import_table', k)
        BY DEF Refs
      <3>. HIDE DEF n, i, by
      <3>. QED  BY <2>2, <2>4, <3>1
    <2>6. k \in entries => table[k] # Absent /\ table[k].inactive
      BY <1>0 DEF Inactive
    <2>7. k \in entries => n = 0
      BY <2>2, <2>6, Zenon DEF Tallied
    <2>8. w = IF k \in entries THEN Absent ELSE table[k]
      BY Zenon
    <2>. HIDE DEF n, i, by, w
    <2>9. CASE by = 0
      <3>1. n - by = n /\ i - by = i
        BY <2>2, <2>9
      <3>2. Tallied(w, n, i)
        BY <2>2, <2>7, <2>8, Zenon DEF Tallied
      <3>. QED  BY <2>1, <2>4, <2>5, <2>9, <3>1, <3>2, Zenon
    <2>10. CASE by # 0
      <3>1. n # 0
        BY <2>2, <2>4, <2>10
      <3>2. w = table[k]
        BY <2>7, <2>8, <3>1, Zenon
      <3>3. w \in Entry /\ w.refcount = n /\ w.remote_balance = i
        BY <2>2, <3>1, <3>2, Zenon DEF Tallied
      <3>4. b \in BOOLEAN
        OBVIOUS
      <3>5. b = (n - by = 0)
        BY <2>2, <2>4, <3>3
      <3>6. /\ w.refcount - by \in Int /\ w.remote_balance - by \in Int
            /\ w.refcount - by = n - by /\ w.remote_balance - by = i - by
        BY <2>2, <2>4, <3>3
      <3>. HIDE DEF b
      <3>7. EntryIs(v, w.refcount - by, w.remote_balance - by, b)
        BY <3>3, <3>4, <3>6, EntryRewritten, Zenon
      <3>8. Tallied(v, n - by, i - by)
        BY <3>5, <3>6, <3>7, Zenon DEF EntryIs, Tallied
      <3>. HIDE DEF v
      <3>. QED  BY <2>1, <2>4, <2>5, <2>10, <3>8, Zenon
    <2>. QED  BY <2>9, <2>10
  <1>. HIDE DEF erased, dropped, D
  <1>. QED  BY <1>0, <1>1, <1>2, <1>3, ImportStep, Zenon

LEMMA coolRefs ==
    ASSUME Inv, RefInv, NEW k \in EntryKey, cool(k)
    PROVE  RefInv'
  <1>1. /\ table[k] # Absent /\ table' = charge(table, k, -1)
        /\ import_table' = import_table /\ conn' = conn
    BY DEF cool, decay, overlay
  <1>2. -1 \in Int
    OBVIOUS
  <1>3. IsRecord(table, EntryKey) /\ AllTallied(table, conn, import_table)
    BY DEF RefInv
  <1>4. IsRecord(table', EntryKey) /\ AllTallied(table', conn, import_table)
    BY <1>1, <1>2, <1>3, chargeRefs, Zenon
  <1>. QED  BY <1>1, <1>4, Zenon DEF RefInv, AttemptHolds, PeerHolds

LEMMA InitRefs == Init => RefInv
  <1>. SUFFICES ASSUME Init PROVE RefInv
    OBVIOUS
  <1>1. /\ table = [k \in EntryKey |-> Absent] /\ import_table = [o \in Origin |-> Absent]
        /\ conn = [c \in Conn |-> NewConn]
    BY DEF Init
  <1>2. \A c \in Conn : conn[c].attempt = "none" /\ conn[c].peer = "none"
    BY <1>1 DEF NewConn
  <1>3. ASSUME NEW k \in EntryKey
        PROVE  /\ AttemptRefs(conn, k) = {} /\ PeerRefs(conn, k) = {}
               /\ ImportRefs(import_table, k) = {}
    BY <1>1, <1>2 DEF AttemptRefs, PeerRefs, ImportRefs
  <1>4. IsFiniteSet({}) /\ Cardinality({}) = 0
    BY FS_EmptySet
  <1>5. AllTallied(table, conn, import_table)
    <2>. SUFFICES ASSUME NEW k \in EntryKey
                  PROVE  /\ RefsFinite(conn, import_table, k)
                         /\ Tallied(table[k], Holders(conn, k) + Imports(import_table, k), Imports(import_table, k))
      BY Zenon DEF AllTallied
    <2>1. RefsFinite(conn, import_table, k)
      BY <1>3, <1>4, Zenon DEF RefsFinite
    <2>2. Cardinality(AttemptRefs(conn, k)) = 0 /\ Cardinality(PeerRefs(conn, k)) = 0 /\ Imports(import_table, k) = 0
      BY <1>3, <1>4, Zenon DEF Imports
    <2>3. Holders(conn, k) + Imports(import_table, k) = 0
      BY <2>2 DEF Holders
    <2>4. table[k] = Absent
      BY <1>1
    <2>. QED  BY <2>1, <2>3, <2>4, Zenon DEF Tallied
  <1>6. \A c \in Conn : ~AttemptHolds(c) /\ ~PeerHolds(c)
    BY <1>2 DEF AttemptHolds, PeerHolds
  <1>7. IsRecord(table, EntryKey) /\ IsRecord(import_table, Origin)
    BY <1>1 DEF IsRecord
  <1>. QED  BY <1>1, <1>5, <1>6, <1>7 DEF RefInv

LEMMA NextRefs ==
    ASSUME Inv, SlotInv, RefInv, [Next]_vars
    PROVE  RefInv'
  <1>0. /\ setup.inConn \subseteq Conn /\ setup.outConn \subseteq Conn
        /\ setup.inEndpoints \subseteq Endpoint /\ toConnect \subseteq Endpoint
    BY OverlayAssumption DEF Inv, Types, SlotInv
  <1>1. CASE UNCHANGED vars
    BY <1>1, SameRefs DEF vars, resource, overlay
  <1>2. CASE \E c \in setup.inConn : HandoffStep(c)
    BY <1>0, <1>2, handoffRefusedRefs, handoffActivateRefs, handoffAddRefs DEF HandoffStep
  <1>3. CASE \E c \in setup.outConn : AttemptStep(c)
    BY <1>0, <1>3, onHandshakeRefs, attemptFailsRefs, attemptRedirectedRefs, processResponseRefs,
       add_activeRefs DEF AttemptStep
  <1>4. CASE \E c \in setup.outConn : Ending(c)
    BY <1>0, <1>4, attemptStopRefs, attemptOnClosedRefs, attemptRemoveRefs, lateTimerRefs
       DEF Ending
  <1>5. CASE \E c \in setup.inConn \cup setup.outConn : run(c) \/ peerStop(c) \/ destroy(c)
    BY <1>0, <1>5, runRefs, peerStopRefs, destroyRefs
  <1>6. CASE Connects
    BY <1>0, <1>6, connectRefs DEF Connects
  <1>7. CASE \E c \in setup.inConn, e \in setup.inEndpoints : onHandoff(c, e)
    BY <1>0, <1>7, onHandoffRefs
  <1>8. CASE \E c \in setup.inConn \cup setup.outConn :
                \/ close(c)
                \/ \E onStrand \in BOOLEAN : chargePeer(c, onStrand)
                \/ \E o \in Origin, gossip \in setup.gossip : onCluster(c, o, gossip)
    BY <1>0, <1>8, closeRefs, chargePeerRefs, onClusterRefs
  <1>9. CASE Ticks \/ Stops \/ requestStop
    BY <1>9, SameRefs DEF Ticks, on_timer, Stops, stop, timerStops, onChildrenStopped, requestStop, resource
  <1>10. CASE \E e \in setup.fixed : resolved(e) \/ backoffEnds(e)
    BY <1>10, SameRefs DEF resolved, backoffEnds, resource, overlay
  <1>11. CASE \/ \E entries \in SUBSET Inactive, origins \in SUBSET Imported : groom(entries, origins)
              \/ \E k \in EntryKey : cool(k)
    BY <1>11, groomRefs, coolRefs
  <1>12. CASE Next
    <2>1. CASE Work
      BY <2>1, <1>2, <1>3, <1>4, <1>5, <1>6, <1>9, <1>10 DEF Work
    <2>2. CASE ~Work
      BY <1>12, <2>2, <1>7, <1>8, <1>9, <1>10, <1>11 DEF Next
    <2>. QED  BY <2>1, <2>2
  <1>. QED  BY <1>1, <1>12

\* Every entry of the resource manager's table has the references of the connections and
\* the imports that use it, whatever handshakes, gossip and expiries interleave.
THEOREM ReferenceInvariance == Spec => []RefInv
  <1>1. Init => RefInv
    BY InitRefs
  <1>2. Inv /\ SlotInv /\ RefInv /\ [Next]_vars => RefInv'
    BY NextRefs
  <1>. QED  BY <1>1, <1>2, Invariance, SlotInvariance, PTL DEF Spec

\* An entry's refcount and remote balance are what the consumers and the imports add up
\* to, it is on the inactive list exactly when nothing refers to it, and an erased entry
\* is referred to by nobody, so that Logic::release never meets one
\* (resource/impl/Logic.h:320-430, 444-483).
THEOREM ResourcesAccountedHolds == Spec => []ResourcesAccounted
  <1>1. RefInv => ResourcesAccounted
    <2>. SUFFICES ASSUME RefInv, NEW k \in EntryKey
                  PROVE  LET imports == {q \in Imported \X Endpoint :
                                            q[2] \in import_table[q[1]] /\ InboundKey(q[2]) = k}
                             refs == CountOf({c \in Conn : AttemptHolds(c) /\ conn[c].usage = k})
                                   + CountOf({c \in Conn : PeerHolds(c) /\ conn[c].usage = k})
                                   + CountOf(imports)
                         IN  IF table[k] = Absent THEN refs = 0
                             ELSE /\ table[k].refcount = refs
                                  /\ table[k].remote_balance = CountOf(imports)
                                  /\ table[k].inactive = (refs = 0)
      BY Zenon DEF ResourcesAccounted
    <2>. DEFINE imports == {q \in Imported \X Endpoint :
                              q[2] \in import_table[q[1]] /\ InboundKey(q[2]) = k}
               A == {c \in Conn : AttemptHolds(c) /\ conn[c].usage = k}
               P == {c \in Conn : PeerHolds(c) /\ conn[c].usage = k}
               refs == CountOf(A) + CountOf(P) + CountOf(imports)
    <2>1. A = AttemptRefs(conn, k)
      BY DEF AttemptRefs, AttemptHolds
    <2>2. P = PeerRefs(conn, k)
      BY DEF PeerRefs, PeerHolds
    <2>3. imports = ImportRefs(import_table, k)
      BY DEF ImportRefs, Imported
    <2>4. Tallied(table[k], Holders(conn, k) + Imports(import_table, k), Imports(import_table, k))
      BY Zenon DEF RefInv, AllTallied
    <2>. HIDE DEF imports, A, P
    <2>5. refs = Holders(conn, k) + Imports(import_table, k) /\ CountOf(imports) = Imports(import_table, k)
      BY <2>1, <2>2, <2>3, Zenon DEF CountOf, Holders, Imports
    <2>. HIDE DEF refs
    <2>6. Tallied(table[k], refs, CountOf(imports))
      BY <2>4, <2>5, Zenon
    <2>7. IF table[k] = Absent THEN refs = 0
          ELSE /\ table[k].refcount = refs
               /\ table[k].remote_balance = CountOf(imports)
               /\ table[k].inactive = (refs = 0)
      BY <2>6, OverlayAssumption, Zenon DEF Tallied
    <2>. QED  BY <2>7, Zenon DEF refs, A, P, imports
  <1>. QED  BY <1>1, ReferenceInvariance, PTL
================================================================================
