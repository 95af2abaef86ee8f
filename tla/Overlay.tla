-------------------------------- MODULE Overlay --------------------------------
(***************************************************************************)
(* The life of peer connections: OverlayImpl, ConnectAttempt and PeerImp    *)
(* over the finder's slots and the resource manager's consumers.            *)
(*                                                                         *)
(* A connection is handed off by the server (inbound) or begun by           *)
(* OverlayImpl::connect (outbound).  onHandoff, processResponse and the     *)
(* destructors make several calls, each under a lock of its own, and other  *)
(* threads run between them: each call is a step.  A ConnectAttempt or a    *)
(* PeerImp lives while a handler holds it, that is until its socket is      *)
(* closed and no handler of its strand is queued.                           *)
(*                                                                         *)
(* Assumed: an inbound endpoint is not in the finder's table (its port is   *)
(* fresh), and a timer handler a ConnectAttempt left queued runs before the *)
(* PeerImp that took its socket is destroyed.                               *)
(***************************************************************************)
EXTENDS PeerFinder, Resource

CONSTANTS Setups              \* configurations, with the bounds of the instance

ASSUME OverlayAssumption ==
    /\ Conn \subseteq Nat \ {0}
    /\ ResEndpoint = Endpoint
    /\ None \notin Conn \cup Key /\ None \notin Slot
    /\ Absent \notin Entry
    /\ dropThreshold \in Int /\ feeDrop \in Int
    /\ \A s \in Setups : /\ s.inConn \cup s.outConn \subseteq Conn
                         /\ s.inConn \cap s.outConn = {}
                         /\ s.keys \subseteq Key
                         /\ s.inEndpoints \cup s.fixed \cup s.boot \cup s.live
                               \cup s.redirects \subseteq Endpoint
                         /\ s.maxPeers \in Nat /\ s.outPeers \in Nat
                         /\ \A g \in s.gossip :
                               g \subseteq Endpoint /\ IsFiniteSet(g) /\ g # Absent

VARIABLES
    setup,          \* the configuration (a member of Setups)
    conn,           \* conn[c]: see NewConn
    list,           \* list_: the children that are not yet removed
    told,           \* told[child]: its stop handler is "no", "posted" or "done", or
                    \* "joined" for a peer that was added after stop ran
    m_peers,        \* connections whose PeerImp is in m_peers
    m_publicKeyMap, \* [Key -> the connection found under it, or None]
    toConnect,      \* endpoints autoConnect's loop has still to connect
    work,           \* work_
    stopping, childrenStopped, stopped,
    budget          \* charges and imports the instance has left

overlay == <<conn, list, told, m_peers, m_publicKeyMap, toConnect, work, stopping,
             childrenStopped, stopped>>
vars == <<finder, resource, overlay, setup, budget>>

Attempt(c) == <<"attempt", c>>
PeerOf(c)  == <<"peer", c>>
Timer      == <<"timer", 0>>
Children   == {Attempt(c) : c \in Conn} \cup {PeerOf(c) : c \in Conn} \cup {Timer}

\* attempt: none, connecting, connected, activated, moved, closed, reported, gone
\* peer:    none, handoff, activated, posted, up, deactivated, reported, removed, gone
\* open: the socket is open.  late: a timer handler of the attempt is queued.
NewConn == [attempt |-> "none", peer |-> "none", open |-> FALSE, late |-> FALSE,
            e |-> None, key |-> None, usage |-> None]

Init ==
    /\ setup \in Setups
    /\ slot = [c \in Conn |-> None]
    /\ slots = [e \in Endpoint |-> None]
    /\ connected_addresses = [b \in Bares |-> 0]
    /\ keys = {}
    /\ counts = onConfig(setup.maxPeers, setup.outPeers, setup.roundUp, setup.wantIncoming)
    /\ fixed = [e \in Endpoint |-> "absent"]
    /\ m_squelches = {}
    /\ bootcache = setup.boot
    /\ table = [k \in EntryKey |-> Absent]
    /\ import_table = [o \in Origin |-> Absent]
    /\ conn = [c \in Conn |-> NewConn]
    /\ list = {Timer}                                    \* onStart
    /\ told = [ch \in Children |-> "no"]
    /\ m_peers = {}
    /\ m_publicKeyMap = [k \in Key |-> None]
    /\ toConnect = {}
    /\ work = TRUE
    /\ stopping = FALSE /\ childrenStopped = FALSE /\ stopped = FALSE
    /\ budget = [charges |-> setup.charges, imports |-> setup.imports]

Free(C) == {c \in C : conn[c].attempt = "none" /\ conn[c].peer = "none"}
\* Connections are taken in order.
NextOf(C, c) == c \in Free(C) /\ \A d \in Free(C) : c <= d

Set(c, r) == conn' = [conn EXCEPT ![c] = r]

checkStopped(l, kids) == stopping /\ kids /\ l = {}

\* list_.emplace.
Join(ch) ==
    /\ list' = list \cup {ch}
    /\ told' = [told EXCEPT ![ch] = IF work THEN @ ELSE "joined"]

\* OverlayImpl::remove (Child&), from ~Child.
Remove(ch) ==
    /\ list' = list \ {ch}
    /\ stopped' = (stopped \/ checkStopped(list', childrenStopped))

(***************************************************************************)
(* Inbound connections: onHandoff.                                          *)
(***************************************************************************)
onHandoff(c, e) ==
    LET k  == InboundKey(e)
        t1 == newEndpoint(table, k)
    IN
    /\ NextOf(setup.inConn, c)
    /\ e \in setup.inEndpoints
    /\ slots[e] = None
    /\ IF overDrop(t1, k) \/ InboundDuplicate(e)
       THEN /\ table' = release(disconnect(t1, k), k)
            /\ Set(c, [conn[c] EXCEPT !.peer = "gone"])
            /\ UNCHANGED finder
       ELSE /\ table' = t1
            /\ Set(c, [conn[c] EXCEPT !.peer = "handoff", !.open = TRUE, !.e = e, !.usage = k])
            /\ new_inbound_slot(c, e)
    /\ UNCHANGED <<import_table, list, told, m_peers, m_publicKeyMap, toConnect, work,
                   stopping, childrenStopped, stopped, setup, budget>>

\* The returns between new_inbound_slot and activate: not a peer connection, a
\* bad hello, no shared value, a hello that does not verify.
handoffRefused(c) ==
    /\ conn[c].peer = "handoff"
    /\ table' = release(table, conn[c].usage)
    /\ Set(c, [conn[c] EXCEPT !.peer = "gone", !.open = FALSE])
    /\ UNCHANGED <<finder, import_table, list, told, m_peers, m_publicKeyMap, toConnect,
                   work, stopping, childrenStopped, stopped, setup, budget>>

handoffActivate(c, k) ==
    /\ conn[c].peer = "handoff"
    /\ IF Activatable(c, k)
       THEN /\ activate(c, k, k \in setup.cluster)
            /\ Set(c, [conn[c] EXCEPT !.peer = "activated", !.key = k])
            /\ UNCHANGED table
       ELSE /\ notActivated(c, k)
            /\ Set(c, [conn[c] EXCEPT !.peer = "gone", !.open = FALSE])
            /\ table' = release(table, conn[c].usage)
    /\ UNCHANGED <<import_table, list, told, m_peers, m_publicKeyMap, toConnect, work,
                   stopping, childrenStopped, stopped, setup, budget>>

\* OverlayImpl::add and PeerImp::run, which posts itself to the peer's strand.
handoffAdd(c) ==
    /\ conn[c].peer = "activated" /\ conn[c].attempt = "none"
    /\ Set(c, [conn[c] EXCEPT !.peer = "posted"])
    /\ m_peers' = m_peers \cup {c}
    /\ Join(PeerOf(c))
    /\ UNCHANGED <<finder, resource, m_publicKeyMap, toConnect, work, stopping,
                   childrenStopped, stopped, setup, budget>>

(***************************************************************************)
(* Outbound connections.                                                   *)
(***************************************************************************)
\* Timer::on_timer up to the calls of connect; it runs on the overlay's strand.
on_timer(result) ==
    /\ Timer \in list /\ ~stopping
    /\ toConnect = {}
    /\ autoconnect(result)
    /\ Cardinality(result) <= Cardinality(Free(setup.outConn))
    /\ toConnect' = result
    /\ UNCHANGED <<resource, conn, list, told, m_peers, m_publicKeyMap, work, stopping,
                   childrenStopped, stopped, setup, budget>>

connect(c, e) ==
    LET k  == OutboundKey(e)
        t1 == newEndpoint(table, k)
    IN
    /\ e \in toConnect
    /\ NextOf(setup.outConn, c)
    /\ toConnect' = toConnect \ {e}
    /\ IF overDrop(t1, k) \/ OutboundDuplicate(e)
       THEN /\ table' = release(disconnect(t1, k), k)
            /\ UNCHANGED <<finder, conn, list>>
       ELSE /\ table' = t1
            /\ new_outbound_slot(c, e)
            /\ Set(c, [conn[c] EXCEPT !.attempt = "connecting", !.open = TRUE, !.e = e,
                                      !.usage = k])
            /\ list' = list \cup {Attempt(c)}
    /\ UNCHANGED <<import_table, told, m_peers, m_publicKeyMap, work, stopping,
                   childrenStopped, stopped, setup, budget>>

Trying(c) == conn[c].attempt \in {"connecting", "connected"}

\* onConnect and onHandshake up to the request that is sent.
onHandshake(c, local) ==
    /\ conn[c].attempt = "connecting" /\ conn[c].open
    /\ IF SelfConnect(local)
       THEN Set(c, [conn[c] EXCEPT !.attempt = "closed", !.open = FALSE]) /\ UNCHANGED finder
       ELSE Set(c, [conn[c] EXCEPT !.attempt = "connected"]) /\ onConnected(c)
    /\ UNCHANGED <<resource, list, told, m_peers, m_publicKeyMap, toConnect, work, stopping,
                   childrenStopped, stopped, setup, budget>>

\* An error, a timeout, or a response that is not an upgrade or does not verify.
attemptFails(c) ==
    /\ Trying(c)
    /\ Set(c, [conn[c] EXCEPT !.attempt = "closed", !.open = FALSE])
    /\ UNCHANGED <<finder, resource, list, told, m_peers, m_publicKeyMap, toConnect, work,
                   stopping, childrenStopped, stopped, setup, budget>>

\* A 503 with addresses to try.
attemptRedirected(c, eps) ==
    /\ conn[c].attempt = "connected"
    /\ onRedirects(eps)
    /\ Set(c, [conn[c] EXCEPT !.attempt = "closed", !.open = FALSE])
    /\ UNCHANGED <<resource, list, told, m_peers, m_publicKeyMap, toConnect, work,
                   stopping, childrenStopped, stopped, setup, budget>>

processResponse(c, k) ==
    /\ conn[c].attempt = "connected"
    /\ IF Activatable(c, k)
       THEN /\ activate(c, k, k \in setup.cluster)
            /\ Set(c, [conn[c] EXCEPT !.attempt = "activated", !.key = k])
       ELSE /\ notActivated(c, k)
            /\ Set(c, [conn[c] EXCEPT !.attempt = "closed", !.open = FALSE])
    /\ UNCHANGED <<resource, list, told, m_peers, m_publicKeyMap, toConnect, work, stopping,
                   childrenStopped, stopped, setup, budget>>

\* The end of processResponse: the PeerImp takes the slot, the socket and a copy
\* of the consumer, and add_active runs it.  The attempt's timer was cancelled,
\* but its handler may be queued already.
add_active(c, late) ==
    /\ conn[c].attempt = "activated"
    /\ Set(c, [conn[c] EXCEPT !.attempt = "moved", !.peer = "posted", !.late = late])
    /\ table' = acquire(table, conn[c].usage)
    /\ m_peers' = m_peers \cup {c}
    /\ m_publicKeyMap' = [m_publicKeyMap EXCEPT ![conn[c].key] = IF @ = None THEN c ELSE @]
    /\ Join(PeerOf(c))
    /\ UNCHANGED <<finder, import_table, toConnect, work, stopping, childrenStopped,
                   stopped, setup, budget>>

\* ConnectAttempt::onTimer after the socket was moved: it still refers to it.
lateTimer(c) ==
    /\ conn[c].late
    /\ Set(c, [conn[c] EXCEPT !.late = FALSE, !.open = FALSE])
    /\ UNCHANGED <<finder, resource, list, told, m_peers, m_publicKeyMap, toConnect, work,
                   stopping, childrenStopped, stopped, setup, budget>>

\* ConnectAttempt::stop on the attempt's strand; processResponse is one handler.
attemptStop(c) ==
    /\ told[Attempt(c)] = "posted"
    /\ conn[c].attempt \in {"connecting", "connected", "moved", "closed"}
    /\ told' = [told EXCEPT ![Attempt(c)] = "done"]
    /\ Set(c, [conn[c] EXCEPT !.open = FALSE,
                              !.attempt = IF Trying(c) THEN "closed" ELSE @])
    /\ UNCHANGED <<finder, resource, list, m_peers, m_publicKeyMap, toConnect, work,
                   stopping, childrenStopped, stopped, setup, budget>>

\* ~ConnectAttempt while it still has its slot.
attemptOnClosed(c) ==
    /\ conn[c].attempt = "closed" /\ told[Attempt(c)] # "posted"
    /\ on_closed(c)
    /\ Set(c, [conn[c] EXCEPT !.attempt = "reported"])
    /\ UNCHANGED <<resource, list, told, m_peers, m_publicKeyMap, toConnect, work, stopping,
                   childrenStopped, stopped, setup, budget>>

\* Its members and its Child base.
attemptRemove(c) ==
    /\ \/ conn[c].attempt = "reported"
       \/ conn[c].attempt = "moved" /\ ~conn[c].late /\ told[Attempt(c)] # "posted"
    /\ table' = release(table, conn[c].usage)
    /\ Set(c, [conn[c] EXCEPT !.attempt = "gone"])
    /\ Remove(Attempt(c))
    /\ UNCHANGED <<finder, import_table, told, m_peers, m_publicKeyMap, toConnect, work,
                   stopping, childrenStopped, setup, budget>>

(***************************************************************************)
(* PeerImp.                                                                *)
(***************************************************************************)
Outbound(c) == conn[c].attempt # "none"

\* An inbound peer is entered in the maps only now, by doAccept.
run(c) ==
    /\ conn[c].peer = "posted"
    /\ Set(c, [conn[c] EXCEPT !.peer = "up"])
    /\ m_publicKeyMap' =
          IF Outbound(c) THEN m_publicKeyMap
          ELSE [m_publicKeyMap EXCEPT ![conn[c].key] = IF @ = None THEN c ELSE @]
    /\ UNCHANGED <<finder, resource, list, told, m_peers, toConnect, work, stopping,
                   childrenStopped, stopped, setup, budget>>

\* close (), from an error, the other side, a timeout or a shutdown.
close(c) ==
    /\ conn[c].peer = "up" /\ conn[c].open
    /\ Set(c, [conn[c] EXCEPT !.open = FALSE])
    /\ UNCHANGED <<finder, resource, list, told, m_peers, m_publicKeyMap, toConnect, work,
                   stopping, childrenStopped, stopped, setup, budget>>

\* PeerImp::charge, which severs the connection only on the peer's strand.
chargePeer(c, onStrand) ==
    LET k  == conn[c].usage
        t1 == charge(table, k, 1)
    IN
    /\ conn[c].peer = "up"
    /\ budget.charges > 0
    /\ budget' = [budget EXCEPT !.charges = @ - 1]
    /\ table' = disconnect(t1, k)
    /\ Set(c, [conn[c] EXCEPT !.open = @ /\ ~(overDrop(t1, k) /\ onStrand)])
    /\ UNCHANGED <<finder, import_table, list, told, m_peers, m_publicKeyMap, toConnect,
                   work, stopping, childrenStopped, stopped, setup>>

\* PeerImp::onMessage (TMCluster): load sources seen by a member of the cluster.
onCluster(c, o, gossip) ==
    /\ conn[c].peer = "up" /\ conn[c].open
    /\ conn[c].key \in setup.cluster
    /\ budget.imports > 0
    /\ budget' = [budget EXCEPT !.imports = @ - 1]
    /\ importConsumers(o, gossip)
    /\ UNCHANGED <<finder, overlay, setup>>

peerStop(c) ==
    /\ told[PeerOf(c)] = "posted" /\ conn[c].peer = "up"
    /\ told' = [told EXCEPT ![PeerOf(c)] = "done"]
    /\ Set(c, [conn[c] EXCEPT !.open = FALSE])
    /\ UNCHANGED <<finder, resource, list, m_peers, m_publicKeyMap, toConnect, work,
                   stopping, childrenStopped, stopped, setup, budget>>

\* ~PeerImp, in the order of its calls.
Over(c) == conn[c].peer = "up" /\ ~conn[c].open /\ ~conn[c].late /\ told[PeerOf(c)] # "posted"

onPeerDeactivate(c) ==
    m_publicKeyMap' = [m_publicKeyMap EXCEPT ![conn[c].key] = None]

destroyReportFirst(c) ==
    /\ \/ /\ Over(c)
          /\ on_closed(c)
          /\ Set(c, [conn[c] EXCEPT !.peer = "deactivated"])
          /\ UNCHANGED <<m_publicKeyMap, m_peers, table, list, stopped>>
       \/ /\ conn[c].peer = "deactivated"
          /\ onPeerDeactivate(c)
          /\ Set(c, [conn[c] EXCEPT !.peer = "reported"])
          /\ UNCHANGED <<finder, m_peers, table, list, stopped>>
       \/ /\ conn[c].peer = "reported"
          /\ m_peers' = m_peers \ {c}
          /\ Set(c, [conn[c] EXCEPT !.peer = "removed"])
          /\ UNCHANGED <<finder, m_publicKeyMap, table, list, stopped>>
       \/ /\ conn[c].peer = "removed"
          /\ table' = release(table, conn[c].usage)
          /\ Set(c, [conn[c] EXCEPT !.peer = "gone"])
          /\ Remove(PeerOf(c))
          /\ UNCHANGED <<finder, m_publicKeyMap, m_peers>>
    /\ UNCHANGED <<import_table, told, toConnect, work, stopping, childrenStopped, setup, budget>>

destroy(c) ==
    /\ \/ /\ Over(c)
          /\ onPeerDeactivate(c)
          /\ Set(c, [conn[c] EXCEPT !.peer = "deactivated"])
          /\ UNCHANGED <<finder, m_peers, table, list, stopped>>
       \/ /\ conn[c].peer = "deactivated"
          /\ on_closed(c)
          /\ Set(c, [conn[c] EXCEPT !.peer = "reported"])
          /\ UNCHANGED <<m_publicKeyMap, m_peers, table, list, stopped>>
       \/ /\ conn[c].peer = "reported"
          /\ m_peers' = m_peers \ {c}
          /\ Set(c, [conn[c] EXCEPT !.peer = "removed"])
          /\ UNCHANGED <<finder, m_publicKeyMap, table, list, stopped>>
       \/ /\ conn[c].peer = "removed"
          /\ table' = release(table, conn[c].usage)
          /\ Set(c, [conn[c] EXCEPT !.peer = "gone"])
          /\ Remove(PeerOf(c))
          /\ UNCHANGED <<finder, m_publicKeyMap, m_peers>>
    /\ UNCHANGED <<import_table, told, toConnect, work, stopping, childrenStopped, setup, budget>>

(***************************************************************************)
(* Stopping.                                                               *)
(***************************************************************************)
\* Stoppable: the flag is set, then onStop posts stop to the overlay's strand.
requestStop ==
    /\ setup.stops /\ ~stopping
    /\ stopping' = TRUE
    /\ UNCHANGED <<finder, resource, conn, list, told, m_peers, m_publicKeyMap, toConnect,
                   work, childrenStopped, stopped, setup, budget>>

\* A child whose destructor has begun can no longer be locked.
Alive(ch) ==
    CASE ch = Timer          -> TRUE
      [] ch[1] = "attempt"   -> conn[ch[2]].attempt # "reported"
      [] OTHER               -> conn[ch[2]].peer \in {"posted", "up"}

stop_attempts ==
    /\ stopping /\ work /\ toConnect = {}
    /\ work' = FALSE
    /\ told' = [ch \in Children |-> IF ch \in list /\ Alive(ch) /\ ch[1] # "peer"
                                    THEN "posted" ELSE told[ch]]
    /\ UNCHANGED <<finder, resource, conn, list, m_peers, m_publicKeyMap, toConnect,
                   stopping, childrenStopped, stopped, setup, budget>>

stop ==
    /\ stopping /\ work /\ toConnect = {}
    /\ work' = FALSE
    /\ told' = [ch \in Children |-> IF ch \in list /\ Alive(ch) THEN "posted" ELSE told[ch]]
    /\ UNCHANGED <<finder, resource, conn, list, m_peers, m_publicKeyMap, toConnect,
                   stopping, childrenStopped, stopped, setup, budget>>

\* The cancelled timer's handler returns without waiting again.
timerStops ==
    /\ Timer \in list /\ told[Timer] = "posted"
    /\ told' = [told EXCEPT ![Timer] = "done"]
    /\ Remove(Timer)
    /\ UNCHANGED <<finder, resource, conn, m_peers, m_publicKeyMap, toConnect, work,
                   stopping, childrenStopped, setup, budget>>

onChildrenStopped ==
    /\ stopping /\ ~childrenStopped
    /\ childrenStopped' = TRUE
    /\ stopped' = (stopped \/ checkStopped(list, TRUE))
    /\ UNCHANGED <<finder, resource, conn, list, told, m_peers, m_publicKeyMap, toConnect,
                   work, stopping, setup, budget>>

(***************************************************************************)
(* The finder's and the resource manager's own activity.                    *)
(***************************************************************************)
\* The resolver's answer for an entry of ips_fixed.
resolved(e) ==
    /\ e \in setup.fixed /\ fixed[e] = "absent"
    /\ addFixedPeer(e)
    /\ UNCHANGED <<resource, overlay, setup, budget>>

backoffEnds(e) == backedOff(e) /\ UNCHANGED <<resource, overlay, setup, budget>>

groom(entries, origins) ==
    /\ budget.imports < setup.imports \/ setup.charges > 0
    /\ periodicActivity(entries, origins)
    /\ UNCHANGED <<finder, overlay, setup, budget>>

cool(k) == decay(k) /\ UNCHANGED <<finder, overlay, setup, budget>>

Locals == {e \in setup.inEndpoints : address(e) = setup.self}

AttemptStep(c) ==
    \/ \E local \in Locals \cup {None} : onHandshake(c, local)
    \/ attemptFails(c)
    \/ \E eps \in {setup.redirects} \ {{}} : attemptRedirected(c, eps)
    \/ \E k \in setup.keys : processResponse(c, k)
    \/ \E late \in BOOLEAN : add_active(c, late)

HandoffStep(c) ==
    \/ handoffRefused(c)
    \/ \E k \in setup.keys : handoffActivate(c, k)
    \/ handoffAdd(c)

Ending(c) == attemptStop(c) \/ attemptOnClosed(c) \/ attemptRemove(c) \/ lateTimer(c)

Ticks == \E live \in {{}, setup.live} :
             \E result \in AutoConnects(setup.autoConnect, live) : on_timer(result)

Connects == \E c \in setup.outConn, e \in toConnect : connect(c, e)

Stops == stop \/ timerStops \/ onChildrenStopped

\* What the threads of the node do by themselves.
Work ==
    \/ \E c \in setup.inConn : HandoffStep(c)
    \/ \E c \in setup.outConn : AttemptStep(c) \/ Ending(c)
    \/ \E c \in setup.inConn \cup setup.outConn : run(c) \/ peerStop(c) \/ destroy(c)
    \/ Connects \/ Stops \/ Ticks
    \/ \E e \in setup.fixed : backoffEnds(e)

Next ==
    \/ Work
    \/ \E c \in setup.inConn, e \in setup.inEndpoints : onHandoff(c, e)
    \/ \E c \in setup.inConn \cup setup.outConn :
          \/ close(c)
          \/ \E onStrand \in BOOLEAN : chargePeer(c, onStrand)
          \/ \E o \in Origin, gossip \in setup.gossip : onCluster(c, o, gossip)
    \/ requestStop
    \/ \E e \in setup.fixed : resolved(e)
    \/ \E entries \in SUBSET Inactive, origins \in SUBSET Imported : groom(entries, origins)
    \/ \E k \in EntryKey : cool(k)

\* The io_service's threads keep running handlers: an attempt has a timer and
\* ends one way or another, a posted handler runs, an object nobody holds is
\* destroyed.  Nothing makes a remote peer close a connection.  One condition
\* for all of it is enough: an instance has finitely many connections, so the
\* steps of others cannot put one off for ever.
Fairness == WF_vars(Work)

Spec == Init /\ [][Next]_vars /\ Fairness

(***************************************************************************)
(* Properties.                                                             *)
(***************************************************************************)
InTable == {c \in Conn : slot[c] # None}
CountOf(P) == Cardinality(P)

\* Logic's four tables and Counts agree at all times, so that every assertion
\* of Logic::remove holds: the slot of a connection that is not closed is the
\* one listed under its endpoint, its address and its key are on record, no key
\* or address is on record without a slot, and every counter is the number of
\* slots it counts.
SlotsAccounted ==
    /\ \A c \in InTable : slots[slot[c].e] = c
    /\ \A e \in Endpoint : slots[e] # None => slot[slots[e]] # None /\ slot[slots[e]].e = e
    /\ keys = {slot[c].key : c \in InTable} \ {None}
    /\ \A c, d \in InTable : slot[c].key = slot[d].key => c = d \/ slot[c].key = None
    /\ \A b \in Bares : connected_addresses[b] = CountOf({c \in InTable : Bare(slot[c].e) = b})
    /\ counts.accept = CountOf({c \in InTable : slot[c].state = "accept"})
    /\ counts.attempts = CountOf({c \in InTable : slot[c].state \in {"connect", "connected"}})
    /\ counts.active = CountOf({c \in InTable : slot[c].state = "active"})
    /\ counts.fixed_active =
          CountOf({c \in InTable : slot[c].state = "active" /\ slot[c].fixed})
    /\ counts.cluster = CountOf({c \in InTable : slot[c].cluster})

\* Every peer that runs can be found under its public key until its destructor
\* begins: m_publicKeyMap.emplace never meets the entry of an earlier
\* connection to the same node, because ~PeerImp takes its key out of the map
\* before it gives the key back to the finder.
Findable ==
    \A c \in Conn : \/ conn[c].peer = "up"
                    \/ conn[c].peer = "posted" /\ Outbound(c)
                    => m_publicKeyMap[conn[c].key] = c

Plain(c) == slot[c].state = "active" /\ ~slot[c].fixed /\ ~slot[c].cluster

\* However handshakes interleave, the active peers that are neither fixed nor
\* of the cluster are at most in_max inbound and out_max outbound ones, and at
\* most max_peers altogether.
LimitsHold ==
    LET ins  == {c \in InTable : Plain(c) /\ slot[c].inbound}
        outs == {c \in InTable : Plain(c) /\ ~slot[c].inbound}
    IN  /\ CountOf(ins) <= counts.in_max
        /\ CountOf(outs) <= counts.out_max
        /\ setup.outPeers < setup.maxPeers => CountOf(ins) + CountOf(outs) <= setup.maxPeers

AttemptHolds(c) == conn[c].attempt \notin {"none", "gone"}
PeerHolds(c)    == conn[c].peer \notin {"none", "gone"}

\* An entry's reference count is the number of Consumers that refer to it (of
\* attempts, peers, handoffs and imported items), its remote balance is what
\* the imports on record add up to, it is on the inactive list exactly when
\* nothing refers to it, and no Consumer refers to an erased entry.
ResourcesAccounted ==
    \A k \in EntryKey :
        LET imports == {q \in Imported \X Endpoint :
                           q[2] \in import_table[q[1]] /\ InboundKey(q[2]) = k}
            refs == CountOf({c \in Conn : AttemptHolds(c) /\ conn[c].usage = k})
                  + CountOf({c \in Conn : PeerHolds(c) /\ conn[c].usage = k})
                  + CountOf(imports)
        IN  IF table[k] = Absent THEN refs = 0
            ELSE /\ table[k].refcount = refs
                 /\ table[k].remote_balance = CountOf(imports)
                 /\ table[k].inactive = (refs = 0)

\* A stop ends: every child that was there when OverlayImpl::stop ran is closed
\* and removed, and the overlay reports stopped, unless a child joined list_
\* after that.
OverlayStops == stopping ~> (stopped \/ \E ch \in list : told[ch] = "joined")

Untried(e) == /\ fixed[e] # "absent" /\ e \notin m_squelches
              /\ \A o \in Listed(slots) : address(o) # address(e)

\* Each fixed peer is tried: no endpoint that is resolved, whose address is not
\* in the table and that autoconnect has not handed out stays that way, unless
\* the server stops.
FixedAttempted == []<>(stopping \/ \A e \in setup.fixed : ~Untried(e))

\* What the documentation says of fixed peers: one that is not connected is
\* always attempted again.
FixedRetried ==
    []<>(stopping \/ \A e \in setup.fixed :
                        \/ fixed[e] # "ready" \/ e \in toConnect
                        \/ \E o \in Listed(slots) : address(o) = address(e))
================================================================================
