------------------------------ MODULE PeerFinder ------------------------------
(***************************************************************************)
(* PeerFinder's slot bookkeeping (peerfinder/impl/Logic.h, Counts.h,        *)
(* SlotImp.cpp, Fixed.h, Handouts.h).  Every member function runs under the *)
(* m_state lock, so each is one step; they are written here as the changes  *)
(* they make, for Overlay to take.                                          *)
(*                                                                          *)
(* An endpoint is <<address, port>>.  A slot is the object made for one     *)
(* connection; `slots` is Logic's table of slot objects by endpoint.  The   *)
(* livecache is not kept: what autoconnect's second stage is offered from   *)
(* it is an argument.  The bootcache is a set of endpoints, whose valence   *)
(* order is left open.                                                      *)
(***************************************************************************)
EXTENDS Integers, FiniteSets

CONSTANTS Conn,               \* connections; each has at most one slot
          Endpoint, Key,
          maxConnectAttempts, \* Tuning::maxConnectAttempts
          None

VARIABLES slot,        \* [Conn -> the slot object, or None]
          slots,       \* [Endpoint -> the slot listed under it, or None]
          connected_addresses, \* [Bares -> how often the address is listed]
          keys, counts, fixed, m_squelches, bootcache

finder == <<slot, slots, connected_addresses, keys, counts, fixed, m_squelches,
            bootcache>>

address(e) == e[1]
Bare(e) == <<address(e), 0>>
Bares == {Bare(e) : e \in Endpoint}

Listed(t) == {e \in Endpoint : t[e] # None}

(***************************************************************************)
(* Counts.                                                                 *)
(***************************************************************************)
ZeroCounts == [fixed |-> 0, cluster |-> 0, accept |-> 0, attempts |-> 0,
               fixed_active |-> 0, in_active |-> 0, out_active |-> 0, active |-> 0,
               in_max |-> 0, out_max |-> 0]

\* Counts::onConfig; the fraction of outPeers is only whether it rounds up.
onConfig(maxPeers, outPeers, roundUp, wantIncoming) ==
    LET out == IF wantIncoming THEN outPeers + (IF roundUp THEN 1 ELSE 0) ELSE maxPeers
    IN  [ZeroCounts EXCEPT !.out_max = out,
                           !.in_max = IF maxPeers >= out THEN maxPeers - out ELSE 0]

Adjusted(n, b, by) == IF b THEN n + by ELSE n

adjust(c, s, n) ==
    LET active == s.state = "active"
        plain  == active /\ ~s.fixed /\ ~s.cluster
    IN  [c EXCEPT !.fixed        = Adjusted(@, s.fixed, n),
                  !.cluster      = Adjusted(@, s.cluster, n),
                  !.accept       = Adjusted(@, s.state = "accept", n),
                  !.attempts     = Adjusted(@, s.state \in {"connect", "connected"}, n),
                  !.fixed_active = Adjusted(@, active /\ s.fixed, n),
                  !.in_active    = Adjusted(@, plain /\ s.inbound, n),
                  !.out_active   = Adjusted(@, plain /\ ~s.inbound, n),
                  !.active       = Adjusted(@, active, n)]

can_activate_le(s) ==
    \/ s.fixed \/ s.cluster
    \/ s.inbound  /\ counts.in_active <= counts.in_max
    \/ ~s.inbound /\ counts.out_active <= counts.out_max

can_activate(s) ==
    \/ s.fixed \/ s.cluster
    \/ s.inbound  /\ counts.in_active < counts.in_max
    \/ ~s.inbound /\ counts.out_active < counts.out_max

attempts_needed ==
    IF counts.attempts >= maxConnectAttempts THEN 0
    ELSE maxConnectAttempts - counts.attempts

(***************************************************************************)
(* Slots.                                                                  *)
(***************************************************************************)
Slot == [e : Endpoint, inbound : BOOLEAN, fixed : BOOLEAN, cluster : BOOLEAN,
         state : {"accept", "connect", "connected", "active"}, key : Key \cup {None}]

NewSlot(e, inbound) ==
    [e |-> e, inbound |-> inbound, fixed |-> fixed[e] # "absent", cluster |-> FALSE,
     state |-> IF inbound THEN "accept" ELSE "connect", key |-> None]

List(c, s) ==
    /\ slot'  = [slot EXCEPT ![c] = s]
    /\ slots' = [slots EXCEPT ![s.e] = c]
    /\ connected_addresses' = [connected_addresses EXCEPT ![Bare(s.e)] = @ + 1]
    /\ counts' = adjust(counts, s, 1)
    /\ UNCHANGED <<keys, fixed, m_squelches, bootcache>>

\* The duplicate check looks the endpoint up with its port, among endpoints
\* stored with port 0.
InboundDuplicate(e) == e \in Bares /\ connected_addresses[e] > 0

new_inbound_slot(c, e) == List(c, NewSlot(e, TRUE))

OutboundDuplicate(e) == slots[e] # None

new_outbound_slot(c, e) == List(c, NewSlot(e, FALSE))

\* `local` is the local endpoint of the connection.
SelfConnect(local) == local \in Endpoint /\ slots[local] # None

onConnected(c) ==
    LET s == [slot[c] EXCEPT !.state = "connected"] IN
    /\ slot' = [slot EXCEPT ![c] = s]
    /\ counts' = adjust(adjust(counts, slot[c], -1), s, 1)
    /\ UNCHANGED <<slots, connected_addresses, keys, fixed, m_squelches, bootcache>>

Activatable(c, k) == k \notin keys /\ can_activate(slot[c])

\* The counts go through the intermediate state in which the slot has its key
\* and its cluster flag and is not active yet.
activate_once(c, k, cluster) ==
    LET keyed == [slot[c] EXCEPT !.key = k, !.cluster = cluster]
        s     == [keyed EXCEPT !.state = "active"] IN
    /\ slot' = [slot EXCEPT ![c] = s]
    /\ counts' = adjust(adjust(counts, keyed, -1), s, 1)
    /\ keys' = keys \cup {k}
    /\ bootcache' = IF s.inbound THEN bootcache ELSE bootcache \cup {s.e}
    /\ fixed' = IF s.fixed /\ ~s.inbound THEN [fixed EXCEPT ![s.e] = "ready"] ELSE fixed
    /\ UNCHANGED <<slots, connected_addresses, m_squelches>>

activate(c, k, cluster) ==
    LET keyed == [slot[c] EXCEPT !.key = k, !.cluster = cluster]
        s     == [keyed EXCEPT !.state = "active"] IN
    /\ slot' = [slot EXCEPT ![c] = s]
    /\ counts' = LET c1 == adjust(adjust(counts, slot[c], -1), keyed, 1)
                 IN  adjust(adjust(c1, keyed, -1), s, 1)
    /\ keys' = keys \cup {k}
    /\ bootcache' = IF s.inbound THEN bootcache ELSE bootcache \cup {s.e}
    /\ fixed' = IF s.fixed /\ ~s.inbound THEN [fixed EXCEPT ![s.e] = "ready"] ELSE fixed
    /\ UNCHANGED <<slots, connected_addresses, m_squelches>>

\* The other two results of activate.
notActivated(c, k) ==
    /\ bootcache' = IF k \notin keys /\ ~slot[c].inbound THEN bootcache \cup {slot[c].e}
                    ELSE bootcache
    /\ UNCHANGED <<slot, slots, connected_addresses, keys, counts, fixed, m_squelches>>

\* Logic::remove and the rest of on_closed.
on_closed(c) ==
    LET s == slot[c] IN
    /\ slots' = [slots EXCEPT ![s.e] = None]
    /\ keys' = keys \ {s.key}
    /\ connected_addresses' = [connected_addresses EXCEPT ![Bare(s.e)] = @ - 1]
    /\ counts' = adjust(counts, s, -1)
    /\ fixed' = IF s.fixed /\ ~s.inbound /\ s.state # "active"
                THEN [fixed EXCEPT ![s.e] = "waiting"] ELSE fixed
    /\ bootcache' = IF s.state \in {"connect", "connected"} THEN bootcache \cup {s.e}
                    ELSE bootcache
    /\ slot' = [slot EXCEPT ![c] = None]
    /\ UNCHANGED m_squelches

onRedirects(eps) ==
    /\ bootcache' = bootcache \cup eps
    /\ UNCHANGED <<slot, slots, connected_addresses, keys, counts, fixed, m_squelches>>

(***************************************************************************)
(* Fixed peers.  addFixedPeer adds the first of a name's addresses that is  *)
(* not there; a failure makes the entry wait, and backedOff ends the wait.   *)
(***************************************************************************)
addFixedPeer(e) ==
    /\ fixed' = [fixed EXCEPT ![e] = IF @ = "absent" THEN "ready" ELSE @]
    /\ UNCHANGED <<slot, slots, connected_addresses, keys, counts, m_squelches, bootcache>>

backedOff(e) ==
    /\ fixed[e] = "waiting"
    /\ fixed' = [fixed EXCEPT ![e] = "ready"]
    /\ UNCHANGED <<slot, slots, connected_addresses, keys, counts, m_squelches, bootcache>>

(***************************************************************************)
(* autoconnect.  SquelchesSet::expire works on a copy of the set, so nothing *)
(* is ever removed from m_squelches.                                        *)
(***************************************************************************)
FixedEndpoints == {e \in Endpoint : fixed[e] # "absent"}

get_fixed_later(squelched) ==
    {e \in FixedEndpoints : /\ fixed[e] = "waiting"
                            /\ e \notin squelched
                            /\ \A o \in Listed(slots) : address(o) # address(e)}

get_fixed(squelched) ==
    {e \in FixedEndpoints : /\ fixed[e] = "ready"
                            /\ e \notin squelched
                            /\ \A o \in Listed(slots) : address(o) # address(e)}

AtMost(S, n) == {T \in SUBSET S : Cardinality(T) = IF Cardinality(S) < n
                                                   THEN Cardinality(S) ELSE n}

\* ConnectHandouts: try_insert takes endpoints while there is room, one for an
\* address and none that is squelched.
Handouts(S, n, squelched) ==
    {T \in SUBSET (S \ squelched) :
        /\ Cardinality(T) <= n
        /\ \A d, e \in T : address(d) = address(e) => d = e
        /\ \A e \in (S \ squelched) \ T :
              Cardinality(T) = n \/ \E d \in T : address(d) = address(e)}

\* What autoconnect may return and squelch beside the slots' endpoints.
AutoConnects(autoConnect, live) ==
    LET squelched == m_squelches \cup Listed(slots)
        eligible  == get_fixed(squelched)
        short     == counts.fixed_active < Cardinality(FixedEndpoints)
    IN  IF attempts_needed = 0 THEN {{}}
        ELSE IF short /\ eligible # {} THEN AtMost(eligible, attempts_needed)
        ELSE IF short /\ counts.attempts > 0 THEN {{}}
        ELSE IF ~autoConnect \/ counts.out_active >= counts.out_max THEN {{}}
        ELSE IF live \ squelched # {} THEN Handouts(live, attempts_needed, squelched)
        ELSE IF counts.attempts > 0 THEN {{}}
        ELSE Handouts(bootcache, attempts_needed, squelched)

\* One call of autoconnect that returns the endpoints of `result`, a member of
\* AutoConnects.
autoconnect(result) ==
    /\ m_squelches' = IF attempts_needed = 0 THEN m_squelches
                      ELSE m_squelches \cup Listed(slots) \cup result
    /\ UNCHANGED <<slot, slots, connected_addresses, keys, counts, fixed, bootcache>>
================================================================================
