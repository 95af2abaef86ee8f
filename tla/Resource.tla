------------------------------- MODULE Resource -------------------------------
(***************************************************************************)
(* The resource manager (resource/impl/Logic.h, Consumer.cpp, Entry.h): a   *)
(* table of reference-counted entries, one for an inbound address, for an   *)
(* outbound endpoint and for a privileged endpoint, and the balances other  *)
(* members of the cluster report for inbound addresses (the imports).       *)
(*                                                                          *)
(* Each operation runs under the m_state lock.  The table is passed along,  *)
(* so that a handler can make several calls in one step.  Time is left      *)
(* out: an inactive entry or an import may expire whenever                  *)
(* periodicActivity runs, a local balance may decay at any time.            *)
(***************************************************************************)
EXTENDS Integers, FiniteSets

CONSTANTS ResEndpoint,        \* endpoints <<address, port>> the manager is given
          Private,            \* addresses that are not public
          Origin,             \* names gossip comes from
          dropThreshold, feeDrop,
          Absent

VARIABLES table,              \* [EntryKey -> an entry, or Absent]
          import_table        \* [Origin -> the set of endpoints imported, or Absent]

resource == <<table, import_table>>

isWhitelisted(e) == e[1] \in Private

\* The keys under which newInboundEndpoint and newOutboundEndpoint work.
InboundKey(e)  == IF isWhitelisted(e) THEN <<"admin", e>> ELSE <<"inbound", <<e[1], 0>>>>
OutboundKey(e) == IF isWhitelisted(e) THEN <<"admin", e>> ELSE <<"outbound", e>>

EntryKey == {InboundKey(e) : e \in ResEndpoint} \cup {OutboundKey(e) : e \in ResEndpoint}

Entry == [refcount : Int, local_balance : Int, remote_balance : Int, inactive : BOOLEAN]

NewEntry == [refcount |-> 0, local_balance |-> 0, remote_balance |-> 0, inactive |-> FALSE]

\* newInboundEndpoint, newOutboundEndpoint, newAdminEndpoint.
newEndpoint(t, k) ==
    LET entry == IF t[k] = Absent THEN NewEntry ELSE t[k]
    IN  [t EXCEPT ![k] = [entry EXCEPT !.refcount = @ + 1, !.inactive = FALSE]]

\* A Consumer is copied.
acquire(t, k) == [t EXCEPT ![k].refcount = @ + 1]

\* A Consumer is destroyed.
release(t, k) ==
    [t EXCEPT ![k].refcount = @ - 1, ![k].inactive = t[k].refcount = 1]

balance(t, k) == t[k].local_balance + t[k].remote_balance

charge(t, k, fee) == [t EXCEPT ![k].local_balance = @ + fee]

overDrop(t, k) == balance(t, k) >= dropThreshold

\* Consumer::disconnect: whether to drop is overDrop, asked before the fee.
disconnect(t, k) == IF overDrop(t, k) THEN charge(t, k, feeDrop) ELSE t

Items(gossip, k) == Cardinality({e \in gossip : InboundKey(e) = k})

\* The table after consumers for the endpoints of `added` are made, and then
\* those for the endpoints of `dropped` are destroyed; an item's balance is 1.
Exchanged(t, added, dropped) ==
    [k \in EntryKey |->
        LET entry == IF t[k] = Absent /\ Items(added, k) > 0 THEN NewEntry ELSE t[k]
            by    == Items(added, k) - Items(dropped, k)
        IN  IF Items(added, k) = 0 /\ Items(dropped, k) = 0 THEN t[k]
            ELSE [entry EXCEPT !.refcount = @ + by,
                               !.remote_balance = @ + by,
                               !.inactive = entry.refcount + by = 0]]

Previous(o) == IF import_table[o] = Absent THEN {} ELSE import_table[o]

importConsumers_added(o, gossip) ==
    /\ table' = [k \in EntryKey |->
                    LET t == Exchanged(table, gossip, Previous(o))
                    IN  IF t[k] = Absent \/ Items(Previous(o), k) = 0 THEN t[k]
                        ELSE [t[k] EXCEPT !.remote_balance = @ + Items(Previous(o), k)]]
    /\ import_table' = [import_table EXCEPT ![o] = gossip]

importConsumers(o, gossip) ==
    /\ table' = Exchanged(table, gossip, Previous(o))
    /\ import_table' = [import_table EXCEPT ![o] = gossip]

Inactive == {k \in EntryKey : table[k] # Absent /\ table[k].inactive}
Imported == {o \in Origin : import_table[o] # Absent}

\* `entries` and `origins` have expired; entries an import releases only now
\* are not looked at in this pass.
periodicActivity(entries, origins) ==
    /\ entries \subseteq Inactive
    /\ origins \subseteq Imported
    /\ table' = LET erased  == [k \in EntryKey |-> IF k \in entries THEN Absent ELSE table[k]]
                    dropped == [o \in Origin |-> IF o \in origins THEN import_table[o] ELSE {}]
                IN  [k \in EntryKey |->
                       LET by == Cardinality({q \in Origin \X ResEndpoint :
                                                q[2] \in dropped[q[1]] /\ InboundKey(q[2]) = k})
                       IN  IF by = 0 THEN erased[k]
                           ELSE [erased[k] EXCEPT !.refcount = @ - by,
                                                  !.remote_balance = @ - by,
                                                  !.inactive = erased[k].refcount = by]]
    /\ import_table' = [o \in Origin |-> IF o \in origins THEN Absent ELSE import_table[o]]

decay(k) ==
    /\ table[k] # Absent
    /\ table[k].local_balance > 0
    /\ table' = charge(table, k, -1)
    /\ UNCHANGED import_table
================================================================================
