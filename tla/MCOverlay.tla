------------------------------- MODULE MCOverlay -------------------------------
(***************************************************************************)
(* Three hosts: n0 is the node itself, n1 and n2 are others.                *)
(***************************************************************************)
EXTENDS Overlay

CONSTANTS n0, n1, n2, k1, k2

MCConn == 1..4
MCKey == {k1, k2}
MCEndpoint == {<<n0, 9>>, <<n1, 1>>, <<n2, 1>>, <<n1, 7>>, <<n1, 8>>, <<n2, 7>>}

Plainly == [inConn |-> {}, outConn |-> {}, inEndpoints |-> {}, fixed |-> {}, boot |-> {},
            live |-> {}, redirects |-> {}, keys |-> {k1}, cluster |-> {}, self |-> n0,
            maxPeers |-> 2, outPeers |-> 1, roundUp |-> FALSE, wantIncoming |-> TRUE,
            autoConnect |-> TRUE, charges |-> 0, imports |-> 0, gossip |-> {},
            stops |-> FALSE]

\* Inbound connections of two nodes for one place.
Crowd == [Plainly EXCEPT !.inConn = {1, 2}, !.keys = {k1, k2},
                         !.inEndpoints = {<<n1, 7>>, <<n1, 8>>, <<n2, 7>>}]
\* Two fixed peers; the node of one connects from its side too.
Both == [Plainly EXCEPT !.inConn = {1}, !.outConn = {3, 4}, !.inEndpoints = {<<n1, 7>>},
                        !.fixed = {<<n1, 1>>, <<n2, 1>>}]
\* Two outbound peers for one place, found in three ways, one is ourselves.
Finding == [Plainly EXCEPT !.inConn = {1}, !.outConn = {2, 3, 4}, !.inEndpoints = {<<n0, 9>>},
                           !.boot = {<<n1, 1>>}, !.live = {<<n2, 1>>},
                           !.redirects = {<<n2, 1>>, <<n1, 7>>}, !.roundUp = TRUE,
                           !.keys = {k1}]
\* Peers that use too much, and what the cluster says of them.
Gossiping == [Plainly EXCEPT !.inConn = {1, 2}, !.keys = {k1, k2}, !.cluster = {k2},
                             !.inEndpoints = {<<n1, 7>>, <<n2, 7>>}, !.charges = 1,
                             !.imports = 2, !.gossip = {{<<n1, 1>>, <<n1, 8>>}, {}}]
\* A stop.
Stopping == [Plainly EXCEPT !.inConn = {1}, !.outConn = {3},
                            !.inEndpoints = {<<n2, 7>>}, !.boot = {<<n1, 1>>},
                            !.keys = {k1, k2}, !.stops = TRUE]

MCSetups == {Crowd, Both, Finding, Gossiping, Stopping}
MCFixed  == {[Both EXCEPT !.inConn = {}, !.outConn = {1, 2, 3, 4}]}
================================================================================
