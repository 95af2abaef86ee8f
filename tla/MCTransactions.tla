--------------------------- MODULE MCTransactions ---------------------------
(* Scenarios for the way of transactions through a server.                 *)
EXTENDS Transactions

Tx(id, src, seq, dst, amt) ==
    [id |-> id, src |-> src, seq |-> seq, dst |-> dst, amt |-> amt,
     fee |-> 1, last |-> 0, ts |-> 0, good |-> TRUE]

MCAccount == {"A", "B", "C", "F"}
MCGenesis ==
    [a \in MCAccount |-> CASE a = "A" -> [seq |-> 1, bal |-> 9]
                           [] a = "C" -> [seq |-> 1, bal |-> 4]
                           [] OTHER -> [seq |-> 0, bal |-> 0]]

(* A funds B; then pays it again, by a given ledger or at any time; a      *)
(* message that only claims its fee while B does not exist; B answers.  A  *)
(* payment that has to wait for C's; one with a fee above the reserve, one *)
(* with a fee above the balance; one that is put off; ones that are        *)
(* refused.                                                                *)
fund    == Tx(4, "A", 1, "B", 4)
more    == [Tx(2, "A", 2, "B", 1) EXCEPT !.last = 3]
next    == Tx(13, "A", 2, "B", 1)
message == Tx(3, "A", 1, "B", 0)
back    == Tx(1, "B", 1, "A", 0)
huge    == Tx(8, "A", 1, "C", 8)
refill  == Tx(9, "C", 1, "A", 2)
poor    == [Tx(11, "C", 1, "A", 0) EXCEPT !.fee = 5]
dear    == [Tx(10, "A", 1, "C", 7) EXCEPT !.fee = 3]
late    == [Tx(5, "A", 1, "F", 2) EXCEPT !.ts = 4]
cheap   == [Tx(6, "A", 1, "B", 4) EXCEPT !.fee = 0]
self    == Tx(12, "A", 1, "A", 1)
bad     == [Tx(7, "A", 1, "B", 4) EXCEPT !.good = FALSE]

Order(f, g) == [a \in MCAccount |-> CASE a = f -> 1 [] a = g -> 2 [] OTHER -> 3]

(* Two transactions of one client.                                         *)
Chain ==
    [client |-> {fund, more}, peer |-> {}, failHard |-> {}, sets |-> {{fund}},
     maxSeq |-> 4, salted |-> Order("A", "B"),
     unsalted |-> Order("A", "B")]
(* A client and a peer use the same sequence number.                       *)
Conflict ==
    [client |-> {fund}, peer |-> {message}, failHard |-> {fund},
     sets |-> {{message}},
     maxSeq |-> 3, salted |-> Order("A", "B"),
     unsalted |-> Order("A", "B")]
(* A transaction that depends on another account's.                        *)
Cross ==
    [client |-> {back, fund}, peer |-> {}, failHard |-> {}, sets |-> {{fund}},
     maxSeq |-> 3, salted |-> Order("B", "A"),
     unsalted |-> Order("B", "A")]
(* Transactions that are put off or refused.                               *)
Refused ==
    [client |-> {late, cheap}, peer |-> {bad}, failHard |-> {}, sets |-> {{self}},
     maxSeq |-> 3, salted |-> Order("A", "B"),
     unsalted |-> Order("A", "B")]
(* One that is refused at once, and two whose fee alone is claimed: a peer *)
(* closes a ledger with one that the source cannot pay in full.            *)
Claims ==
    [client |-> {dear, bad}, peer |-> {}, failHard |-> {}, sets |-> {{dear, poor}},
     maxSeq |-> 3, salted |-> Order("A", "C"),
     unsalted |-> Order("A", "C")]
(* Payments that depend on the funds of one another.                       *)
Funds ==
    [client |-> {huge, refill}, peer |-> {}, failHard |-> {},
     sets |-> {{huge, refill}},
     maxSeq |-> 3, salted |-> Order("A", "C"),
     unsalted |-> Order("A", "C")]

(* A client's transaction that a peer's follows, and the network may agree *)
(* on neither.                                                             *)
Mixed ==
    [client |-> {fund}, peer |-> {next}, failHard |-> {}, sets |-> {},
     maxSeq |-> 3, salted |-> Order("A", "B"),
     unsalted |-> Order("A", "B")]

MCSetups == {Chain, Conflict, Cross, Refused, Claims, Funds, Mixed}
============================================================================
