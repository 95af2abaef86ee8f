------------------------- MODULE MCInboundLedger -------------------------
(* A ledger of a header, a state tree of a root and a leaf, and a          *)
(* transaction tree of a root: enough for a part to be there, to come with *)
(* the header, or to be missing.  Each choice of bounds is about one kind  *)
(* of race: two jobs in trigger, a swept ledger that is acquired again,    *)
(* local data that arrives during the acquisition.                         *)
EXTENDS InboundLedger

CONSTANTS w1, w2

MCLeaves == [p \in {"as", "tx"} |-> IF p = "as" THEN {"a"} ELSE {}]
MCPackets ==
    {[type |-> "base", nodes |-> {header, Root("as"), Root("tx")}, bad |-> "none"],
     [type |-> "as", nodes |-> {<<"as", "a">>}, bad |-> "none"],
     [type |-> "as", nodes |-> {}, bad |-> "corrupt"]}
MCLocalData == {{header, Root("as"), <<"as", "a">>}, {corrupt}}

B(p, a, s, ts, rs) == [packets |-> p, arrivals |-> a, sweeps |-> s, threads |-> ts, reasons |-> rs]
MCBounds ==
    {B(3, 0, 0, {w1, w2}, {"HISTORY"}), B(2, 0, 1, {w1}, {"GENERIC"}),
     B(2, 1, 0, {w1, w2}, {"CONSENSUS"}), B(1, 1, 1, {w1}, {"HISTORY"})}
==========================================================================
