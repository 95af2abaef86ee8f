---------------------------- MODULE Acquisition ----------------------------
(***************************************************************************)
(* What acquiring a ledger promises its callers (LedgerMaster, NetworkOPs, *)
(* LedgerCleaner): an acquisition ends once, as complete or as failed, and *)
(* is complete only when the whole ledger is in the store.  It may be      *)
(* forgotten at any time, and another one may then be started.             *)
(***************************************************************************)
CONSTANT Acquirers

VARIABLES
    status,    \* of each acquisition: "none", "active", "complete" or "failed"
    whole      \* the ledger's header and all its nodes are in the store

Init ==
    /\ status = [a \in Acquirers |-> "none"]
    /\ whole = FALSE

\* The store gains nodes and never loses the ledger.
Gather == whole => whole'

Becomes(a, s) ==
    /\ status' = [status EXCEPT ![a] = s]
    /\ s = "complete" => whole
    /\ Gather

Start(a) ==
    /\ status[a] = "none"
    /\ \E s \in {"active", "complete", "failed"} : Becomes(a, s)

Finish(a) ==
    /\ status[a] = "active"
    /\ \E s \in {"complete", "failed"} : Becomes(a, s)

Forget(a) == Becomes(a, "none")

Next ==
    \/ Gather /\ UNCHANGED status
    \/ \E a \in Acquirers : Start(a) \/ Finish(a) \/ Forget(a)

Spec == Init /\ [][Next]_<<status, whole>>
=============================================================================
