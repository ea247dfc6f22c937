------------------------------- MODULE Domain -------------------------------
(***************************************************************************)
(* The status of a monitor (one buy order) and the transition relation the *)
(* domain crate declares for it.  The Store never consults the relation:   *)
(* its UPDATE statements carry their own WHERE clauses, and the module     *)
(* BuyAgent checks what those clauses allow against this relation.         *)
(***************************************************************************)
CONSTANT None   \* an Option that holds nothing, SQL NULL

MonitorStatuses ==
    {"active", "evaluating", "executing", "purchased",
     "payment_required", "failed", "expired", "cancelled"}

\* MonitorStatus::can_transition_to
CanTransitionTo(from, to) ==
    \/ /\ from = "active"
       /\ to \in {"evaluating", "payment_required", "expired", "cancelled"}
    \/ /\ from = "evaluating"
       /\ to \in {"active", "executing", "payment_required", "expired", "cancelled"}
    \/ /\ from = "executing"
       /\ to \in {"purchased", "active", "payment_required", "failed"}
    \/ /\ from = "payment_required"
       /\ to \in {"active", "cancelled", "expired"}
    \/ /\ from = "failed"
       /\ to \in {"active", "cancelled"}
    \/ /\ from = to
       /\ to \in {"purchased", "expired", "cancelled"}

\* MonitorStatus::is_terminal
IsTerminal(s) == s \in {"purchased", "expired", "cancelled"}

=============================================================================
