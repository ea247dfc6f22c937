-------------------------- MODULE OneShotPurchase --------------------------
(***************************************************************************)
(* What the buy-order backend promises of a monitor, whatever fails: one   *)
(* attempt to buy, at most one charge, within the ceiling, never a charge  *)
(* without an attempt, and "bought" only after the charge.  The charge and *)
(* the answer about it are separate: an attempt may be given up before the *)
(* retailer settles, and the watch be closed by then.                      *)
(***************************************************************************)
EXTENDS Naturals, Sequences

CONSTANTS Monitors, Amounts, Ceiling

VARIABLES
    phase,      \* none, open, buying, bought, or closed without a purchase
    tried,      \* the monitors an attempt was started for
    charged     \* the amounts charged for a monitor

vars == <<phase, tried, charged>>

Phases == {"none", "open", "buying", "bought", "closed"}

Init ==
    /\ phase = [m \in Monitors |-> "none"]
    /\ tried = {}
    /\ charged = [m \in Monitors |-> << >>]

Move(m, from, to) == phase[m] = from /\ phase' = [phase EXCEPT ![m] = to]

Open(m) == Move(m, "none", "open") /\ UNCHANGED <<tried, charged>>

Start(m) ==
    /\ m \notin tried
    /\ tried' = tried \cup {m}
    /\ Move(m, "open", "buying")
    /\ UNCHANGED charged

Charge(m) ==
    /\ m \in tried
    /\ charged[m] = << >>
    /\ \E a \in Amounts :
          /\ a <= Ceiling[m]
          /\ charged' = [charged EXCEPT ![m] = <<a>>]
    /\ UNCHANGED <<phase, tried>>

Succeed(m) ==
    /\ charged[m] # << >>
    /\ Move(m, "buying", "bought")
    /\ UNCHANGED <<tried, charged>>

GiveUp(m) == Move(m, "buying", "open") /\ UNCHANGED <<tried, charged>>

\* A cancellation closes one watch, the expiry sweep any number of them.
Close(some) ==
    /\ \A m \in some : phase[m] = "open"
    /\ phase' = [m \in Monitors |-> IF m \in some THEN "closed" ELSE phase[m]]
    /\ UNCHANGED <<tried, charged>>

Next ==
    \/ \E m \in Monitors : Open(m) \/ Start(m) \/ Charge(m) \/ Succeed(m) \/ GiveUp(m)
    \/ \E some \in SUBSET Monitors : Close(some)

Spec == Init /\ [][Next]_vars

=============================================================================
