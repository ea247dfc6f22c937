---------------------------- MODULE MCBitrefill ----------------------------
(***************************************************************************)
(* Small instances of Bitrefill.  Every mix connects the session first.    *)
(***************************************************************************)
EXTENDS Bitrefill, TLC

CONSTANTS q1, q2

Bounded(ops, qs, time, starts, tokens, reprices, dropped) ==
    [ops |-> {"start", "callback"} \cup ops, quotes |-> qs, time |-> time, starts |-> starts, tokens |-> tokens,
     reprices |-> reprices, drops |-> dropped]

\* The account with its catalogue; one quote with what may stop it; a quote, or
\* two under one budget, with their invoices; setups, until the session ends.
MCAccount == Bounded({"disconnect", "search"}, {q1}, 0, 2, 2, 0, 1)
MCStop == Bounded({"search", "details", "quote", "approve", "purchase", "disconnect"}, {q1}, 0, 1, 1, 0, 1)
MCOrder == Bounded({"match", "approve", "purchase", "cancel", "order"}, {q1}, 1, 1, 1, 1, 1)
MCBudget == Bounded({"match", "approve", "purchase", "order"}, {q1, q2}, 0, 1, 1, 0, 1)
MCSetup == Bounded({"match", "setup", "cancel"}, {q1}, 2, 1, 1, 2, 0)

MCMixes == {MCAccount, MCStop, MCOrder, MCBudget, MCSetup}

MCPriceList == <<6, 8, 11>>

MCSymmetry == Permutations(Requests) \cup Permutations(Replicas)

=============================================================================
