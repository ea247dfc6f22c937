--------------------------- MODULE BuyAgentClaims ---------------------------
(***************************************************************************)
(* What a comment or a test of the repository says of the buy-order        *)
(* backend and its money service, and the code does not do.  Each is       *)
(* stated here as the text has it, and refuted by a run of its own, on an  *)
(* instance where nothing outside fails and no process is dropped.         *)
(***************************************************************************)
EXTENDS BuyAgent

Busy(m) == \E p \in Processes : proc[p].mon = m \/ m \in proc[p].todo

\* "A DECLINED leaves the hold intact so a later offer can try again"
\* (money/money.mjs:110): when the engine gives up on a declined attempt that
\* left the hold committed, another execution of the watch can be claimed.  The
\* store keeps the row of the failed attempt, and the key with it.
DeclinedCanTryAgain ==
    [][\A p \in Processes, m \in Monitors :
          /\ proc[p].mon = m /\ proc[p].answer = "declined"
          /\ LatestHold(m) = "committed"
          /\ AbandonExecution(p)
          => CanClaimExecution(m)']_vars

\* "keep settling in the background, and let find_order() resolve it"
\* (money/money.mjs:200): an order that settles late ends up recorded.  The
\* engine answers the order find_order returns without recording it.
LateOrderIsResolved ==
    \A m \in Monitors : bought[m] # << >> ~> status[m] = "purchased"

\* "every terminal state lands here. No lingering hold, ever"
\* (money/money.mjs:208): a cancelled or expired watch that nobody is working
\* on has no hold left.  An authorization is accepted whatever the status: one
\* sent, or still under way, after the watch stopped commits a hold that nobody
\* releases.
NoLingeringHold ==
    \A m \in Monitors :
        status[m] \in {"cancelled", "expired"} /\ ~Busy(m)
            => LatestHold(m) \notin {"committed", "unconfirmed"}

=============================================================================
