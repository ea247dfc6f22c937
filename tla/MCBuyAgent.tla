----------------------------- MODULE MCBuyAgent -----------------------------
(***************************************************************************)
(* Small instances of BuyAgent.  Two products; an offer under the ceiling, *)
(* one at the ceiling, and one of the other product above it.              *)
(***************************************************************************)
EXTENDS BuyAgentClaims, TLC

MCLower(t) == t

Console == [name |-> "console", model |-> "x1", identifiers |-> << >>]
Tablet == [name |-> "tablet", model |-> None, identifiers |-> << >>]

MCProducts == {Console, Tablet}
MCOneProduct == {Console}

Offer(p, total) ==
    [product |-> p, retailer |-> "demo", available |-> TRUE, item_price_minor |-> total,
     shipping_minor |-> 0, total_minor |-> total, currency |-> "eur",
     condition |-> "new", variants |-> << >>]

MCOffers == {Offer(Console, 8), Offer(Console, 10), Offer(Tablet, 12)}
MCTwoProducts == {Offer(Console, 8), Offer(Tablet, 10)}
MCOneOffer == {Offer(Console, 8)}

MCAmounts == {8, 10, 12}
MCFewAmounts == {8, 10}

MCMandate ==
    [m \in Monitors |-> [maximum_total_minor |-> 10, currency |-> "eur", condition |-> "new",
                         variants |-> << >>, bundles_allowed |-> FALSE,
                         approved_retailers |-> {"demo"}]]

WorkerSymmetry == Permutations(Workers)

=============================================================================
