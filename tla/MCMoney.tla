------------------------------ MODULE MCMoney ------------------------------
(***************************************************************************)
(* Small instances of Money: the same total at the market and through      *)
(* Zinc, another total, and one above the ceiling.                         *)
(***************************************************************************)
EXTENDS Money, TLC

Listing(merchant, total) == [merchant |-> merchant, total |-> total]

MCOffers == {Listing("market", 8), Listing("zinc", 8), Listing("zinc", 12)}
MCCheapOffers == {Listing("market", 8)}

RequestSymmetry == Permutations(Requests)

=============================================================================
