----------------------------- MODULE RuleEngine -----------------------------
(***************************************************************************)
(* The gate every offer passes before money can move: a pure function from *)
(* a monitor, an offer and the clock to the set of reasons to reject.      *)
(*                                                                         *)
(* A text is any value; Lower is ASCII case folding on texts, through      *)
(* which every comparison of the gate goes but one (see BundleNotAllowed). *)
(* None stands for an absent Option.  A HashMap is a function on the keys  *)
(* it holds.                                                               *)
(***************************************************************************)
EXTENDS Domain, Integers

CONSTANT Lower(_)    \* str::to_ascii_lowercase

SameText(a, b) == Lower(a) = Lower(b)

\* An identifier both sides carry settles the product; otherwise the model
\* does, or the name when one side has no model.
SameProduct(expected, actual) ==
    \/ \E k \in DOMAIN expected.identifiers \cap DOMAIN actual.identifiers :
          SameText(expected.identifiers[k], actual.identifiers[k])
    \/ /\ expected.model # None
       /\ actual.model # None
       /\ SameText(expected.model, actual.model)
    \/ /\ expected.model = None \/ actual.model = None
       /\ SameText(expected.name, actual.name)

VariantAgrees(offer, key, wanted) ==
    /\ key \in DOMAIN offer.variants
    /\ SameText(offer.variants[key], wanted)

\* Each RejectionReason with the condition that pushes it.  A "bundle" of
\* "none" is compared ignoring case, one of "false" exactly.
Objections(monitor, offer, late) ==
    LET wanted == monitor.constraints IN
    [ MonitorNotActive    |-> monitor.status \notin {"active", "evaluating", "executing"},
      DeadlineExpired     |-> late,
      ProductMismatch     |-> /\ monitor.product # None
                              /\ ~SameProduct(monitor.product, offer.product),
      VariantMismatch     |-> \E k \in DOMAIN wanted.variants :
                                  ~VariantAgrees(offer, k, wanted.variants[k]),
      BundleNotAllowed    |-> /\ ~wanted.bundles_allowed
                              /\ "bundle" \in DOMAIN offer.variants
                              /\ ~SameText(offer.variants["bundle"], "none")
                              /\ offer.variants["bundle"] # "false",
      ConditionMismatch   |-> /\ wanted.condition # None
                              /\ offer.condition # wanted.condition,
      RetailerNotApproved |-> /\ wanted.approved_retailers # {}
                              /\ \A r \in wanted.approved_retailers :
                                     ~SameText(r, offer.retailer),
      OutOfStock          |-> ~offer.available,
      CurrencyUnknown     |-> offer.currency = None,
      CurrencyMismatch    |-> /\ offer.currency # None
                              /\ ~SameText(offer.currency, wanted.currency),
      ItemPriceUnknown    |-> offer.item_price_minor = None,
      ShippingUnknown     |-> offer.shipping_minor = None,
      TotalUnknown        |-> offer.total_minor = None,
      TotalAboveMaximum   |-> /\ offer.total_minor # None
                              /\ offer.total_minor > wanted.maximum_total_minor ]

\* rule_engine::evaluate: the reasons to reject, none when the offer qualifies.
Evaluate(monitor, offer, late) ==
    LET o == Objections(monitor, offer, late)
    IN  {r \in DOMAIN o : o[r]}

Qualified(monitor, offer, late) == Evaluate(monitor, offer, late) = {}

=============================================================================
