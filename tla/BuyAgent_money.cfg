CONSTANTS
    None = None
    Lower <- MCLower
    Monitors = {m1}
    Products <- MCProducts
    Workers = {w1}
    Handlers = {h1}
    Offers <- MCOffers
    Amounts <- MCAmounts
    Mandate <- MCMandate
    FundsWired = TRUE
    OutsideReliable = FALSE
    MaxArms = 2
    MaxDrops = 2
SPECIFICATION Spec
INVARIANTS
    PurchaseIsCovered
PROPERTIES
    KeepsThePromise
