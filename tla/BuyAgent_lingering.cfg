CONSTANTS
    None = None
    Lower <- MCLower
    Monitors = {m1}
    Products <- MCProducts
    Workers = {w1}
    Handlers = {h1}
    Offers <- MCOffers
    Amounts <- MCAmounts
    Mandate <- MCMandate
    FundsWired = TRUE
    OutsideReliable = TRUE
    MaxArms = 1
    MaxDrops = 0
SPECIFICATION Spec
INVARIANT NoLingeringHold
