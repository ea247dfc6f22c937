CONSTANTS
    None = None
    Lower <- MCLower
    Monitors = {m1}
    Products <- MCOneProduct
    Workers = {w1, w2}
    Handlers = {h1}
    Offers <- MCOneOffer
    Amounts <- MCFewAmounts
    Mandate <- MCMandate
    FundsWired = FALSE
    OutsideReliable = FALSE
    MaxArms = 1
    MaxDrops = 1
SPECIFICATION FairSpec
PROPERTIES
    WatchIsCheckedAgain
    OverdueWatchStops
    EveryExecutionEnds
