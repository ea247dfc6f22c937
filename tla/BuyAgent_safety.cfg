CONSTANTS
    None = None
    Lower <- MCLower
    Monitors = {m1}
    Products <- MCProducts
    Workers = {w1, w2}
    Handlers = {h1}
    Offers <- MCTwoProducts
    Amounts <- MCFewAmounts
    Mandate <- MCMandate
    FundsWired = TRUE
    OutsideReliable = FALSE
    MaxArms = 1
    MaxDrops = 1
SYMMETRY WorkerSymmetry
SPECIFICATION Spec
INVARIANTS
    TypeOK
    AtMostOneCheckout
    AttemptMatchesStatus
    JobsFollowStatus
    ExecutionIsExclusive
    ReleasedOnlyWhenStopped
PROPERTIES
    StatusFollowsDomain
    LeaseIsFenced
    BaselineIsFixed
