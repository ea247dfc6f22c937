CONSTANTS
    None = None
    Replicas = {p1, p2}
    Requests = {r1, r2}
    q1 = q1
    q2 = q2
    Quotes = {q1, q2}
    Mixes <- MCMixes
    PriceList <- MCPriceList
    MaxEur = 10
    DailyEur = 10
    TTL = 1
    Day = 2
    Limits = {3, 5}
    ArticlePrice = 3
    FaceValue = 5
    MaxStarts = 2
SYMMETRY MCSymmetry
SPECIFICATION Spec
INVARIANTS
    TypeOK
    OneInvoice
    BuysWhatWasApproved
    SetupIsFixed
    OneClientId
    BudgetHolds
    StateIsSingleUse
    RefreshIsSerialized
PROPERTIES
    ClaimIsDurable
    DisconnectIsFinal
CHECK_DEADLOCK FALSE
