CONSTANTS
    None = None
    Instructions = {i1}
    Attempts = {1, 2}
    Requests = {r1, r2}
    Offers <- MCOffers
    Ceiling = 10
    IssuerDeclines = TRUE
    MaxSales = 2
    MaxFaults = 1
SYMMETRY RequestSymmetry
SPECIFICATION Spec
INVARIANTS
    TypeOK
    NeverBuysTwice
    PurchaseIsPaid
    MoneyIsAccountedFor
    ZincAfterCapture
CHECK_DEADLOCK FALSE
