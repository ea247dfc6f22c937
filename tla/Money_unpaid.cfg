CONSTANTS
    None = None
    Instructions = {i1}
    Attempts = {1, 2}
    Requests = {r1, r2}
    Offers <- MCCheapOffers
    Ceiling = 10
    IssuerDeclines = FALSE
    MaxSales = 2
    MaxFaults = 1
SPECIFICATION Spec
INVARIANT SaleIsPaid
CHECK_DEADLOCK FALSE
