CONSTANTS
    None = None
    Instructions = {i1}
    Stores = {s1}
    Retailers = {a1}
    Web = {x1}
    MaxFaults = 1
SPECIFICATION FairSpec
INVARIANTS
    TypeOK
    OneExecution
    BuysOnce
    PurchaseIsRecorded
    HoldFollowsStatus
PROPERTIES
    TerminalIsFinal
    DeadlineIsKept
