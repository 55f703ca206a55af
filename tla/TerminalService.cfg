\* Up to three terminals of one tab; MCBudgets says what may go wrong with how many.
SPECIFICATION FairSpec
CONSTANTS
    None = None
    b1 = b1
    p1 = p1
    Browsers = {b1}
    PrincipalOf <- MCPrincipalOf
    MaxPerPrincipal = 2
    MaxPerInstance = 2
    EventCap = 1
    MaxOpens = 3
    MaxChunks = 2
    MaxLinks = 2
    Budgets <- MCBudgets
CHECK_DEADLOCK FALSE
INVARIANTS
    EveryPtyAccounted
    QuotaInv
    StaleRouteIsCleaned
    StreamInv
PROPERTIES
    RoutesAndPtysAgree
