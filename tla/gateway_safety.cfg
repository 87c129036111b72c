SPECIFICATION Spec
CONSTANTS
    r1 = r1
    r2 = r2
    k1 = k1
    k2 = k2
    nobody = nobody
    smart = smart
    gone = gone
    p = p
    NoText = NoText
    NoEntry = NoEntry
    NoBody = NoBody
    Keys = {k1, k2}
    Workers <- MCWorkers
    TenantOf <- MCTenantOf
    Allowed <- MCAllowed
    Known = {smart}
    Bodies <- MCBodies
    Prompts = {p}
    RpmLimit <- MCRpmLimit
    Budget <- MCBudget
    MaxCost = 2
    MaxNow = 1
    MonthOf <- MCMonthOf
SYMMETRY Symmetry
INVARIANTS
    TypeOK
    OneRow
    LoggedCostIsCharged
    SpendIsTheLoggedCost
    AnswerIsAccounted
    RejectionCostsNothing
PROPERTIES
    ImplementsLedger
\* all requests may be over
CHECK_DEADLOCK FALSE
