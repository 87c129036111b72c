SPECIFICATION FairSpec
CONSTANTS
    t1 = t1
    t2 = t2
    t3 = t3
    Keys = {k1}
    Workers <- MCWorkers
    NoThread = NoThread
    NoFrame = NoFrame
    RpmLimit <- MCRpmLimit
    Budget <- MCBudget
    MaxCost = 1
    MaxNow = 1
    MonthOf <- MCMonthOf
INVARIANTS
    TypeOK
    LockDiscipline
    FreshRead
    WindowLimit
PROPERTIES
    RequestEnds
    HardStop
    ImplementsLedger
