SPECIFICATION Spec
CONSTANTS
    t1 = t1
    t2 = t2
    t3 = t3
    Keys = {k1}
    Workers <- MCWorkersPair
    NoThread = NoThread
    NoFrame = NoFrame
    RpmLimit <- MCRpmOne
    Budget <- MCBudget
    MaxCost = 1
    MaxNow = 1
    MonthOf <- MCMonthOf
INVARIANTS
    CurrentMinuteLimit
