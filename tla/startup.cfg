SPECIFICATION FairSpec
CONSTANTS
    Workers = {w1, w2, w3}
    k1 = k1
    k2 = k2
    Keys = {k1, k2}
    Seeds <- MCSeeds
    NoRow = NoRow
    MaxSpend = 1
    MaxDay = 1
    MaxFaults = 2
INVARIANTS
    TypeOK
    ServesAllKeys
    RaceOnce
PROPERTIES
    SeedingKeepsRows
    ComesUp
\* at the bounds nothing is left to happen
CHECK_DEADLOCK FALSE
