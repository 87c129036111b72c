SPECIFICATION FairAdapterSpec
CONSTANTS
    N = 3
    MaxAttempts = 3
    MaxPieces = 2
    Timeout = 2
INVARIANTS
    AdapterTypeOK
    InOrder
    FailureMeansExhausted
    FallbackIsHonest
    WaitIsBounded
PROPERTIES
    NoCallAfterRefusal
    Terminates
    ImplementsDelivery
\* one call runs to its end and stops
CHECK_DEADLOCK FALSE
