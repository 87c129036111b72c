SPECIFICATION AdapterSpec
CONSTANTS
    N = 1
    MaxAttempts = 1
    MaxPieces = 1
    Timeout = 1
INVARIANTS
    MidStreamFailureSurfaces
CHECK_DEADLOCK FALSE
