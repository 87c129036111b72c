SPECIFICATION Spec
CONSTANTS
    N = 3
    MaxAttempts = 3
    MaxPieces = 3
PROPERTIES
    NoCallAfterRefusalInStreams
CHECK_DEADLOCK FALSE
