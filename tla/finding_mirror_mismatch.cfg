SPECIFICATION Spec
CHECK_DEADLOCK FALSE
CONSTANTS
    MirrorCount = 2
    MaxRetries = 2
INVARIANT FirstHashValidWins
