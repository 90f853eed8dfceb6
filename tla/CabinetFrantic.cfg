SPECIFICATION RestSpec
CONSTANTS
    MaxComponents = 2
    PerLayer = 1
    QueueDepth = 1
    Settle = 2
    CounterMod = 4
    User = "frantic"
    Overshoot = FALSE
    Faults = FALSE
    MaxPending = 4
PROPERTIES OpensForOldest
CHECK_DEADLOCK FALSE
