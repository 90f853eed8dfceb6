SPECIFICATION Spec
CONSTANTS
    MaxComponents = 3
    PerLayer = 2
    QueueDepth = 2
    Settle = 2
    CounterMod = 3
    User = "hasty"
    Overshoot = TRUE
    Faults = TRUE
    MaxPending = 4
INVARIANTS DoorOpenIsStill
PROPERTIES OpensForOldest NoPositionMerged
CHECK_DEADLOCK FALSE
