SPECIFICATION RestSpec
CONSTANTS
    MaxComponents = 2
    PerLayer = 1
    QueueDepth = 2
    Settle = 2
    CounterMod = 4
    User = "patient"
    Overshoot = FALSE
    Faults = FALSE
    MaxPending = 4
INVARIANTS QueuesExistWhenUsed
CHECK_DEADLOCK FALSE
