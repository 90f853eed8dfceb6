SPECIFICATION FairSpec
CONSTANTS
    MaxComponents = 3
    PerLayer = 2
    QueueDepth = 2
    Settle = 2
    CounterMod = 3
    User = "patient"
    Overshoot = FALSE
    Faults = FALSE
    MaxPending = 3
INVARIANTS OpenDoorHasButton DoorWaitsForUser
PROPERTIES RequestServed FinishReleasesBoth
CHECK_DEADLOCK FALSE
