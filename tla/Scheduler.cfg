SPECIFICATION FairSpec
CONSTANTS
    Threads = {"main", "other", "idle"}
    Idle = "idle"
    First = "main"
    Prio <- PrioOf
    Slice <- SliceOf
    Levels = {1, 2, 3}
    NestMax = 2
    LockMax = 1
    DeleteTimed = FALSE
    Nobody = Nobody
INVARIANTS ListsAgree HighestRuns ContextsKept FreedIsGone
PROPERTIES TurnComes
