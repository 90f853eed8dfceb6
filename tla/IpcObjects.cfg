SPECIFICATION Spec
CONSTANTS
    Threads = {"high", "mid", "low"}
    Prio <- PrioOf
    Flag = "PRIO"
    SemInitial = 1
    SemMax = 2
    Bits = {1, 2}
    Wishes <- EventWishes
    Mails = {"m", "n"}
    NoMail = NoMail
    MbSize = 2
    MbEntryMax = 3
    Mutexes = {"a", "b"}
    MutexPrio <- MutexPrioOf
    HoldMax = 2
    Nobody = Nobody
INVARIANTS SemBalanced NobodySatisfiedSleeps MbNoLostWakeUp HoldsAreTheOwners LoansEnd WaiterNotOutranked
PROPERTIES BitsGivenOnce MbIsChannel
\* Every caller may sleep for ever, with nobody left to wake it, or each wait for
\* a mutex of the other.
CHECK_DEADLOCK FALSE
