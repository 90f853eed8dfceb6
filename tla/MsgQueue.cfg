SPECIFICATION FairSpec
CONSTANTS
    Threads = {"gui", "motor", "servo"}
    Prio <- PrioOf
    Flag = "PRIO"
    Bodies = {1}
    NoMsg = NoMsg
    MaxMsgs = 2
    EntryMax = 3
INVARIANTS ListsSpelled SlotsConserved NoLostWakeUp WaitersInOrder ResetIsItsLoop
PROPERTIES IsChannel NobodySleepsOn
\* Every caller may sleep for ever, with nobody left to wake it.
CHECK_DEADLOCK FALSE
