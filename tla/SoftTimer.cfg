SPECIFICATION FairSpec
CONSTANTS
    SoftTimers = {"first", "second"}
    ThreadTimers = {"other"}
    Own = "own"
    DelaysOf <- Times
    TickRange = 10
    MaxStall = 1
    Nobody = Nobody
INVARIANTS SleepsNoLonger WakesAtItsTick
PROPERTIES IsAlarm CallbackSleepsItsTime DueTimerFires
