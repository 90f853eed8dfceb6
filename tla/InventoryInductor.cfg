SPECIFICATION Spec
CONSTANTS
    MaxComponents = 2
    Top = 2
    Vals = {"10u"}
    LongVals = {}
    Typed = {1}
    Nothing = Nothing
    Faults = FALSE
PROPERTIES FindsWhatIsStored
