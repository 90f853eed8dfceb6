SPECIFICATION Spec
CONSTANTS
    MaxComponents = 2
    Top = 4
    Vals = {"10k", "long"}
    LongVals = {"long"}
    Typed <- TypedNumbers
    Nothing = Nothing
    Faults = TRUE
INVARIANTS RowsMatchStore NoTwins StoreCountsParts
