SPECIFICATION FairSpec
CONSTANTS
    s1 = s1
    s2 = s2
    o1 = o1
    o2 = o2
    o3 = o3
    a = a
    b = b
    NULL = NULL
    Symbols = {s1}
    Ids = {o1, o2, o3}
    Participants = {a, b}
    Prices = {1, 2}
    Quantities = {0, 1, 2}
    Styles <- AllStyles
    Calls <- AddCancel
    UniqueIds = TRUE
    MaxSequence = 5
INVARIANTS TypeOK NeverCrossed NoEngineError IndexSound IndexComplete LevelsExact VolumeConserved FokAllOrNothing
PROPERTIES CallReturns PriceTime
