SPECIFICATION Spec
CONSTANTS
    s1 = s1
    s2 = s2
    o1 = o1
    o2 = o2
    o3 = o3
    a = a
    b = b
    NULL = NULL
    Symbols = {s1, s2}
    Ids = {o1, o2, o3}
    Participants = {a}
    Prices = {1, 2}
    Quantities = {0, 1}
    Styles <- GtcStyles
    Calls <- AllCalls
    UniqueIds = TRUE
    MaxSequence = 5
SYMMETRY IdSymmetry
INVARIANTS IndexComplete ReloadExact
PROPERTIES PriceTime
