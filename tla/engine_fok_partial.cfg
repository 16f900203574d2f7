SPECIFICATION Spec
CONSTANTS
    s1 = s1
    s2 = s2
    o1 = o1
    o2 = o2
    o3 = o3
    a = a
    b = b
    NULL = NULL
    Symbols = {s1}
    Ids = {o1, o2, o3}
    Participants = {a, b}
    Prices = {1, 2}
    Quantities = {1, 2}
    Styles <- FokSelfStyles
    Calls <- AddOnly
    UniqueIds = TRUE
    MaxSequence = 6
INVARIANTS FokAllOrNothing
