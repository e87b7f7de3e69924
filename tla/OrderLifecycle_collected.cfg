SPECIFICATION Spec
CONSTANTS
    s1 = s1
    s2 = s2
    i1 = i1
    i2 = i2
    NoRequest = NoRequest
    Staff <- TwoStaff
    Items <- TwoItems
    PackingItems <- OnePacked
    Kinds <- AllOrders
    Crew <- Crews
    Timeout = 2
INVARIANTS
    CollectedIsNotOwed
