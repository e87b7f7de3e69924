SPECIFICATION PromiseSpec
CONSTANTS
    s1 = s1
    s2 = s2
    t1 = t1
    t2 = t2
    NoTime = NoTime
    Staff <- TwoStaff
    Times <- TwoTimes
    MaxVersion = 4
    o1 = o1
    o2 = o2
    l1 = l1
    l2 = l2
    None = None
    Orders <- FourOrders
    Legacy <- TwoLegacy
    PoolSize = 2
    LastDate = 2
SYMMETRY Symmetry
CHECK_DEADLOCK FALSE
INVARIANTS CodeNamesOneOrder
PROPERTIES AcceptedAsShown RefusedOnlyWhenFull
