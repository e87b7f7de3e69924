SPECIFICATION FairSpec
CONSTANTS
    k1 = k1
    k2 = k2
    t1 = t1
    t2 = t2
    NoTab = NoTab
    NoOrder = NoOrder
    Orders <- TwoOrders
    Tabs <- TwoTabs
    MaxRetry = 1
    Setups <- AllSetups
CHECK_DEADLOCK FALSE
INVARIANTS TypeOK SettledIsReal ImportedWithinPermit CreatedOnce
PROPERTIES EventuallySettled
