SPECIFICATION PlacementSpec
CONSTANTS
    c1 = c1
    c2 = c2
    c3 = c3
    c4 = c4
    Calls <- FourCalls
    Abortable <- TrackerCalls
    FailureThreshold = 2
    Cooldown = 3
    Timeout = 2
    DualChoices <- EitherIntake
    p1 = p1
    p2 = p2
    o1 = o1
    o2 = o2
    m1 = m1
    Products <- TwoProducts
    Orders <- TwoOrders
    Editors <- OneEditor
    Unlimited = Unlimited
    MaxQuantity <- Quantities
    MaxSupply = 1
    MaxVersion <- Versions
INVARIANTS AtMostOneProbe HalfOpenHasProbe
           PortionsConserved OrdersHoldTheirLines VersionIdentifiesStock
PROPERTIES BreakerRecovers ConsumedIsGone
