SPECIFICATION FairSpec
CONSTANTS
    d1 = d1
    w1 = w1
    w2 = w2
    Deliveries <- OneDelivery
    Workers <- TwoWorkers
    NoLease = NoLease
    DeadLease = DeadLease
    MaxAttempts = 2
    BatchLimit = 1
    LeaseTicks = 1
    ExpiryTicks = 4
    TestDelay = 1
    RetryBase = 1
    RetryCap = 1
    CycleLimit = 2
    MaxCrashes = 1
INVARIANTS SendsBounded
PROPERTIES OnlyHolderSettles EventuallySettled
