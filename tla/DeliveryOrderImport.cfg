SPECIFICATION FairSpec
CONSTANTS
    e1 = e1
    e2 = e2
    w1 = w1
    w2 = w2
    Events <- TwoEvents
    Workers <- TwoWorkers
    NoEvent = NoEvent
    Kinds <- KindPairs
    MaxAttempts = 2
    LeaseTicks = 0
    CycleLimit = 1
    RetryTicks = 1
    MaxTroubles = 1
INVARIANTS TypeOK OneInternalOrder SuccessIsReal
PROPERTIES EventuallySettled
