SPECIFICATION Spec
CONSTANTS
    j1 = j1
    w1 = w1
    w2 = w2
    Jobs <- OneJob
    Workers <- TwoWorkers
    MaxAttempts = 2
    LeaseTicks = 1
    CycleLimit = 2
    MaxDelay = 1
    MaxFaults = 1
PROPERTIES ExpiredIsRetryable
