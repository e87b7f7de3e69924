SPECIFICATION FairSpec
CONSTANTS
    e1 = e1
    w1 = w1
    w2 = w2
    w3 = w3
    Entries <- MCEntries
    Workers <- MCWorkers
    NoWorker = NoWorker
    MaxAttempts = 2
    BatchLimit = 1
    LeaseTicks = 3
    CycleLimit = 2
    RetryDelays <- MCRetryDelays
INVARIANTS SingleSender AcceptedBounded
PROPERTIES ImplementsBoundedDelivery EveryEntrySettles
