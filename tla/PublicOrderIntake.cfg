SPECIFICATION Spec
CONSTANTS
    s1 = s1
    s2 = s2
    k1 = k1
    k2 = k2
    r1 = r1
    r2 = r2
    r3 = r3
    r4 = r4
    Sessions <- TwoSessions
    Keys <- TwoKeys
    Requests <- FourRequests
    NoSession = NoSession
    NoKey = NoKey
    NoRequest = NoRequest
    MaxTries = 2
SYMMETRY Symmetry
CHECK_DEADLOCK FALSE
INVARIANTS SessionMatchesOrder AnswerIsOwnOrder CommittedOrderIsReturned
PROPERTIES ImplementsOrderBook
