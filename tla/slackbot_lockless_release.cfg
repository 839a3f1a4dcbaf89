SPECIFICATION Spec
CONSTANTS
    e1 = e1
    e2 = e2
    e3 = e3
    e4 = e4
    p1 = p1
    w1 = w1
    w2 = w2
    NoPair = NoPair
    Event = {e1, e2, e3}
    Anonymous = {}
    SelfMessages = {}
    Denied = {}
    NoChannel = {}
    Pair = {p1}
    PairOf <- OnePair
    Invocation = {w1, w2}
    Faults = {"store_error"}
    MaxFaults = 1
    MaxSends = 1
    MaxRetries = 0
INVARIANTS
    LockExclusive
CHECK_DEADLOCK FALSE
