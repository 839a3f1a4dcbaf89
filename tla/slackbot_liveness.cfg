SPECIFICATION FairSpec
CONSTANTS
    e1 = e1
    e2 = e2
    e3 = e3
    e4 = e4
    p1 = p1
    w1 = w1
    w2 = w2
    NoPair = NoPair
    Event = {e1, e2}
    Anonymous = {}
    SelfMessages = {}
    Denied = {}
    NoChannel = {}
    Pair = {p1}
    PairOf <- OnePair
    Invocation = {w1, w2}
    Faults = {"slow", "worker_crash", "dup_invoke", "stale_read"}
    MaxFaults = 1
    MaxSends = 2
    MaxRetries = 1
INVARIANTS
    NoMentionLost
PROPERTIES
    EveryMentionHeard
    LocksAreFreed
CHECK_DEADLOCK FALSE
