SPECIFICATION Spec
CONSTANTS
    e1 = e1
    e2 = e2
    e3 = e3
    e4 = e4
    p1 = p1
    w1 = w1
    w2 = w2
    NoPair = NoPair
    Event = {e1, e2}
    Anonymous = {}
    SelfMessages = {}
    Denied = {}
    NoChannel = {}
    Pair = {p1}
    PairOf <- OnePair
    Invocation = {w1, w2}
    Faults = {"slow", "handler_crash", "worker_crash", "dispatch_error", "dup_invoke", "post_fail"}
    MaxFaults = 2
    MaxSends = 2
    MaxRetries = 2
INVARIANTS
    SingleWinner
    LockExclusive
    CompletedMeansReplied
SYMMETRY WorkerSymmetry
PROPERTIES
    KeepsLifecycle
CHECK_DEADLOCK FALSE
