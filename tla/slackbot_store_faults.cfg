SPECIFICATION Spec
CONSTANTS
    e1 = e1
    e2 = e2
    e3 = e3
    e4 = e4
    p1 = p1
    w1 = w1
    w2 = w2
    NoPair = NoPair
    Event = {e1, e2, e3, e4}
    Anonymous = {e3}
    SelfMessages = {e4}
    Denied = {}
    NoChannel = {}
    Pair = {p1}
    PairOf <- FirstHasAPair
    Invocation = {w1}
    Faults = {"store_error", "lost_reply", "stale_read", "early_sweep", "worker_crash", "post_fail"}
    MaxFaults = 2
    MaxSends = 1
    MaxRetries = 1
INVARIANTS
    TypeOK
    WorkIsTheWinners
    NoLockOutlivesItsRun
    OkMeansDelivered
CHECK_DEADLOCK FALSE
