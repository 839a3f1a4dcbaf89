SPECIFICATION CallSpec
CONSTANTS
    c1 = c1
    c2 = c2
    reader = reader
    open = open
    closed = closed
    Caller = {c1, c2}
    Leeway = 2
    Backdate = 1
    JwtTTL = 5
    Lifetime = 4
    Timeout = 1
    MaxAhead = 1
    MaxTime = 4
    MaxRefreshes = 2
    Role = {reader}
    RoleTools <- Readers
    Repo = {open, closed}
    Allowlist = {open}
    MaxPages = 2
INVARIANTS
    CallTypeOK
    OneRecordPerCall
    TokenOutlivesRequest
    SingleFlight
    HandedOutUsable
    OwnCancelOnly
    JwtInWindow
PROPERTIES
    UsesItsParts
    NoNeedlessRefresh
SYMMETRY CallSymmetry
CHECK_DEADLOCK FALSE
