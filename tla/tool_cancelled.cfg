SPECIFICATION CallSpec
CONSTANTS
    c1 = c1
    c2 = c2
    reader = reader
    open = open
    closed = closed
    Caller = {c1, c2}
    Leeway = 2
    Backdate = 0
    JwtTTL = 4
    Lifetime = 3
    Timeout = 1
    MaxAhead = 1
    MaxTime = 1
    MaxRefreshes = 1
    Role = {reader}
    RoleTools <- Readers
    Repo = {open, closed}
    Allowlist = {open}
    MaxPages = 2
INVARIANTS
    OkMeansReturned
SYMMETRY CallSymmetry
CHECK_DEADLOCK FALSE
