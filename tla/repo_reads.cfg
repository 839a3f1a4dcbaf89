SPECIFICATION MCSpec
CONSTANTS
    r1 = r1
    r2 = r2
    r3 = r3
    r4 = r4
    r5 = r5
    Repos = {r1, r2, r3, r4, r5}
    Allowlist = {r1, r2, r3}
    PageSize = 2
    PageLimit = 2
    Objects <- SomeObjects
    Notice <- ARedirect
    InlineMax = 4
    RawMax = 7
    MaxBytes = 3
    MaxResults = 2
    Quota = 3
    MaxChanges = 3
    MaxMatches = 3
INVARIANTS
    ReadsTypeOK
    ContentOfOneVersion
    SizesAgree
    ListingComplete
    LimitsAreTold
    SearchWithinScope
PROPERTIES
    KeepsToItsBody
SYMMETRY ReadsSymmetry
CHECK_DEADLOCK FALSE
