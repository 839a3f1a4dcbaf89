SPECIFICATION FairTurnSpec
CONSTANTS
    Glyphs <- SomeGlyphs
    NoticeLength = 1
    Limits <- SmallLimits
    MaxLength = 8
    MaxAttempts = 3
    ResponseLimit = 6
INVARIANTS
    WithinLimit
    GlyphsWhole
    SaysWhenCut
    TurnTypeOK
    OkMeansShown
    RefusalStaysPrivate
    AdviceIsSound
    OneFinalMessage
    SpendingIsRecorded
    ErrorsNameTheCause
PROPERTIES
    TurnEnds
CHECK_DEADLOCK FALSE
