SPECIFICATION Spec
CONSTANTS
    Glyphs <- SomeGlyphs
    NoticeLength = 1
    Limits <- SmallLimits
    MaxLength = 9
INVARIANTS
    FencesClosed
CHECK_DEADLOCK FALSE
