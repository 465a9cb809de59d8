SPECIFICATION Spec
CONSTANTS
    NoVariant = NoVariant
    NoSegment = NoSegment
    Null = Null
    NoValue = NoValue
    Control = "control"
    Before <- NameBefore
INVARIANT
    RatioDifferenceCounts
CHECK_DEADLOCK FALSE
