SPECIFICATION Spec
CONSTANTS
    NoVariant = NoVariant
    NoSegment = NoSegment
    Null = Null
    NoValue = NoValue
    Control = "control"
    Before <- NameBefore
INVARIANTS
    BucketsFollowSplits
    PreviewMatchesQuery
    RolloutOnlyGrows
    CorrectionIsStepUp
    SamplesAgree
    WinnersAreExplained
CHECK_DEADLOCK FALSE
