SPECIFICATION FairSpec
CONSTANTS
    shown = shown
    other = other
    Experiments <- TwoExperiments
    Pages <- OnePage
    Posts = {p1}
    Hourly = Hourly
    None = None
    MaxFacts <- FactsOf
    Alarming <- AlarmsOf
INVARIANTS
    PageAtMostOneBehind
PROPERTIES
    OthersAreAnalysed
    PostsEnd
CHECK_DEADLOCK FALSE
