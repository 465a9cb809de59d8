SPECIFICATION Spec
CONSTANTS
    shown = shown
    other = other
    Experiments <- TwoExperiments
    Pages <- OnePage
    Posts = {p1}
    Hourly = Hourly
    None = None
    MaxFacts <- FactsOf
    Alarming <- AlarmsOf
PROPERTY
    HourlySaves
CHECK_DEADLOCK FALSE
