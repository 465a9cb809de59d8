SPECIFICATION FairSpec
CONSTANTS
    Webhooks = {w1, w2}
    Jobs = {j1, j2}
    MaxAttempts = 2
    MaxTries = 2
INVARIANTS
    StopsAtSuccess
PROPERTIES
    NoneIsBlocked
    PausedMeansQuiet
    JobsEnd
CHECK_DEADLOCK FALSE
