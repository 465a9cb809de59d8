SPECIFICATION Spec
CONSTANTS
    Clients = {c1, c2}
    Outcomes = {ship, stop}
    None = None
    MaxTime = 5
INVARIANTS
    DatesFollowStatus
    EnrolledIsKept
    MirrorIsLogged
    SerialMirror
PROPERTIES
    StatusMoves
    SerialHistory
CHECK_DEADLOCK FALSE
