SPECIFICATION Spec
CONSTANTS
    Clients = {c1, c2}
    None = None
    MaxTime = 5
PROPERTY
    EachMoveIsAllowed
CHECK_DEADLOCK FALSE
