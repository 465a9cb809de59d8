SPECIFICATION MCSpec
CONSTANTS
    Clients = {c1, c2}
    Null = Null
    Absent = Absent
    NoSegment = NoSegment
    MaxRequests = 5
    FewRequests = 3
    Rollouts = {0, 50}
    Conditions = {german}
    Experiments = {e1}
    Users = {u1}
    Thresholds = {5}
    Accounts = {ann, bob}
    CustomRoles = {ops}
SYMMETRY Symmetry
INVARIANT
    ValidUpdatesPass
CHECK_DEADLOCK FALSE
