SPECIFICATION LBSpec
CONSTANTS
    n1 = n1
    n2 = n2
    users = users
    garbled = garbled
    c1 = c1
    Node = {n1, n2}
    Service = {users}
    Meta = {users, garbled}
    Svc = users
    MaxNodes = 3
    Sizes = {0, 1, 2, 3}
    Caller = {c1}
    MaxCalls = 4
INVARIANTS
    FairSinceChange
PROPERTIES
    PanicOnlyUnserved
CHECK_DEADLOCK FALSE
