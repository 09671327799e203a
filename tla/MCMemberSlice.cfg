SPECIFICATION Spec
CONSTANTS
    n1 = n1
    n2 = n2
    n3 = n3
    users = users
    Nil = Nil
    Node = {n1, n2, n3}
    Service = {users}
    Meta = {users}
    Svc = users
    MaxArrays = 3
    Cap <- MCCap
    MaxOverlap = 2
SYMMETRY Symmetry
INVARIANTS
    CalmDiscoverExact
    JoinsHideNothing
    CrashNeedsJoin
    GhostNeedsAppend
CHECK_DEADLOCK FALSE
