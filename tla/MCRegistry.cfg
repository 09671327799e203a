SPECIFICATION Spec
CONSTANTS
    n1 = n1
    n2 = n2
    n3 = n3
    users = users
    orders = orders
    garbled = garbled
    Node = {n1, n2, n3}
    Service = {users, orders}
    Meta = {users, orders, garbled}
    MaxMembers = 4
SYMMETRY Symmetry
INVARIANTS
    TypeOK
    MembersExact
    PanicNeedsTaint
    DiscoverExact
PROPERTIES
    DirSpec
CHECK_DEADLOCK FALSE
