SPECIFICATION WriterSpec
CONSTANTS
    n1 = n1
    n2 = n2
    users = users
    garbled = garbled
    Nil = Nil
    Node = {n1, n2}
    Service = {users}
    Meta = {users, garbled}
    Svc = users
    MaxArrays = 3
    Cap <- MCCap
    MaxOverlap = 2
SYMMETRY Symmetry
PROPERTIES
    SliceIsList
CHECK_DEADLOCK FALSE
