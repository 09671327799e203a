SPECIFICATION Spec
CONSTANTS
    c1 = c1
    c2 = c2
    Caller = {c1, c2}
    Sizes = {3}
    MaxNodes = 3
    MaxCalls = 6
SYMMETRY Symmetry
INVARIANTS
    FairTurns
CHECK_DEADLOCK FALSE
