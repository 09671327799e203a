SPECIFICATION Spec
CONSTANTS
    c1 = c1
    c2 = c2
    c3 = c3
    Caller = {c1, c2, c3}
    Sizes = {0, 1, 2, 3}
    MaxNodes = 3
    MaxCalls = 5
SYMMETRY Symmetry
INVARIANTS
    PickInRange
    CounterBounded
    SerialFairTurns
CHECK_DEADLOCK FALSE
