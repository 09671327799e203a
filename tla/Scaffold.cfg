SPECIFICATION Spec
CONSTANTS
    m1 = m1
    m2 = m2
    noname = noname
    bad = bad
    Method = {m1, m2, noname, bad}
    Sample = m1
    Refused = {bad}
    NoHandler = {noname}
    NoClient = {noname}
    Interface = {{m1}, {m1, m2}, {m2, noname}, {m1, bad}}
    Touched = {"handlerimpl.go", "svcimpl.go"}
    MaxEdits = 2
    MaxRuns = 3
INVARIANTS
    EditsKept
    DeclaredOnce
    EmptyIsExplained
    AgreesAtEnd
CHECK_DEADLOCK FALSE
