CONSTANTS
    Table = {"t", "u"}
    Snake <- MCSnake
    Drafts <- MCDrafts
    Base <- MCBase
    Projects <- MCProjects
    MaxEdits = 1
    MaxRuns = 2
    MaxFaults = 1
    T = "t"
    Wheres <- MCWheres
    MaxId = 3
    MaxWrites = 1
    Sizes = {2}
SPECIFICATION Spec
 
INVARIANT StructsCarryTables
 
INVARIANT WritesAsAsked
INVARIANT ReadAll
CHECK_DEADLOCK FALSE
