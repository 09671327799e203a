CONSTANTS
    Size <- MCSize
    Dense <- MCDense
    Lower <- MCLower
    Interface <- MCInterface
    Cased = {"camel", "snake"}
    MaxCasts = 2
SPECIFICATION Spec
INVARIANT ArgsArrive
INVARIANT RunsAsNamed
INVARIANT AnswerTellsEffects
 
CHECK_DEADLOCK FALSE
