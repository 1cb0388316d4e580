SPECIFICATION Spec
CONSTANTS
    MaxNesting = 3
    MaxQuantifier = 32
    StepLimit = 100
    DepthLimit = 24
    ClockPeriod = 64
    MaxPattern = 24
    MaxCache = 2
    MaxItems = 4
    MaxString = 5
INVARIANTS
    ReadsBack
    MatchesAsMeant
    TextKept
    BudgetKept
PROPERTIES
    OperationEnds
CHECK_DEADLOCK FALSE
