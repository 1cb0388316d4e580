\* Calls, methods, field defaults, guards and two modules nested up to five
\* frames deep, under a budget of four steps.
CONSTANTS
    Modules = {m1, m2}
    Owners = {c1}
    MaxSteps = 4
    MaxCallDepth = 3
    MaxQueuedTasks = 1
    MaxImportDepth = 1
    StackBudget = 5
    MaxBody = 1
    MaxTasks = 1
SPECIFICATION FairSpec
INVARIANTS
    TypeOK
    ContextMatchesStack
    QuiescentWhenIdle
    DepthsMatchStack
    BudgetIsFinal
PROPERTIES
    RunEnds
