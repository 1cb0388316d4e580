\* Calls from a pure function against docs/reference/language.md:678.
CONSTANTS
    Modules = {m1}
    Owners = {c1}
    MaxSteps = 0
    MaxCallDepth = 2
    MaxQueuedTasks = 2
    MaxImportDepth = 1
    StackBudget = 5
    MaxBody = 1
    MaxTasks = 2
SPECIFICATION Spec
INVARIANTS
    PureCallsOnlyPure
