\* Up to three queued calls, a queue of two, two modules whose loads drain it.
CONSTANTS
    Modules = {m1, m2}
    Owners = {}
    MaxSteps = 0
    MaxCallDepth = 2
    MaxQueuedTasks = 2
    MaxImportDepth = 2
    StackBudget = 5
    MaxBody = 1
    MaxTasks = 3
SYMMETRY Interchangeable
SPECIFICATION Spec
INVARIANTS
    MarksMatchStack
    TasksAccountedFor
PROPERTIES
    KeepsAsyncPromise
