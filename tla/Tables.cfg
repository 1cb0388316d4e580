\* Two names and two values in up to three scopes; up to two texts of 600, each a run or a module;
\* maps of up to four keys, where a factor of 1 instead of 8 takes both branches of remove with keys left to move.
CONSTANTS
    Names = {"y", "K"}
    ConstantNames = {"K"}
    Signatures = {{"y"}}
    Given = {v}
    Assigned = {w}
    Empty = v
    Members = {"y"}
    IndexThreshold = 2
    PoolCap = 1
    MaxScopes = 3
    MaxVariables = 3
    MaxPending = 1
    ClassNames = {"A", "B", "C"}
    Natives = {"print"}
    Builtin <- MCBuiltin
    Texts <- MCTexts
    MaxClasses = 2
    MaxInheritanceDepth = 2
    MaxClassMembers = 4
    MaxLoads = 2
    Keys = {a, b, c, d}
    Contents = {x, y}
    WalkFactor = 1
SPECIFICATION Spec
INVARIANTS
    SlotsStay
    ClassesCoherent
    IndexIsInverse
PROPERTIES
    IsScopes
    IsOrderedMap
CHECK_DEADLOCK FALSE
