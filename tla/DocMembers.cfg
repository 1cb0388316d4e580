\* "a field and a method cannot share a name" (Interpreter.h:578).
CONSTANTS
    Names = {"y", "K"}
    ConstantNames = {"K"}
    Signatures = {{"y"}}
    Given = {v}
    Assigned = {w}
    Empty = v
    Members = {"y"}
    IndexThreshold = 2
    PoolCap = 1
    MaxScopes = 1
    MaxVariables = 0
    MaxPending = 1
    ClassNames = {"A", "B", "C"}
    Natives = {"print"}
    Builtin <- MCBuiltin
    Texts <- MCTexts
    MaxClasses = 2
    MaxInheritanceDepth = 2
    MaxClassMembers = 4
    MaxLoads = 2
    Keys = {a}
    Contents = {x}
    WalkFactor = 1
SPECIFICATION Spec
INVARIANT
    MembersApart
CHECK_DEADLOCK FALSE
