SPECIFICATION Spec
CONSTANTS
    MaxParseDepth = 6
    StackLevels = 10
    MaxSource = 400
INVARIANTS
    CrlfBlankLinesIgnored
CHECK_DEADLOCK FALSE
