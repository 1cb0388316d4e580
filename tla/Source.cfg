SPECIFICATION Spec
CONSTANTS
    MaxParseDepth = 6
    StackLevels = 10
    MaxSource = 400
INVARIANTS
    ReadsAsWritten
    ScopesRespected
    NamesWhereWritten
    BlankLinesIgnored
    NestingBounded
    WorkBounded
CHECK_DEADLOCK FALSE
