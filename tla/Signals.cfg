\* Every step of the shell against a SIGINT, a SIGTERM and a SIGHUP.
CONSTANT MaxInterrupts = 1
SPECIFICATION FairSpec
INVARIANTS
    RunsInNormalMode
    KittyBalanced
    OneKillRestoresMode
PROPERTIES
    FatalSignalEnds
CHECK_DEADLOCK FALSE
