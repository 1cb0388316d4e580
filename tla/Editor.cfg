\* Two keys or pastes of any kind; texts of six bytes; two entries, a history of three.
SPECIFICATION Spec
CONSTANTS
    Keys = {"char", "wide", "enter", "ctrlC", "up", "ss3Up", "altEnter", "shiftEnter", "escape", "insert"}
    Pastes <- MCPastes
    MaxSent = 2
    MaxBuffer = 6
    MoreBytes = 2
    TabWidth = 4
    Texts = {"a", "b"}
    Blank = "blank"
    MaxHistory = 3
INVARIANTS
    KeysInOrder
    CursorOnBoundary
    DraftKept
    HistoryFaithful
PROPERTIES
    PasteModeEnds
    EndsWithTerminal
    IsTextCursor
CHECK_DEADLOCK FALSE
