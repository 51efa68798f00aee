CONSTANTS
    MaxDepth = 5
    Misread <- NoMisread
    Unclosed = {}
    DeviceNames = {"d"}
    Passwords = {"p", "q"}
    Servers = {"s"}
    VarNames = {"x"}
    VarValues = {"w"}
    CriticalNames = {"x"}
    FirstFiles <- TwoFiles
    DefaultFile <- None
    Settings <- PageSettings
    UnknownKeys <- ForeignKeys
    WriteOutcomes = {"written", "not opened", "cut short"}
    Garbage <- OnlyZero
    MaxGarbage = 1
SPECIFICATION Spec
CHECK_DEADLOCK FALSE
INVARIANTS
    SavedConfigIsRead
    ValuesAreSet
PROPERTIES
    UnknownKeysStay
