CONSTANTS
    MaxDepth = 4
    Misread <- ReadAs
    Unclosed <- OpenNames
    Keys <- PlainKeys
    Names <- SomeNames
    Values = {"v"}
    MaxNodes = 5
    MaxRawNodes = 4
    MaxConverted = 4
    MaxChars = 3
SPECIFICATION Spec
INVARIANTS
    RoundTrip
    AssignedIsRead
    ScanInvertsQuote
PROPERTIES
    NamesStayUnique
