CONSTANTS
    s1 = s1
    s2 = s2
    Sockets <- TwoSockets
    NoSocket = NoSocket
    MaxConnects = 2
    PageMenus <- MCPageMenus
    Home <- MCHome
    Nowhere = Nowhere
    Recons = {"true", "undefined"}
    Settings <- MCSettings
    StatusVars <- MCStatusVars
    Languages <- MCLanguages
SPECIFICATION StartSpec
INVARIANTS
    StartInv
    SubstIsComplete
PROPERTIES
    ClosedStaysClosed
    LinkComesBack
