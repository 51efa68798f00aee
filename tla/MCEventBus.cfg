CONSTANTS
    appl = appl
    mod1 = mod1
    mod2 = mod2
    loop = loop
    async = async
    NoReceiver = NoReceiver
    Receivers <- ThreeReceivers
    FirstBase <- OnlyMod2
    Answers <- AllAnswers
    Tasks = {loop}
    Messages = {"event"}
    MaxDepth = 2
SPECIFICATION FairSpec
INVARIANTS
    NobodyIsMissed
    NobodyAfterStop
    BusInv
PROPERTIES
    BroadcastsEnd
