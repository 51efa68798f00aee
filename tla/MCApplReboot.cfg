CONSTANTS
    appl = appl
    mod1 = mod1
    mod2 = mod2
    loop = loop
    async = async
    NoReceiver = NoReceiver
    Appl = appl
    Messages <- AllMessages
    Receivers <- OneModule
    FirstBase <- NoFirstBase
    Tasks = {loop, async}
    Answers <- YesWarnStop
    MaxDepth = 2
    MaxRequests = 2
SPECIFICATION ApplFairSpec
INVARIANTS
    RebootInv
    FirstRequestIsUnanimous
    RestartIsAnnounced
PROPERTIES
    AgreedRequestRestarts
