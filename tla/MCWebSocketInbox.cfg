CONSTANTS
    single = single
    split = split
    Clients = {c1, c2}
    Messages <- MCMessages
    Frames <- MCFrames
    MaxMessages = 3
    MaxObjects = 4
SPECIFICATION FairSpec
CHECK_DEADLOCK FALSE
INVARIANTS
    InboxInv
PROPERTIES
    ImplementsMailbox
