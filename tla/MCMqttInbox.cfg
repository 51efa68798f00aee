CONSTANTS
    empty = empty
    short = short
    long = long
    Nobody = Nobody
    Messages <- MCMessages
    Total <- MCTotal
    MaxSent = 3
SPECIFICATION FairInboxSpec
CHECK_DEADLOCK FALSE
INVARIANTS
    InboxInv
PROPERTIES
    ImplementsMailbox
