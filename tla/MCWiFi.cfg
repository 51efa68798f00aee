CONSTANTS
    Wrap = 10
    JoinTimeout = 3
    RetryTimeout = 2
    RetryCount = 2
    StartsAgain = FALSE
SPECIFICATION FairSpec
INVARIANTS
    WiFiInv
PROPERTIES
    StartWiFiReturns
