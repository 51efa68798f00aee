CONSTANTS
    Wrap = 7
    TryDelay = 2
    Interval = 2
    UseHA = TRUE
    MaxWaiting = 2
SPECIFICATION FairSpec
INVARIANTS
    ConnectionInv
PROPERTIES
    AttemptsKeepDistance
    RetryGoesOn
    HeartBeatGoesOn
    OnlineIsAnswered
