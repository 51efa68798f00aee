CONSTANTS
    Wrap = 8
    Periods = {0, 1, 3, 7}
    MaxTime = 20
SPECIFICATION DelaySpec
CHECK_DEADLOCK FALSE
INVARIANTS
    DoneIsElapsed
    DelayInv
