SPECIFICATION FairSpec
CONSTANTS
    Wakers = {w1}
    Noop = Noop
    Horizon = 4
PROPERTIES
    NoWakeAfterReset
    IsAwaitable
CHECK_DEADLOCK FALSE
