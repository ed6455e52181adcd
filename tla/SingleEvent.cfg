SPECIFICATION FairSpec
CONSTANTS
    Setters = {s1, s2}
    Wakers = {w1, w2}
    Noop = Noop
INVARIANTS
    OneResult
PROPERTIES
    LaterSetFindsNoWaker
    IsAwaitable
CHECK_DEADLOCK FALSE
