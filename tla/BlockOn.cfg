SPECIFICATION LoopFairSpec
CONSTANTS
    Setters = {s1, s2, s3}
    Wakers = {wd}
    Wd = wd
    Noop = Noop
PROPERTIES
    IsAnExecutor
    Returns
CHECK_DEADLOCK FALSE
