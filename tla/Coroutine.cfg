SPECIFICATION Spec
CONSTANTS
    Depth = 3
    MaxSteps = 6
    MaxTurns = 2
INVARIANTS
    NoLostWakeup
    ExceptionsArrive
    ValuesInOrder
CHECK_DEADLOCK FALSE
