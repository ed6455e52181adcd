SPECIFICATION Spec
CONSTANTS
    MaxChildren = 3
INVARIANTS
    KeepsResults
    NoRepoll
PROPERTIES
    IsAwaitable
CHECK_DEADLOCK FALSE
