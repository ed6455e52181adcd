SPECIFICATION Spec
CONSTANTS
    Families = {"examples", "counter", "fairness", "combinators", "timeout",
                "cache", "cancellation", "exceptions", "allocators"}
    MaxTasks = 3
    BlockCount = 3
    WordBits = 2
    MaxNesting = 8
INVARIANTS
    OutcomesAsAnnounced
    BlocksMatchFrames
    FramesWhereTheyBelong
    LocksMatchGuards
PROPERTIES
    Finishes
