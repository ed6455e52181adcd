SPECIFICATION Spec
CONSTANTS
    Families = {"examples", "block_on", "to_asio", "to_resumable",
                "future_container", "c_main"}
    MaxAwaits = 3
INVARIANTS
    ResultsAsAnnounced
    NothingStale
    GetDoesNotBlock
    NoSelfDeadlock
PROPERTIES
    Finishes
