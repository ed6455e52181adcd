SPECIFICATION FairSpec
CONSTANTS
    Families = {"examples", "one stage", "two stages", "two sources",
                "stage on two sources", "stage beside a source"}
    Horizon = 12
    MaxLength = 2
    MaxParameter = 2
    Word = 16
INVARIANTS
    MakesExpected
    SomeoneWakes
    NoPollAfterDone
PROPERTY
    Finishes
CHECK_DEADLOCK FALSE
