SPECIFICATION Spec
CONSTANTS
    Tasks = {t1, t2, t3}
    Word = 8
    NoTask = NoTask
INVARIANT
    Exclusion
