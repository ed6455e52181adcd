SPECIFICATION Spec
CONSTANTS
    Tasks = {t1, t2, t3}
    Word = 8
    NoTask = NoTask
INVARIANTS
    TypeOK
    SoundUntilHandoff
    QueueConsistent
    NoLostWakeup
    NewReadersQueueBehind
PROPERTIES
    FirstComeFirstServed
