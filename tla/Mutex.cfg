SPECIFICATION FairSpec
CONSTANTS
    Tasks = {t1, t2, t3, t4}
    NoTask = NoTask
INVARIANTS
    TypeOK
    MutualExclusion
    NoLostHandoff
    QueueConsistent
    NoLostWakeup
PROPERTIES
    LockGranted
    ImplementsFifoLock
