SPECIFICATION Spec
CONSTANTS
    minNUM <- ConfiguredMin
    maxNUM <- ConfiguredMax
    queueCapacity <- ConfiguredQueue
    Task = {t1, t2, t3, t4}
    NoTask = NoTask
    Producer = {p1, p2}
    JoinProducersFirst = FALSE
SYMMETRY PoolSymmetry
INVARIANTS
    TypeOK
    PoolSize
    BusyAccurate
    OneOwner
    NoLostNotFull
    NobodySleeps
PROPERTY
    QueueSpec
CHECK_DEADLOCK FALSE
