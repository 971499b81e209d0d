SPECIFICATION FairSpec
CONSTANTS
    minNUM <- ConfiguredMin
    maxNUM <- ConfiguredMax
    queueCapacity <- ConfiguredQueue
    Task = {t1, t2, t3}
    NoTask = NoTask
    Producer = {p1}
    JoinProducersFirst = TRUE
CHECK_DEADLOCK FALSE
INVARIANT FreedUnused
PROPERTY QuitEnds
