SPECIFICATION FairSpec
CONSTANTS
    minNUM = 1
    maxNUM = 2
    queueCapacity = 1
    Task = {t1, t2}
    NoTask = NoTask
    Producer = {p1}
    JoinProducersFirst = TRUE
CHECK_DEADLOCK FALSE
PROPERTIES QuitEnds
