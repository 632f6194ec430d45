SPECIFICATION FairSpec
CONSTANTS
    Producers = {p1, p2}
    Threads = {t1, t2}
    Drain = main
    QueueSize = 1
    MaxEach = 2
INVARIANTS
    TypeOK
    DrainedWhenTrue
    StartedInOrder
PROPERTY EnqueueReturns
CHECK_DEADLOCK FALSE
