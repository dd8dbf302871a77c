SPECIFICATION FairSpec
CONSTANTS
    Producers = {p1, p2}
    Workers = {w1, w2}
    Tasks = {t1, t2, t3, t4, t5}
    NoTask = NoTask
INVARIANTS
    TypeOK
    OneDrain
    NoLostWakeup
    PopFindsTask
PROPERTIES
    ImplementsSerialExecutor
    EveryTaskRuns
CHECK_DEADLOCK FALSE
