SPECIFICATION Spec
CONSTANTS
    Graphs <- Timed
    Workers = {w1, w2}
INVARIANTS
    TimeoutFindsProcess
CHECK_DEADLOCK FALSE
