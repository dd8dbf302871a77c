SPECIFICATION Spec
CONSTANTS
    Graphs <- Buffered
    Workers = {w1, w2}
INVARIANTS
    OneStepAtATime
CHECK_DEADLOCK FALSE
