SPECIFICATION Spec
SYMMETRY Symmetry
CONSTANTS
    Graphs <- Everything
    Workers = {w1, w2}
INVARIANTS
    OneStepAtATime
    AssertionsHold
    BufferBound
PROPERTIES
    Promise
CHECK_DEADLOCK FALSE
