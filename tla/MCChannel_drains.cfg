SPECIFICATION FairSpec
CONSTANTS
    Graphs <- Drained
    Workers = {w1, w2}
INVARIANTS
    NoneOvertakes

    
CHECK_DEADLOCK FALSE
