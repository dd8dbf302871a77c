SPECIFICATION Spec
CONSTANTS
    Futures = {f1, f2, f3, f4}
    Clients = {c1}
    NoFuture = NoFuture
    MoveOnly = TRUE
    Executors = {"pool", "immediate"}
    Commands = {"then", "watch", "detach", "take"}
    MaxStarted = 1
    Outcomes = {"value", "error"}
    Reduces = TRUE
SYMMETRY FuturesSymmetry
INVARIANTS
    NoOrphan
    SlotFree
PROPERTIES
    NoResurrection
    RefinesContract
CHECK_DEADLOCK FALSE
