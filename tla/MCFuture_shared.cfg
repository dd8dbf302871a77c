SPECIFICATION Spec
CONSTANTS
    Futures = {f1, f2, f3}
    Clients = {c1, c2}
    NoFuture = NoFuture
    MoveOnly = FALSE
    Executors = {"pool"}
    Commands = {"then", "recover", "take", "share"}
    MaxStarted = 2
    Outcomes = {"value"}
    Reduces = FALSE
SYMMETRY Symmetry
INVARIANTS
    HandlesReadable
    ArgumentPresent
    AttachedAlive
PROPERTIES
    ResultFinal
CHECK_DEADLOCK FALSE
