SPECIFICATION FairSpec
CONSTANTS
    Futures = {f1, f2, f3}
    Clients = {c1}
    NoFuture = NoFuture
    MoveOnly = FALSE
    Executors = {"pool", "immediate"}
    Commands = {"then", "watch", "detach", "ready"}
    MaxStarted = 1
    Outcomes = {"value"}
    Reduces = TRUE
INVARIANTS
    NoneLeftBehind
PROPERTIES
    SubmittedOnce
    EverySettles
    CallbacksRun
CHECK_DEADLOCK FALSE
