--------------------------- MODULE SerialExecutor ---------------------------
(***************************************************************************)
(* What serial_queue_t promises: the tasks given to it run one at a time,  *)
(* in the order they were given.                                           *)
(***************************************************************************)
EXTENDS Sequences

CONSTANTS Tasks, NoTask

VARIABLES
    waiting,   \* tasks given and not started, oldest first
    current    \* the task that is running, or NoTask

svars == << waiting, current >>

Init == waiting = <<>> /\ current = NoTask

Give(t) == waiting' = Append(waiting, t) /\ UNCHANGED current

Start ==
    /\ current = NoTask
    /\ waiting # <<>>
    /\ current' = Head(waiting)
    /\ waiting' = Tail(waiting)

Stop ==
    /\ current # NoTask
    /\ current' = NoTask
    /\ UNCHANGED waiting

Next == (\E t \in Tasks : Give(t)) \/ Start \/ Stop

Spec == Init /\ [][Next]_svars
=============================================================================
