----------------------------- MODULE SerialQueue -----------------------------
(***************************************************************************)
(* serial_instance_t: a task queue drained by one closure at a time on an  *)
(* underlying executor.  Producers, and the tasks themselves, enqueue; the *)
(* one that finds _running clear sets it and submits the drain ("kick");   *)
(* a worker thread of the executor picks a kick up, runs one task (single) *)
(* or the whole queue (all), and submits the next kick unless it finds the *)
(* queue empty and clears _running.                                        *)
(*                                                                         *)
(* A definition X_Y is X with the defect Y.  Nothing uses it: it is there  *)
(* to put in the place of X and see a property of X fail.                  *)
(***************************************************************************)
EXTENDS Naturals, Sequences, Functions

CONSTANTS
    Producers,   \* threads that enqueue
    Workers,     \* threads of the underlying executor
    Tasks,       \* the tasks that may be enqueued, each once
    NoTask

ASSUME QueueAssumption ==
    /\ Producers \cap Workers = {}
    /\ NoTask \notin Tasks

VARIABLES
    mode,      \* schedule_mode, which the constructor turns into _kickstart
    queue,     \* _queue
    running,   \* _running
    owes,      \* threads that left enqueue's lock having to submit the kick
    kicks,     \* closures the underlying executor holds
    pc,        \* where each worker is in single() or all()
    batch,     \* all()'s local_queue
    current,   \* the task each worker holds
    unused,    \* the tasks not enqueued yet
    lost       \* TRUE once the underlying executor has destroyed a drain unrun

vars == << mode, queue, running, owes, kicks, pc, batch, current, unused, lost >>

Threads == Producers \cup Workers
WorkerPc == {"idle", "take", "next", "run", "check", "submit"}

Init ==
    /\ mode \in {"single", "all"}
    /\ queue = <<>>
    /\ running = FALSE
    /\ owes = {}
    /\ kicks = 0
    /\ pc = [w \in Workers |-> "idle"]
    /\ batch = [w \in Workers |-> <<>>]
    /\ current = [w \in Workers |-> NoTask]
    /\ unused = Tasks
    /\ lost = FALSE

-----------------------------------------------------------------------------
(* enqueue *)

\* A worker enqueues from inside the task it is running.
Enqueues(a) == a \notin owes /\ (a \in Workers => pc[a] = "run")

\* Whether the swap with _running tells the caller to submit the kick.
MustKick_Always(r) == TRUE
MustKick_Never(r) == FALSE
MustKick(r) == ~r

Enqueue(a, t) ==
    /\ Enqueues(a)
    /\ t \in unused
    /\ unused' = unused \ {t}
    /\ queue' = Append(queue, t)
    /\ running' = TRUE
    /\ owes' = IF MustKick(running) THEN owes \cup {a} ELSE owes
    /\ UNCHANGED << mode, kicks, pc, batch, current, lost >>

Kick(a) ==
    /\ a \in owes
    /\ owes' = owes \ {a}
    /\ kicks' = kicks + 1
    /\ UNCHANGED << mode, queue, running, pc, batch, current, unused, lost >>

-----------------------------------------------------------------------------
(* single and all, on a worker of the underlying executor *)

\* The executor holds a drain.
Available_Assumed == TRUE
Available == kicks > 0

Pick(w) ==
    /\ pc[w] = "idle"
    /\ Available
    /\ kicks' = kicks - 1
    /\ pc' = [pc EXCEPT ![w] = "take"]
    /\ UNCHANGED << mode, queue, running, owes, batch, current, unused, lost >>

\* An executor that shuts down destroys the closures it has not run.
Drop ==
    /\ kicks > 0
    /\ kicks' = kicks - 1
    /\ lost' = TRUE
    /\ UNCHANGED << mode, queue, running, owes, pc, batch, current, unused >>

\* What pop_front_unsafe leaves of a queue.
Popped_Copied(q) == q
Popped(q) == Tail(q)

\* single's locked pop; the task starts.
TakeOne(w) ==
    /\ mode = "single"
    /\ pc[w] = "take"
    /\ current' = [current EXCEPT ![w] = Head(queue)]
    /\ queue' = Popped(queue)
    /\ pc' = [pc EXCEPT ![w] = "run"]
    /\ UNCHANGED << mode, running, owes, kicks, batch, unused, lost >>

\* all's locked swap.
TakeAll(w) ==
    /\ mode = "all"
    /\ pc[w] = "take"
    /\ batch' = [batch EXCEPT ![w] = queue]
    /\ queue' = <<>>
    /\ pc' = [pc EXCEPT ![w] = "next"]
    /\ UNCHANGED << mode, running, owes, kicks, current, unused, lost >>

\* all's loop: the next task of the batch starts, or the batch is done.
NextOfBatch(w) ==
    /\ pc[w] = "next"
    /\ IF batch[w] # <<>>
       THEN /\ current' = [current EXCEPT ![w] = Head(batch[w])]
            /\ batch' = [batch EXCEPT ![w] = Popped(@)]
            /\ pc' = [pc EXCEPT ![w] = "run"]
       ELSE /\ pc' = [pc EXCEPT ![w] = "check"]
            /\ UNCHANGED << batch, current >>
    /\ UNCHANGED << mode, queue, running, owes, kicks, unused, lost >>

\* The task returns.
Finish(w) ==
    /\ pc[w] = "run"
    /\ w \notin owes
    /\ current' = [current EXCEPT ![w] = NoTask]
    /\ pc' = [pc EXCEPT ![w] = IF mode = "all" THEN "next" ELSE "check"]
    /\ UNCHANGED << mode, queue, running, owes, kicks, batch, unused, lost >>

\* What empty() leaves in _running when it finds the queue empty.
IdleRunning_Forgotten == running
IdleRunning == FALSE

\* empty(): the test of the queue and the reset of _running are one locked section.
Check(w) ==
    /\ pc[w] = "check"
    /\ IF queue = <<>>
       THEN running' = IdleRunning /\ pc' = [pc EXCEPT ![w] = "idle"]
       ELSE pc' = [pc EXCEPT ![w] = "submit"] /\ UNCHANGED running
    /\ UNCHANGED << mode, queue, owes, kicks, batch, current, unused, lost >>

Resubmit(w) ==
    /\ pc[w] = "submit"
    /\ kicks' = kicks + 1
    /\ pc' = [pc EXCEPT ![w] = "idle"]
    /\ UNCHANGED << mode, queue, running, owes, batch, current, unused, lost >>

-----------------------------------------------------------------------------

Work(w) ==
    Pick(w) \/ TakeOne(w) \/ TakeAll(w) \/ NextOfBatch(w) \/ Finish(w) \/ Check(w) \/ Resubmit(w)

Next ==
    \/ \E a \in Threads, t \in Tasks : Enqueue(a, t)
    \/ \E a \in Threads : Kick(a)
    \/ \E w \in Workers : Work(w)
    \/ Drop

Spec == Init /\ [][Next]_vars

\* A thread that is inside enqueue or a drain goes on, tasks return, and the underlying
\* executor gets round to the closures it keeps.
FairSpec ==
    /\ Spec
    /\ \A a \in Threads : WF_vars(Kick(a))
    /\ \A w \in Workers : WF_vars(Work(w))

-----------------------------------------------------------------------------
(* Properties *)

TypeOK ==
    /\ mode \in {"single", "all"}
    /\ queue \in Seq(Tasks)
    /\ running \in BOOLEAN
    /\ owes \in SUBSET Threads
    /\ kicks \in Nat
    /\ pc \in [Workers -> WorkerPc]
    /\ batch \in [Workers -> Seq(Tasks)]
    /\ current \in [Workers -> Tasks \cup {NoTask}]
    /\ unused \in SUBSET Tasks
    /\ lost \in BOOLEAN

Busy(w) == pc[w] # "idle"

(* At most one drain exists at any time, wherever it is: owed by a thread  *)
(* that left enqueue, kept by the underlying executor, or on a worker; and *)
(* while there is one, _running is set.                                    *)
OneDrain ==
    /\ kicks <= 1
    /\ kicks = 1 => owes = {} /\ \A w \in Workers : ~Busy(w)
    /\ \A a, b \in owes : a = b
    /\ \A v, w \in Workers : Busy(v) /\ Busy(w) => v = w
    /\ owes # {} => \A w \in Workers : ~Busy(w)
    /\ kicks = 1 \/ owes # {} \/ (\E w \in Workers : Busy(w)) => running

(* No lost wakeup: a task in the queue always has a drain coming for it    *)
(* (unless the underlying executor threw a drain away).                    *)
NoLostWakeup ==
    ~lost /\ queue # <<>> => kicks = 1 \/ owes # {} \/ \E w \in Workers : Busy(w)

(* single() pops without looking: it must find a task.                     *)
PopFindsTask == \A w \in Workers : mode = "single" /\ pc[w] = "take" => queue # <<>>

(* Every task runs: whatever the threads do between a drain's last look at *)
(* the queue and the reset of _running, an enqueued task is reached, as     *)
(* long as the underlying executor runs the drains it is given.            *)
EveryTaskRuns ==
    \A t \in Tasks : t \in Range(queue) ~> (lost \/ \E w \in Workers : current[w] = t)

\* The tasks of the one batch that has any, then those of the queue.
Joined(b, q) ==
    LET Nonempty == {w \in Workers : b[w] # <<>>}
    IN  IF Nonempty = {} THEN q ELSE b[CHOOSE w \in Nonempty : TRUE] \o q

\* The task of the one worker that runs one.
TheTask(c) ==
    LET Running == {w \in Workers : c[w] # NoTask}
    IN  IF Running = {} THEN NoTask ELSE c[CHOOSE w \in Running : TRUE]

Executor == INSTANCE SerialExecutor WITH
    waiting <- Joined(batch, queue),
    current <- TheTask(current)

(* The queue implements one-at-a-time, in-order execution: tasks start in   *)
(* the order their enqueue took the lock, whichever worker runs them and    *)
(* however single and all cut the queue into drains.                        *)
ImplementsSerialExecutor == Executor!Spec
=============================================================================
