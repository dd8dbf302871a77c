------------------------------ MODULE Channel ------------------------------
(***************************************************************************)
(* A graph of channel processes (shared_process in channel.hpp).  Each     *)
(* process queues what its upstream sends, takes a message in a step that  *)
(* an executor runs, applies the user's code to it and broadcasts the      *)
(* result downstream.  A process that has filled a downstream buffer is    *)
(* suspended until every downstream process has taken its value.           *)
(*                                                                         *)
(* Graph, one of Graphs, maps the processes to records with fields         *)
(*   up        the upstream process of each argument, << >> for the        *)
(*             process of channel() and for a generator                    *)
(*   strategy  the queue strategy                                          *)
(*   kind      "function", "process" (await and yield) or "source" (yield) *)
(*   buffer    _process_buffer_size                                        *)
(*   void, moveOnly    of the result type                                  *)
(*   batch, wait, delayed, closes, setsError, throws    the user's code    *)
(*   sends, copies, drops    bounds: the values the user sends into a      *)
(*             channel, the handles of an end, the receivers destroyed     *)
(*                                                                         *)
(* The user's process collects what await is given; it yields once it has  *)
(* a batch, one value at a time, until nothing is left.  While it waits    *)
(* with something collected its state() asks to await "forever", for a     *)
(* time ("timed") or not at all ("expired").  A function and await throw   *)
(* on the values in throws.                                                *)
(*                                                                         *)
(* A job is a closure an executor is running, cut where the code takes or  *)
(* releases a mutex.  A value sent is a pair of its sender's process and   *)
(* its number; a function returns its argument, or the tuple of them.      *)
(*                                                                         *)
(* A definition X_Y is X with the defect Y.  Nothing uses it: it is there  *)
(* to put in the place of X and see a property of X fail.                  *)
(***************************************************************************)
EXTENDS Naturals, Sequences, FiniteSets, ChannelQueues

CONSTANTS
    Graphs,       \* by name: the processes and how they are connected
    Workers       \* the threads of the executors

\* Only a merge has several upstreams, and (the model leaves a merge of a channel with itself out) each
\* feeds one argument.
ASSUME GraphAssumption ==
    \A g \in DOMAIN Graphs : IsFiniteSet(DOMAIN Graphs[g]) /\ \A p \in DOMAIN Graphs[g] :
        LET node == Graphs[g][p]
        IN  /\ node.up \in Seq(DOMAIN Graphs[g])
            /\ \A i, j \in DOMAIN node.up : node.up[i] = node.up[j] => i = j
            /\ node.kind \in {"function", "process", "source"}
            /\ node.kind = "source" => node.up = << >>
            /\ node.strategy \in {"default", "zip_with", "round_robin", "unordered"}
            /\ node.strategy = "default" => Len(node.up) <= 1
            /\ node.batch \in Nat \ {0}

Names == UNION {DOMAIN Graphs[g] : g \in DOMAIN Graphs}

\* Each process with the processes that hold it: itself and what is downstream of it, the least
\* set that contains it and each process one of its members is an upstream of.
Downstream ==
    [g \in DOMAIN Graphs |->
        LET Nodes == DOMAIN Graphs[g]
            Closed == {S \in SUBSET Nodes : \A q \in Nodes :
                        (\E i \in DOMAIN Graphs[g][q].up : Graphs[g][q].up[i] \in S) => q \in S}
        IN  [p \in Nodes |-> {q \in Nodes : \A S \in Closed : p \in S => q \in S}]]

Error  == << >>                    \* a message that holds an exception
Reset  == [live |-> FALSE, held |-> << >>, yields |-> FALSE]   \* _process without a value
NoJob  == [pc |-> "idle"]

VARIABLES
    graph,          \* the name of the graph
    made,           \* the processes that have been constructed
    open,           \* receiver handles that are not ready
    ready,          \* receiver handles that are
    handles,        \* sender handles of the user
    checking,       \* threads in remove_receiver, between the count and the mutex
    receivers,      \* _receiver_count
    senders,        \* _sender_count
    down,           \* _downstream
    queue,          \* _queue
    running,        \* _process_running
    suspend,        \* _process_suspend_count
    closeQueue,     \* _process_close_queue
    final,          \* _process_final
    timeoutActive,  \* _timeout_function_active
    process,        \* _process: what the user's process has collected
    pending,        \* closures of run() in the executor
    delayed,        \* closures of a delayed yield
    timeouts,       \* closures of a timeout
    job,            \* what each worker runs
    put,            \* history: what was enqueued for each argument
    sent            \* history: the values each process yielded or returned

Graph    == Graphs[graph]
Procs    == DOMAIN Graph
Up(p)    == Graph[p].up
Heads    == {p \in Procs : Up(p) = << >>}
Arity(p) == IF p \in Heads THEN 1 ELSE Len(Up(p))

graphVars == << graph, made, open, ready, handles, checking, receivers >>
userVars  == << process, delayed, timeouts, timeoutActive >>
flowVars  == << queue, running, pending, put >>
procVars  == << suspend, closeQueue, final >>
vars == << graphVars, senders, down, flowVars, procVars, userVars, job, sent >>

IsFunction(p) == Graph[p].kind = "function"

\* channel() makes the processes at the head; operator| and the combiners make the others.
\* The counts are those the constructors of shared_process set.
Init ==
    /\ graph \in DOMAIN Graphs
    /\ made = Heads
    /\ open = [p \in Procs |-> IF p \in Heads THEN 1 ELSE 0]
    /\ ready = [p \in Procs |-> 0]
    /\ handles = [p \in Procs |-> IF p \in Heads /\ Graph[p].kind # "source" THEN 1 ELSE 0]
    /\ checking = [p \in Procs |-> 0]
    /\ receivers = [p \in Procs |-> IF Graph[p].void THEN 0 ELSE 1]
    /\ senders = [p \in Procs |-> Arity(p)]
    /\ down = [p \in Procs |-> << >>]
    /\ queue = [p \in Procs |-> NewQueues(Arity(p))]
    /\ running = [p \in Procs |-> FALSE]
    /\ suspend = [p \in Procs |-> 0]
    /\ closeQueue = [p \in Procs |-> FALSE]
    /\ final = [p \in Procs |-> FALSE]
    /\ timeoutActive = [p \in Procs |-> FALSE]
    /\ process = [p \in Procs |->
                    IF Graph[p].kind = "source"
                    THEN [live |-> TRUE, yields |-> TRUE,
                          held |-> [k \in 1..Graph[p].batch |-> << p, k >>]]
                    ELSE [live |-> TRUE, held |-> << >>, yields |-> FALSE]]
    /\ pending = [p \in Procs |-> 0]
    /\ delayed = [p \in Procs |-> 0]
    /\ timeouts = [p \in Procs |-> 0]
    /\ job = [w \in Workers |-> NoJob]
    /\ put = [p \in Procs |-> [i \in 1..Arity(p) |-> << >>]]
    /\ sent = [p \in Procs |-> << >>]

(***************************************************************************)
(* A process lives while a receiver handle, a process downstream of it, a  *)
(* thread in one of its functions or a running closure holds it.  Senders, *)
(* downstream lists and closures that wait in an executor do not.          *)
(***************************************************************************)
Held(p) ==
    \/ open[p] + ready[p] + checking[p] > 0
    \/ \E w \in Workers : job[w] # NoJob /\ job[w].p = p

Alive(p) == \E q \in Downstream[graph][p] : q \in made /\ Held(q)

Schedule(p, doRun) ==
    /\ running' = [running EXCEPT ![p] = @ \/ doRun]
    /\ pending' = [pending EXCEPT ![p] = @ + (IF doRun THEN 1 ELSE 0)]

(***************************************************************************)
(* Building the graph: receiver::operator|, zip_with and merge_channel     *)
(* attach a process; receiver handles are copied, made ready, destroyed.   *)
(***************************************************************************)
\* The move-only downstream has room for one sender; a second one replaces it.
append_receiver(u, s) == IF Graph[u].moveOnly THEN << s >> ELSE Append(down[u], s)

ArgumentFrom(p, u) == CHOOSE i \in DOMAIN Up(p) : Up(p)[i] = u

Attach(p) ==
    /\ p \notin made
    /\ \A i \in DOMAIN Up(p) :
        /\ Up(p)[i] \in made
        /\ open[Up(p)[i]] > 0 \/ (Len(Up(p)) > 1 /\ ready[Up(p)[i]] > 0)
    /\ made' = made \cup {p}
    /\ open' = [open EXCEPT ![p] = 1]
    /\ down' = [u \in Procs |-> IF \E i \in DOMAIN Up(p) : Up(p)[i] = u
                                THEN append_receiver(u, << p, ArgumentFrom(p, u) >>)
                                ELSE down[u]]
    /\ UNCHANGED << graph, ready, handles, checking, receivers, senders, flowVars, procVars,
                    userVars, job, sent >>

\* The copy constructor takes over _ready and counts the copy, ready or not.
CopyReceiver(p) ==
    /\ open[p] + ready[p] < Graph[p].copies
    /\ \/ open[p] > 0  /\ open' = [open EXCEPT ![p] = @ + 1] /\ ready' = ready
       \/ ready[p] > 0 /\ ready' = [ready EXCEPT ![p] = @ + 1] /\ open' = open
    /\ receivers' = [receivers EXCEPT ![p] = @ + (IF Graph[p].void THEN 0 ELSE 1)]
    /\ UNCHANGED << graph, made, handles, checking, senders, down, flowVars, procVars,
                    userVars, job, sent >>

\* --_receiver_count; the thread that brings it to zero goes on to the mutex.
remove_receiver(p) ==
    IF Graph[p].void
    THEN UNCHANGED << receivers, checking >>
    ELSE /\ receivers' = [receivers EXCEPT ![p] = @ - 1]
         /\ checking' = [checking EXCEPT ![p] = @ + (IF receivers[p] = 1 THEN 1 ELSE 0)]

SetReady(p) ==
    /\ open[p] > 0
    /\ open' = [open EXCEPT ![p] = @ - 1]
    /\ ready' = [ready EXCEPT ![p] = @ + 1]
    /\ remove_receiver(p)
    /\ UNCHANGED << graph, made, handles, senders, down, flowVars, procVars, userVars,
                    job, sent >>

DestroyReceiver(p) ==
    /\ Graph[p].drops
    /\ \/ /\ open[p] > 0
          /\ open' = [open EXCEPT ![p] = @ - 1]
          /\ remove_receiver(p)
          /\ UNCHANGED ready
       \/ /\ ready[p] > 0
          /\ ready' = [ready EXCEPT ![p] = @ - 1]
          /\ UNCHANGED << open, receivers, checking >>
    /\ UNCHANGED << graph, made, handles, senders, down, flowVars, procVars, userVars,
                    job, sent >>

\* The rest of remove_receiver: start the process unless a send has.
StartReady(p) ==
    /\ checking[p] > 0
    /\ checking' = [checking EXCEPT ![p] = @ - 1]
    /\ Schedule(p, /\ \/ ~Empty(Graph[p].strategy, queue[p])
                      \/ Graph[p].kind = "source"
                      \/ closeQueue[p]
                   /\ ~running[p])
    /\ UNCHANGED << graph, made, open, ready, handles, receivers, senders, down, queue, put,
                    procVars, userVars, job, sent >>

(***************************************************************************)
(* The sending side.                                                       *)
(***************************************************************************)
enqueue_WhileRunning(p, i, m) ==
    /\ queue' = [queue EXCEPT ![p] = AppendTo(@, i, m)]
    /\ put' = [put EXCEPT ![p][i] = Append(@, m)]
    /\ Schedule(p, receivers[p] = 0)

enqueue(p, i, m) ==
    /\ queue' = [queue EXCEPT ![p] = AppendTo(@, i, m)]
    /\ put' = [put EXCEPT ![p][i] = Append(@, m)]
    /\ Schedule(p, receivers[p] = 0 /\ (~running[p] \/ timeoutActive[p]))

\* An expired sender sends nothing.
send(p, i, m) == IF Alive(p) THEN enqueue(p, i, m) ELSE UNCHANGED flowVars

remove_sender_First(p) ==
    /\ senders' = [senders EXCEPT ![p] = @ - 1]
    /\ closeQueue' = [closeQueue EXCEPT ![p] = TRUE]
    /\ Schedule(p, receivers[p] = 0 /\ ~running[p])

remove_sender(p) ==
    /\ senders' = [senders EXCEPT ![p] = @ - 1]
    /\ IF senders[p] = 1
       THEN /\ closeQueue' = [closeQueue EXCEPT ![p] = TRUE]
            /\ Schedule(p, receivers[p] = 0 /\ ~running[p])
       ELSE UNCHANGED << closeQueue, running, pending >>

Send(p) ==
    /\ handles[p] > 0
    /\ Len(put[p][1]) < Graph[p].sends
    /\ send(p, 1, << p, Len(put[p][1]) + 1 >>)
    /\ UNCHANGED << graphVars, senders, down, procVars, userVars, job, sent >>

CopySender(p) ==
    /\ handles[p] \in 1..(Graph[p].copies - 1)
    /\ handles' = [handles EXCEPT ![p] = @ + 1]
    /\ senders' = [senders EXCEPT ![p] = @ + (IF Alive(p) THEN 1 ELSE 0)]
    /\ UNCHANGED << graph, made, open, ready, checking, receivers, down, flowVars, procVars,
                    userVars, job, sent >>

\* sender::close, and the destructor.
CloseSender(p) ==
    /\ handles[p] > 0
    /\ handles' = [handles EXCEPT ![p] = @ - 1]
    /\ IF Alive(p) THEN remove_sender(p) ELSE UNCHANGED << senders, closeQueue, running, pending >>
    /\ UNCHANGED << graph, made, open, ready, checking, receivers, down, queue, put, suspend, final,
                    userVars, job, sent >>

\* operator= onto a handle of the same channel: the copy is counted, and moved onto the handle it
\* replaces, which is not uncounted.
AssignSender(p) ==
    /\ handles[p] = Graph[p].copies
    /\ senders[p] = Graph[p].copies /\ Graph[p].copies > 1
    /\ senders' = [senders EXCEPT ![p] = @ + (IF Alive(p) THEN 1 ELSE 0)]
    /\ UNCHANGED << graphVars, down, flowVars, procVars, userVars, job, sent >>

(***************************************************************************)
(* The jobs.  pc is what a job does next; cts lists the processes it has   *)
(* still to call clear_to_send on and then is where it goes from there.    *)
(***************************************************************************)
At(w, pc) == job[w].pc = pc
Continue(w, j) == job' = [job EXCEPT ![w] = j]

\* _timeout_function_control is held for the length of a step and of a timeout.
Locked(p) == \E w \in Workers : job[w] # NoJob /\ job[w].p = p /\ job[w].locked

NewJob(p, pc, locked) ==
    [pc |-> pc, p |-> p, locked |-> locked, cts |-> << >>, then |-> "end", msg |-> << >>,
     out |-> Error, n |-> 0, k |-> 0, low |-> FALSE, seen |-> {}, expires |-> FALSE]

\* Where a job goes with the processes in cts to clear; "end" ends it, and with it its lock.
After(j, cts, then) ==
    IF cts # << >> THEN [j EXCEPT !.pc = "check", !.cts = cts, !.then = then]
    ELSE IF then # "end" THEN [j EXCEPT !.pc = then, !.cts = cts]
    ELSE IF j.expires THEN [j EXCEPT !.pc = "expire", !.cts = cts]
    ELSE NoJob

\* clear_to_send, first mutex: a process that has closed is left alone.
CtsCheck(w) ==
    /\ At(w, "check")
    /\ LET u == Head(job[w].cts)
       IN  Continue(w, IF final[u] THEN After(job[w], Tail(job[w].cts), job[w].then)
                       ELSE [job[w] EXCEPT !.pc = IF IsFunction(u) THEN "release" ELSE "state",
                                           !.low = FALSE])
    /\ UNCHANGED << graphVars, senders, down, flowVars, procVars, userVars, sent >>

\* What state() may answer: whether the process yields, and anything once it has been destroyed.
States(x) == IF x.live THEN {x.yields} ELSE BOOLEAN

\* Its state is read outside the mutex.
CtsState(w) ==
    /\ At(w, "state")
    /\ \E yields \in States(process[Head(job[w].cts)]) :
          Continue(w, [job[w] EXCEPT !.pc = "release", !.low = yields])
    /\ UNCHANGED << graphVars, senders, down, flowVars, procVars, userVars, sent >>

\* Second mutex: the last one the process waits for starts it, or finds nothing for it to do.
clear_to_send(u, yields) ==
    LET left == IF suspend[u] > 0 THEN suspend[u] - 1 ELSE 0
        doRun == yields \/ ~Empty(Graph[u].strategy, queue[u]) \/ closeQueue[u]
    IN  /\ suspend' = [suspend EXCEPT ![u] = left]
        /\ running' = [running EXCEPT ![u] = IF left = 0 /\ ~doRun THEN FALSE ELSE @]
        /\ pending' = [pending EXCEPT ![u] = @ + (IF left = 0 /\ doRun THEN 1 ELSE 0)]

CtsRelease(w) ==
    /\ At(w, "release")
    /\ clear_to_send(Head(job[w].cts), job[w].low)
    /\ Continue(w, After(job[w], Tail(job[w].cts), job[w].then))
    /\ UNCHANGED << graphVars, senders, down, queue, put, closeQueue, final, userVars, sent >>

\* Taking a message, or noticing the close; then the upstream with room is cleared to send.
pop_from_queue_KeepsClose(w, j) ==
    LET p == j.p
        s == Graph[p].strategy
        popped == PopFront(s, queue[p])
        cleared == {i \in DOMAIN Up(p) : Sizes(s, popped)[i] <= Minus(Graph[p].buffer, 1)}
        cts == [k \in 1..Cardinality(cleared) |->
                    Up(p)[CHOOSE i \in cleared : Cardinality({h \in cleared : h <= i}) = k]]
    IN  IF Empty(s, queue[p])
        THEN /\ final' = [final EXCEPT ![p] = closeQueue[p]]
             /\ Continue(w, After([j EXCEPT !.msg = << >>], << >>, "apply"))
             /\ UNCHANGED << queue, closeQueue >>
        ELSE /\ queue' = [queue EXCEPT ![p] = popped]
             /\ Continue(w, After([j EXCEPT !.msg = Front(s, queue[p])], cts, "apply"))
             /\ UNCHANGED << final, closeQueue >>

pop_from_queue(w, j) ==
    LET p == j.p
        s == Graph[p].strategy
        popped == PopFront(s, queue[p])
        cleared == {i \in DOMAIN Up(p) : Sizes(s, popped)[i] <= Minus(Graph[p].buffer, 1)}
        cts == [k \in 1..Cardinality(cleared) |->
                    Up(p)[CHOOSE i \in cleared : Cardinality({h \in cleared : h <= i}) = k]]
    IN  IF Empty(s, queue[p])
        THEN /\ final' = [final EXCEPT ![p] = closeQueue[p]]
             /\ closeQueue' = [closeQueue EXCEPT ![p] = FALSE]
             /\ Continue(w, After([j EXCEPT !.msg = << >>], << >>, "apply"))
             /\ UNCHANGED queue
        ELSE /\ queue' = [queue EXCEPT ![p] = popped]
             /\ Continue(w, After([j EXCEPT !.msg = Front(s, queue[p])], cts, "apply"))
             /\ UNCHANGED << final, closeQueue >>

\* broadcast, first mutex: how many are downstream and the least room any of them has.  An expired
\* sender is counted, and has room for everything.
downstream_size(p) == IF Graph[p].moveOnly THEN 1 ELSE Len(down[p])

free_buffer(q, i) ==
    IF Graph[q].buffer = 0 THEN SizeMax ELSE Minus(Graph[q].buffer, Len(queue[q].items[i]))

minimum_free_buffer_low(p) ==
    \/ down[p] = << >>
    \/ \E d \in {down[p][k] : k \in DOMAIN down[p]} : Alive(d[1]) /\ free_buffer(d[1], d[2]) <= 1
    \/ Graph[p].moveOnly /\ ~Alive(down[p][1][1])

LookDownstream(j, out) ==
    [j EXCEPT !.pc = "suspend", !.out = out, !.n = downstream_size(j.p), !.k = 1,
              !.low = minimum_free_buffer_low(j.p),
              !.seen = {down[j.p][k][1] : k \in {k \in DOMAIN down[j.p] : Alive(down[j.p][k][1])}}]

broadcast(w, j, out) ==
    /\ Continue(w, LookDownstream(j, out))
    /\ sent' = [sent EXCEPT ![j.p] = Append(@, out)]

\* The room is asked for twice, to see that there is an answer and to have it.  A downstream that has
\* expired in between leaves an optional without a value, and what is read from it may be anything.
LookExpired(w) ==
    /\ At(w, "suspend")
    /\ LET j == job[w]
           d == down[j.p]
           full == \E k \in 1..j.n : Alive(d[k][1]) /\ free_buffer(d[k][1], d[k][2]) <= 1
       IN  /\ \E k \in DOMAIN d : d[k][1] \in j.seen /\ ~Alive(d[k][1])
           /\ \E low \in IF Graph[j.p].moveOnly THEN BOOLEAN ELSE {TRUE, full} :
                 Continue(w, [j EXCEPT !.low = low, !.seen = {}])
    /\ UNCHANGED << graphVars, senders, down, flowVars, procVars, userVars, sent >>

\* Second mutex: one for every value sent and one for the broadcast itself.
SuspendProcess_NotSelf(w) ==
    /\ At(w, "suspend")
    /\ LET j == job[w]
       IN  /\ suspend' = [suspend EXCEPT ![j.p] = IF j.low THEN j.n ELSE 1]
           /\ Continue(w, IF j.n = 0 \/ down[j.p] = << >> THEN After(j, << j.p >>, "end")
                          ELSE [j EXCEPT !.pc = "send"])
    /\ UNCHANGED << graphVars, senders, down, flowVars, closeQueue, final, userVars, sent >>

SuspendProcess(w) ==
    /\ At(w, "suspend")
    /\ LET j == job[w]
       IN  /\ suspend' = [suspend EXCEPT ![j.p] = IF j.low THEN j.n + 1 ELSE 1]
           /\ Continue(w, IF j.n = 0 \/ down[j.p] = << >> THEN After(j, << j.p >>, "end")
                          ELSE [j EXCEPT !.pc = "send"])
    /\ UNCHANGED << graphVars, senders, down, flowVars, closeQueue, final, userVars, sent >>

SendDown(w) ==
    /\ At(w, "send")
    /\ LET j == job[w]
       IN  /\ send(down[j.p][j.k][1], down[j.p][j.k][2], j.out)
           /\ Continue(w, IF j.k = j.n THEN After(j, << j.p >>, "end") ELSE [j EXCEPT !.k = @ + 1])
    /\ UNCHANGED << graphVars, senders, down, procVars, userVars, sent >>


TaskDone(w) ==
    /\ At(w, "done")
    /\ LET p == job[w].p
           doRun == ~Empty(Graph[p].strategy, queue[p]) \/ closeQueue[p]
       IN  /\ running' = [running EXCEPT ![p] = doRun]
           /\ pending' = [pending EXCEPT ![p] = @ + (IF doRun THEN 1 ELSE 0)]
           /\ Continue(w, After(job[w], << >>, IF final[p] THEN "finish" ELSE "end"))
    /\ UNCHANGED << graphVars, senders, down, queue, put, procVars, userVars, sent >>

\* Destroying the senders to the downstream closes it.
ClearDownstream(w) ==
    /\ At(w, "finish")
    /\ LET p == job[w].p
       IN  IF down[p] = << >>
           THEN /\ process' = [process EXCEPT ![p] = Reset]
                /\ Continue(w, After(job[w], << >>, "end"))
                /\ UNCHANGED << down, senders, closeQueue, running, pending >>
           ELSE /\ down' = [down EXCEPT ![p] = Tail(@)]
                /\ IF Alive(Head(down[p])[1]) THEN remove_sender(Head(down[p])[1])
                   ELSE UNCHANGED << senders, closeQueue, running, pending >>
                /\ UNCHANGED << process, job >>
    /\ UNCHANGED << graphVars, queue, put, suspend, final, delayed, timeouts, timeoutActive, sent >>

(***************************************************************************)
(* The user's code.                                                        *)
(***************************************************************************)
Result(m) == IF Len(m) = 1 THEN m[1] ELSE m

find_argument_error(m) == \E k \in DOMAIN m : m[k] = Error

Throws(p, m) == Graph[p].throws # {} /\ m[1][2] \in Graph[p].throws

await(p, m) ==
    LET held == Append(process[p].held, Result(m))
    IN  [process[p] EXCEPT !.held = held, !.yields = Len(held) >= Graph[p].batch]

process_close(p) ==
    [process[p] EXCEPT !.yields = @ \/ (Graph[p].closes /\ process[p].held # << >>)]

\* yield() with nothing collected throws.
YieldResult(p) == IF process[p].held = << >> THEN Error ELSE Head(process[p].held)

Yielded(p) ==
    LET rest == IF process[p].held = << >> THEN << >> ELSE Tail(process[p].held)
    IN  [process[p] EXCEPT !.held = rest, !.yields = rest # << >>]

(***************************************************************************)
(* A step of a process without yield.                                      *)
(***************************************************************************)
StepFunction(w, p) ==
    /\ job[w] = NoJob /\ IsFunction(p) /\ pending[p] > 0 /\ Alive(p)
    /\ pending' = [pending EXCEPT ![p] = @ - 1]
    /\ pop_from_queue(w, NewJob(p, "apply", FALSE))
    /\ UNCHANGED << graphVars, senders, down, running, put, suspend, userVars, sent >>

\* An error ends the step, and that is all it does.
ApplyFunction(w) ==
    /\ At(w, "apply") /\ IsFunction(job[w].p)
    /\ LET j == job[w]
       IN  IF j.msg # << >> /\ ~find_argument_error(j.msg)
           THEN broadcast(w, j, IF Throws(j.p, j.msg) THEN Error ELSE Result(j.msg))
           ELSE /\ Continue(w, After(j, << >>, IF j.msg = << >> THEN "done" ELSE "end"))
                /\ UNCHANGED sent
    /\ UNCHANGED << graphVars, senders, down, flowVars, procVars, userVars >>

(***************************************************************************)
(* A step of a process with yield: it takes messages while it awaits, then *)
(* yields, waits for the time it asked for, or rests.  While the mutex of  *)
(* a timeout is taken the step only schedules itself again.                *)
(***************************************************************************)
StepProcess_Unlocked(w, p) ==
    /\ job[w] = NoJob /\ Graph[p].kind = "process" /\ pending[p] > 0 /\ Alive(p)
    /\ pending' = [pending EXCEPT ![p] = @ - 1]
    /\ timeoutActive' = [timeoutActive EXCEPT ![p] = FALSE]
    /\ \E yields \in States(process[p]) :
          Continue(w, NewJob(p, IF yields THEN "decide" ELSE "dequeue", TRUE))
    /\ UNCHANGED << graphVars, senders, down, queue, running, put, procVars, process, delayed,
                    timeouts, sent >>

StepProcess(w, p) ==
    /\ job[w] = NoJob /\ Graph[p].kind = "process" /\ pending[p] > 0 /\ Alive(p)
    /\ ~Locked(p)
    /\ pending' = [pending EXCEPT ![p] = @ - 1]
    /\ timeoutActive' = [timeoutActive EXCEPT ![p] = FALSE]
    /\ \E yields \in States(process[p]) :
          Continue(w, NewJob(p, IF yields THEN "decide" ELSE "dequeue", TRUE))
    /\ UNCHANGED << graphVars, senders, down, queue, running, put, procVars,
                    process, delayed, timeouts, sent >>

\* A generator awaits nothing: a step in an await state does nothing.
StepSource(w, p) ==
    /\ job[w] = NoJob /\ Graph[p].kind = "source" /\ pending[p] > 0 /\ Alive(p)
    /\ ~Locked(p)
    /\ pending' = [pending EXCEPT ![p] = @ - 1]
    /\ timeoutActive' = [timeoutActive EXCEPT ![p] = FALSE]
    /\ IF process[p].yields THEN Continue(w, NewJob(p, "decide", TRUE)) ELSE UNCHANGED job
    /\ UNCHANGED << graphVars, senders, down, queue, running, put, procVars,
                    process, delayed, timeouts, sent >>

Dequeue(w) ==
    /\ At(w, "dequeue")
    /\ pop_from_queue(w, job[w])
    /\ UNCHANGED << graphVars, senders, down, running, pending, put, suspend, userVars, sent >>

\* await, set_error or close, then the next message while the process awaits.
ApplyProcess(w) ==
    /\ At(w, "apply") /\ Graph[job[w].p].kind = "process"
    /\ LET j == job[w]
           p == j.p
       IN  IF j.msg # << >> /\ ~find_argument_error(j.msg) /\ Throws(p, j.msg)
           THEN broadcast(w, j, Error) /\ UNCHANGED process
           ELSE LET q == IF j.msg = << >> THEN process_close(p)
                         ELSE IF ~find_argument_error(j.msg) THEN await(p, j.msg)
                         ELSE IF Graph[p].setsError THEN process[p]
                         ELSE process_close(p)
                IN  /\ process' = [process EXCEPT ![p] = q]
                    /\ \E yields \in States(q) :
                          Continue(w, After(j, << >>, IF j.msg = << >> \/ yields THEN "decide"
                                                      ELSE "dequeue"))
                    /\ UNCHANGED sent
    /\ UNCHANGED << graphVars, senders, down, flowVars, procVars, delayed, timeouts, timeoutActive >>

\* A call of yield() on a process that has been destroyed is not followed.
YieldNow(w, p, j) ==
    /\ process[p].live
    /\ process' = [process EXCEPT ![p] = Yielded(p)]
    /\ broadcast(w, j, YieldResult(p))
    /\ UNCHANGED << delayed, timeouts, timeoutActive >>

\* What state() asks for once there is no more to await.
Decide(w) ==
    /\ At(w, "decide")
    /\ LET j == job[w]
           p == j.p
       IN  \E yields \in States(process[p]) : LET waits == process[p].held # << >> /\ ~yields IN
           \/ yields /\ ~Graph[p].delayed /\ YieldNow(w, p, j)
           \/ /\ yields /\ Graph[p].delayed
              /\ delayed' = [delayed EXCEPT ![p] = @ + 1]
              /\ Continue(w, After(j, << >>, "end"))
              /\ UNCHANGED << process, timeouts, timeoutActive, sent >>
           \/ /\ ~yields /\ ~(waits /\ Graph[p].wait # "forever")
              /\ Continue(w, After(j, << >>, "done"))
              /\ UNCHANGED << userVars, sent >>
           \/ waits /\ Graph[p].wait = "expired" /\ YieldNow(w, p, j)
           \/ /\ waits /\ Graph[p].wait = "timed"
              /\ timeoutActive' = [timeoutActive EXCEPT ![p] = TRUE]
              /\ timeouts' = [timeouts EXCEPT ![p] = @ + 1]
              /\ Continue(w, After(j, << >>, "end"))
              /\ UNCHANGED << process, delayed, sent >>
    /\ UNCHANGED << graphVars, senders, down, flowVars, procVars >>

\* The delayed yield takes no mutex.
RunDelayed(w, p) ==
    /\ job[w] = NoJob /\ delayed[p] > 0 /\ Alive(p)
    /\ delayed' = [delayed EXCEPT ![p] = @ - 1]
    /\ IF ~process[p].live THEN UNCHANGED << process, job, sent >>
       ELSE /\ process' = [process EXCEPT ![p] = Yielded(p)]
            /\ broadcast(w, NewJob(p, "suspend", FALSE), YieldResult(p))
    /\ UNCHANGED << graphVars, senders, down, flowVars, procVars, timeouts, timeoutActive >>

\* The timeout spins for the mutex.  It yields unless the process is about to, whether the wait it
\* was set for is still on or not.
RunTimeout(w, p) ==
    /\ job[w] = NoJob /\ timeouts[p] > 0 /\ Alive(p) /\ ~Locked(p)
    /\ timeouts' = [timeouts EXCEPT ![p] = @ - 1]
    /\ \E yields \in States(process[p]) :
          \/ yields /\ UNCHANGED << process, job, timeoutActive, sent >>
          \/ /\ ~yields /\ ~process[p].live
             /\ timeoutActive' = [timeoutActive EXCEPT ![p] = FALSE]
             /\ UNCHANGED << process, job, sent >>
          \/ /\ ~yields /\ process[p].live
             /\ process' = [process EXCEPT ![p] = Yielded(p)]
             /\ broadcast(w, [NewJob(p, "suspend", TRUE) EXCEPT !.expires = TRUE], YieldResult(p))
             /\ UNCHANGED timeoutActive
    /\ UNCHANGED << graphVars, senders, down, flowVars, procVars, delayed >>

EndTimeout(w) ==
    /\ At(w, "expire")
    /\ timeoutActive' = [timeoutActive EXCEPT ![job[w].p] = FALSE]
    /\ Continue(w, NoJob)
    /\ UNCHANGED << graphVars, senders, down, flowVars, procVars, process, delayed,
                    timeouts, sent >>

\* A closure whose process is gone does nothing.
ExpiredClosure(p) ==
    /\ ~Alive(p)
    /\ pending[p] + delayed[p] + timeouts[p] > 0
    /\ pending' = [pending EXCEPT ![p] = 0]
    /\ delayed' = [delayed EXCEPT ![p] = 0]
    /\ timeouts' = [timeouts EXCEPT ![p] = 0]
    /\ UNCHANGED << graphVars, senders, down, queue, running, put, procVars,
                    process, timeoutActive, job, sent >>

UserNext ==
    \E p \in Procs :
        \/ Attach(p) \/ CopyReceiver(p) \/ SetReady(p) \/ DestroyReceiver(p) \/ StartReady(p)
        \/ Send(p) \/ CopySender(p) \/ CloseSender(p) \/ AssignSender(p)

JobNext(w) ==
    \/ CtsCheck(w) \/ CtsState(w) \/ CtsRelease(w)
    \/ LookExpired(w) \/ SuspendProcess(w) \/ SendDown(w) \/ TaskDone(w) \/ ClearDownstream(w)
    \/ ApplyFunction(w) \/ Dequeue(w) \/ ApplyProcess(w) \/ Decide(w) \/ EndTimeout(w)

StartNext(w, p) ==
    \/ StepFunction(w, p) \/ StepProcess(w, p) \/ StepSource(w, p)
    \/ RunDelayed(w, p) \/ RunTimeout(w, p)

Next ==
    \/ UserNext
    \/ \E w \in Workers : JobNext(w) \/ \E p \in Procs : StartNext(w, p)
    \/ \E p \in Procs : ExpiredClosure(p)

Spec == Init /\ [][Next]_vars

\* The executors run what they are given; receivers are made ready and senders closed.
Fairness ==
    /\ \A w \in Workers : WF_vars(JobNext(w))
    /\ \A p \in Names : /\ WF_vars(p \in Procs /\ \E w \in Workers : StartNext(w, p))
                        /\ WF_vars(p \in Procs /\ StartReady(p))
                        /\ WF_vars(p \in Procs /\ SetReady(p))
                        /\ WF_vars(p \in Procs /\ CloseSender(p))

FairSpec == Spec /\ Fairness

(***************************************************************************)
(* Correctness.                                                            *)
(***************************************************************************)
JobsOf(p) == {w \in Workers : job[w] # NoJob /\ job[w].p = p}

TypeOK ==
    /\ graph \in DOMAIN Graphs
    /\ made \subseteq Procs
    /\ \A v \in {open, ready, handles, checking, receivers, senders, suspend, pending, delayed,
                 timeouts} : v \in [Procs -> Nat]
    /\ \A v \in {running, closeQueue, final, timeoutActive} : v \in [Procs -> BOOLEAN]
    /\ \A p \in Procs : \A k \in DOMAIN down[p] : down[p][k][1] \in Procs
    /\ \A w \in Workers : job[w] # NoJob => job[w].p \in Procs

\* A process runs one step at a time: while a step is scheduled, runs, or waits as a delayed
\* yield, no other is; and a process that waits for a timeout at least never runs two at once.
\* This is what the comment in broadcast (channel.hpp:1191) is for: a process is not kicked while it
\* is still broadcasting.
OneStepAtATime ==
    \A p \in Procs :
        /\ Cardinality(JobsOf(p)) <= 1
        /\ Graph[p].wait # "timed" => Cardinality(JobsOf(p)) + pending[p] + delayed[p] <= 1

\* Flow control: a process never holds more than its buffer size of what another one sends it,
\* unless that one yields on a timeout: the timeout, set while the process is suspended, does not
\* look at the downstream.
BufferBound ==
    \A p \in Procs \ Heads :
        Graph[p].buffer # 0 /\ (\A i \in DOMAIN Up(p) : Graph[Up(p)[i]].wait # "timed") =>
        \A i \in Arguments(queue[p]) : Len(queue[p].items[i]) <= Graph[p].buffer

\* The assertions of remove_sender, remove_receiver and task_done, and the one dereferencing
\* _process makes silently: task_done has not destroyed the process that a step, scheduled or
\* running, or clear_to_send works on.  The counts stay natural numbers: none wraps below zero.
AssertionsHold ==
    /\ TypeOK
    /\ \A p \in Procs : /\ handles[p] <= senders[p] \/ ~Alive(p)
                        /\ open[p] <= receivers[p] \/ Graph[p].void
                        /\ pending[p] > 0 => process[p].live
    /\ \A w \in Workers :
        /\ job[w] # NoJob => process[job[w].p].live
        /\ At(w, "state") => process[Head(job[w].cts)].live
        /\ At(w, "done") /\ final[job[w].p] =>
                /\ ~closeQueue[job[w].p]
                /\ Empty(Graph[job[w].p].strategy, queue[job[w].p])

\* What the contract sees of a process: how much of each argument was used, the message that is in
\* the hands of the user's code, what that code has collected, and the close.
Used(p) == [i \in 1..Arity(p) |-> Len(put[p][i]) - Len(queue[p].items[i])]

HasMessage(w) ==
    /\ job[w] # NoJob /\ job[w].msg # << >>
    /\ job[w].pc = "apply" \/ (job[w].pc \in {"check", "state", "release"} /\ job[w].then = "apply")

Hand(p) == {job[w].msg : w \in {w \in Workers : HasMessage(w) /\ job[w].p = p}}

Uses      == [p \in Procs |-> Used(p)]
Hands     == [p \in Procs |-> Hand(p)]
Collected == [p \in Procs |-> process[p].held]
Shut      == {p \in Procs : final[p]}

\* The graph keeps the promise of ChannelContract: no value is lost, repeated or out of order, and
\* the close comes last.
Contract == INSTANCE ChannelContract
                WITH used <- Uses, hand <- Hands, kept <- Collected, closed <- Shut
Promise  == Contract!Spec

Timers == {p \in Procs : Graph[p].wait = "timed"}
BelowTimers == UNION {Downstream[graph][q] \ {q} : q \in Timers}

\* Whatever timeouts do (one of an earlier wait ends a later one, a value starts a process that is
\* suspended for a full downstream), every value passes once and in order: each argument was given
\* the first values its upstream sent, and what a process that collects has sent, but for errors, what
\* it keeps and what is in its hand are the values it has taken; less than a batch goes with it when
\* it is destroyed, and nothing if it waits with a timer.  It is about graphs in which whoever attaches
\* does so in time and nothing throws but a yield with nothing to yield.
NoneOvertakes ==
    \A p \in Procs :
        /\ \A i \in DOMAIN Up(p) :
              /\ Len(put[p][i]) <= Len(sent[Up(p)[i]])
              /\ put[p][i] = SubSeq(sent[Up(p)[i]], 1, Len(put[p][i]))
        /\ Graph[p].kind = "process" =>
              LET taken == SubSeq(put[p][1], 1, Used(p)[1])
                  passed == SelectSeq(sent[p], LAMBDA m : m # Error) \o process[p].held
              IN  \/ taken \in {passed} \cup {passed \o m : m \in Hand(p)}
                  \/ /\ ~process[p].live /\ p \notin Timers
                     /\ \E n \in 0..Len(taken) : /\ n > Len(taken) - Graph[p].batch
                                               /\ passed = SubSeq(taken, 1, n)

\* "A future time point starts a timeout that yields if no value arrives before it expires (cancelled
\* when a value does arrive)" (channel.hpp:100): so the process that a timeout finds is one that still
\* waits, and not one that task_done has destroyed.
TimeoutFindsProcess ==
    \A p \in Procs : timeouts[p] > 0 /\ Alive(p) => process[p].live


=============================================================================
