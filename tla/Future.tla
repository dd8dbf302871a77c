------------------------------- MODULE Future -------------------------------
(***************************************************************************)
(* The shared state behind stlab's future, packaged_task and promise:      *)
(* futures are created by async, then, recover, on_completion and detach,  *)
(* copied and released by client threads, run or dropped by executors, and *)
(* completed while other threads are still attaching to them.              *)
(*                                                                         *)
(* A member of Futures is one heap block: a shared<F, R(Args...)> together *)
(* with the packaged_task that refers to it.  A plain callback (the task   *)
(* of on_completion and of detach) has no shared state but goes through    *)
(* the same lists, so it is a member too.  The thread that runs or         *)
(* completes a future is a frame: invoke[d] is packaged_task::operator(),  *)
(* settle[d] is set_value / _set_exception.  An immediate executor calls   *)
(* the task it is given, so the frame that submitted it waits for it; any  *)
(* other executor (the pool) runs or destroys the task later.              *)
(*                                                                         *)
(* A definition X_Y is X with the defect Y.  Nothing uses it: it is there  *)
(* to put in the place of X and see a property of X fail.                  *)
(***************************************************************************)
EXTENDS Naturals, Sequences, FiniteSets, Functions

CONSTANTS
    Futures,     \* the shared states and callbacks that may be created
    Clients,     \* the threads that hold future handles
    NoFuture,    \* an empty future handle
    MoveOnly,    \* TRUE for the move-only shared_base, FALSE for the copyable one
    Executors,   \* the executors clients choose from, a subset of {"pool", "immediate"}
    Commands,    \* what clients may do, a subset of AllCommands
    MaxStarted,  \* bound: clients start no more futures than this that have no source
    Outcomes,    \* how a function may end, a subset of {"value", "error"}
    Reduces      \* TRUE if functions may return futures (package's reduction)

AllCommands == {"then", "recover", "watch", "detach", "take", "share", "ready"}

ASSUME FutureAssumption ==
    /\ NoFuture \notin Futures
    /\ MoveOnly \in BOOLEAN
    /\ Reduces \in BOOLEAN
    /\ Executors \subseteq {"pool", "immediate"}
    /\ Commands \subseteq AllCommands
    /\ Outcomes \subseteq {"value", "error"}
    /\ MaxStarted \in Nat

VARIABLES
    kind,      \* how each member came to be; "none" until it is created
    exec,      \* the executor it is submitted to
    at,        \* the future it was attached to as a continuation
    src,       \* the future its stored function owns
    into,      \* the future a reduction completes through its promise
    hold,      \* the future of a reduction's continuation: a local of the frame, then _hold
    task,      \* where its packaged_task is
    then,      \* _then
    ready,     \* _ready
    result,    \* _result and _exception
    invoke,    \* the frame of packaged_task::operator()
    settle,    \* the frame of set_value / _set_exception
    todo,      \* the continuations that frame has moved out of _then
    handles,   \* the futures each client holds
    op         \* the call each client is in

vars == << kind, exec, at, src, into, hold, task, then, ready, result,
           invoke, settle, todo, handles, op >>

Callback == {"watch", "detach"}
Kinds    == {"none", "async", "then", "recover", "ready", "hold"} \cup Callback
OpPc     == {"idle", "attach", "submit", "call", "take"}

NoOp == [pc |-> "idle", s |-> NoFuture, d |-> NoFuture, unique |-> FALSE]

IsFuture(d)   == kind[d] \notin Callback \cup {"none"}
IsCallback(d) == kind[d] \in Callback
Fresh         == {d \in Futures : kind[d] = "none"}

\* A bound of the model, not of the code.
MayStart      == Cardinality({d \in Futures : kind[d] \in {"async", "ready"}}) < MaxStarted

(***************************************************************************)
(* Ownership.  A strong reference is a client's handle, the future a call  *)
(* is about to return, the pointer a running frame locked, the function    *)
(* stored in a living state, or _hold in a living state.  shared_ptr       *)
(* destroys a state, and what it owns, with the last of them: the living   *)
(* states are those reachable from the first three.                        *)
(***************************************************************************)
Pending(d)  == IsCallback(d) /\ task[d] # "spent"
Running(d)  == invoke[d] \notin {"idle", "done"} \/ settle[d] \notin {"idle", "done"}

\* The frame of a reduction until recover has returned and _hold is set.
InRecover(d) == invoke[d] \in {"attach", "call", "keep"}

Roots == {d \in Futures : \/ Running(d) \/ Pending(d)
                          \/ \E c \in Clients : d \in handles[c] \/ op[c].d = d
                          \/ \E r \in Futures : InRecover(r) /\ hold[r] = d}

Holds_Nothing(d) == NoFuture
Holds(d) == IF InRecover(d) THEN NoFuture ELSE hold[d]

Owned(d) == {src[d], Holds(d)} \ {NoFuture}

Closed(S) == \A d \in S : Owned(d) \subseteq S

Live == LET R == Roots
            Keeping == {R \cup S : S \in {S \in SUBSET (Futures \ R) : Closed(R \cup S)}}
        IN  {x \in Futures : \A K \in Keeping : x \in K}

\* weak_ptr::lock finds the state: someone still wants its result.
Wanted_Unchecked(d) == TRUE
Wanted(d) == d \in Live

\* Every strong reference to x.
Refs_WithoutFunctions(x) ==
    {<<"client", c>> : c \in {c \in Clients : x \in handles[c]}}
        \cup {<<"return", c>> : c \in {c \in Clients : op[c].d = x}}
Refs(x) ==
    {<<"client", c>> : c \in {c \in Clients : x \in handles[c]}}
        \cup {<<"return", c>> : c \in {c \in Clients : op[c].d = x}}
        \cup {<<"function", d>> : d \in {d \in Live : src[d] = x}}
        \cup {<<"hold", d>> : d \in {d \in Live : hold[d] = x}}
        \cup {<<"frame", f>> : f \in {f \in {"invoke", "settle"} :
                 (IF f = "invoke" THEN invoke[x] ELSE settle[x]) \notin {"idle", "done"}}}

\* unique_usage: ref is the only reference to x, so its value may be moved out.
Unique_OffByOne(x, ref) == ref \in Refs(x) /\ Cardinality(Refs(x)) <= 2
Unique(x, ref) == Refs(x) = {ref}

Init ==
    /\ kind = [d \in Futures |-> "none"]
    /\ exec = [d \in Futures |-> "pool"]
    /\ at = [d \in Futures |-> NoFuture]
    /\ src = [d \in Futures |-> NoFuture]
    /\ into = [d \in Futures |-> NoFuture]
    /\ hold = [d \in Futures |-> NoFuture]
    /\ task = [d \in Futures |-> "none"]
    /\ then = [d \in Futures |-> <<>>]
    /\ ready = [d \in Futures |-> FALSE]
    /\ result = [d \in Futures |-> "none"]
    /\ invoke = [d \in Futures |-> "idle"]
    /\ settle = [d \in Futures |-> "idle"]
    /\ todo = [d \in Futures |-> <<>>]
    /\ handles = [c \in Clients |-> {}]
    /\ op = [c \in Clients |-> NoOp]

-----------------------------------------------------------------------------
(* Clients *)

Idle(c) == op[c].pc = "idle"

\* An executor given task d: the immediate one is about to call it, the pool keeps it.
Submitted(d) == IF exec[d] = "immediate" THEN "called" ELSE "queued"

\* A task called in place has returned to the frame that submitted it.
Returned(d) == task[d] = "spent" /\ invoke[d] \in {"idle", "done"}

\* async: packages f and submits it; the future is returned to the client.
Async(c, d, e) ==
    /\ Idle(c)
    /\ MayStart
    /\ kind' = [kind EXCEPT ![d] = "async"]
    /\ exec' = [exec EXCEPT ![d] = e]
    /\ task' = [task EXCEPT ![d] = "local"]
    /\ op' = [op EXCEPT ![c] = [NoOp EXCEPT !.pc = "submit", !.d = d]]
    /\ UNCHANGED << at, src, into, hold, then, ready, result, invoke, settle, todo, handles >>

\* make_ready_future, make_exceptional_future, future_with_broken_promise.
MakeReady(c, d, r) ==
    /\ "ready" \in Commands
    /\ Idle(c)
    /\ MayStart
    /\ kind' = [kind EXCEPT ![d] = "ready"]
    /\ task' = [task EXCEPT ![d] = "spent"]
    /\ ready' = [ready EXCEPT ![d] = TRUE]
    /\ result' = [result EXCEPT ![d] = r]
    /\ handles' = [handles EXCEPT ![c] = @ \cup {d}]
    /\ UNCHANGED << exec, at, src, into, hold, then, invoke, settle, todo, op >>

(* on_completion on a move-only future uses up its only continuation slot: *)
(* attaching again is documented as undefined.                             *)
SlotUsed(s) == MoveOnly /\ \E w \in Futures : kind[w] = "watch" /\ at[w] = s

\* What the function stored for a continuation on s owns: all but on_completion's own s.
Captured_Weakly(k, s) == NoFuture
Captured(k, s) == IF k = "watch" THEN NoFuture ELSE s

\* An rvalue call moves the client's handle into that function.
Remaining_NotMoved(c, s, consume) == handles[c]
Remaining(c, s, consume) == IF consume THEN handles[c] \ {s} ELSE handles[c]

\* The value of a move-only future has been taken; its owner does not ask for it again.
Spent(s) == MoveOnly /\ result[s] = "moved"

\* The part of recover, then, on_completion and detach(f) before the lock: the function
\* (with the future, for all but on_completion) is packaged.  consume is the && overload.
Package(c, s, d, k, e, consume) ==
    /\ k \in Commands
    /\ Idle(c)
    /\ s \in handles[c]
    /\ ~SlotUsed(s)
    /\ ~Spent(s)
    /\ k = "detach" => e = "immediate" /\ consume
    /\ k = "watch" => ~consume
    /\ k \in {"then", "recover"} /\ MoveOnly => consume
    /\ kind' = [kind EXCEPT ![d] = k]
    /\ exec' = [exec EXCEPT ![d] = e]
    /\ at' = [at EXCEPT ![d] = s]
    /\ src' = [src EXCEPT ![d] = Captured(k, s)]
    /\ task' = [task EXCEPT ![d] = "local"]
    /\ handles' = [handles EXCEPT ![c] = Remaining(c, s, consume)]
    /\ op' = [op EXCEPT ![c] = [NoOp EXCEPT !.pc = "attach", !.s = s, !.d = d]]
    /\ UNCHANGED << into, hold, then, ready, result, invoke, settle, todo >>

\* The test of _ready, under the lock.
AlreadyReady_Stale(s) == FALSE
AlreadyReady_Stored(s) == result[s] # "none"
AlreadyReady(s) == ready[s]

\* The locked section: a future that is not ready keeps the continuation; otherwise the
\* caller submits it after unlocking.
Attach(c) ==
    LET s == op[c].s
        d == op[c].d
    IN  /\ op[c].pc = "attach"
        /\ IF AlreadyReady(s)
           THEN /\ op' = [op EXCEPT ![c].pc = "submit"]
                /\ UNCHANGED << task, then, handles >>
           ELSE /\ then' = [then EXCEPT ![s] = IF MoveOnly THEN <<d>> ELSE Append(@, d)]
                /\ task' = [task EXCEPT ![d] = "attached"]
                /\ handles' = [handles EXCEPT ![c] = IF IsFuture(d) THEN @ \cup {d} ELSE @]
                /\ op' = [op EXCEPT ![c] = NoOp]
        /\ UNCHANGED << kind, exec, at, src, into, hold, ready, result, invoke, settle, todo >>

\* The end of a call: its future, if it makes one, becomes a handle of the client.
Give(c, d) ==
    /\ handles' = [handles EXCEPT ![c] = IF IsFuture(d) THEN @ \cup {d} ELSE @]
    /\ op' = [op EXCEPT ![c] = NoOp]

\* executor(std::move(pro)), outside the lock.
Submit(c) ==
    LET d == op[c].d
    IN  /\ op[c].pc = "submit"
        /\ task' = [task EXCEPT ![d] = Submitted(d)]
        /\ IF exec[d] = "immediate"
           THEN op' = [op EXCEPT ![c].pc = "call"] /\ UNCHANGED handles
           ELSE Give(c, d)
        /\ UNCHANGED << kind, exec, at, src, into, hold, then, ready, result,
                        invoke, settle, todo >>

Return(c) ==
    /\ op[c].pc = "call"
    /\ Returned(op[c].d)
    /\ Give(c, op[c].d)
    /\ UNCHANGED << kind, exec, at, src, into, hold, task, then, ready, result,
                    invoke, settle, todo >>

\* detach() without a function: the continuation holds nothing but the future itself.  Its
\* executor destroys it unrun, as calling an empty function would; on a ready future the
\* handle is left as it was.
Detach(c, s, d) ==
    /\ "detach" \in Commands
    /\ Idle(c)
    /\ s \in handles[c]
    /\ ~SlotUsed(s)
    /\ ~AlreadyReady(s)
    /\ kind' = [kind EXCEPT ![d] = "detach"]
    /\ exec' = [exec EXCEPT ![d] = "immediate"]
    /\ at' = [at EXCEPT ![d] = s]
    /\ src' = [src EXCEPT ![d] = s]
    /\ task' = [task EXCEPT ![d] = "attached"]
    /\ then' = [then EXCEPT ![s] = IF MoveOnly THEN <<d>> ELSE Append(@, d)]
    /\ handles' = [handles EXCEPT ![c] = @ \ {s}]
    /\ UNCHANGED << into, hold, ready, result, invoke, settle, todo, op >>

\* A handle is destroyed, reset or assigned over.
Release(c, s) ==
    /\ Idle(c)
    /\ s \in handles[c]
    /\ handles' = [handles EXCEPT ![c] = @ \ {s}]
    /\ UNCHANGED << kind, exec, at, src, into, hold, task, then, ready, result,
                    invoke, settle, todo, op >>

\* A copyable future is copied for another thread.
Share(c, other, s) ==
    /\ "share" \in Commands
    /\ ~MoveOnly
    /\ Idle(c)
    /\ s \in handles[c] \ handles[other]
    /\ handles' = [handles EXCEPT ![other] = @ \cup {s}]
    /\ UNCHANGED << kind, exec, at, src, into, hold, task, then, ready, result,
                    invoke, settle, todo, op >>

\* unique_usage of an rvalue; get_try of a move-only future always moves.
MayMove(c, s) == MoveOnly \/ Unique(s, <<"client", c>>)

\* The rvalue get_try: unique_usage is evaluated before get_try_r takes the lock.
Take(c, s) ==
    /\ "take" \in Commands
    /\ Idle(c)
    /\ s \in handles[c]
    /\ ~Spent(s)
    /\ op' = [op EXCEPT ![c] = [NoOp EXCEPT !.pc = "take", !.s = s,
                                            !.unique = MayMove(c, s)]]
    /\ UNCHANGED << kind, exec, at, src, into, hold, task, then, ready, result,
                    invoke, settle, todo, handles >>

\* A value that s no longer shares is moved out; an exception is rethrown and stays.
Extract(s, unique) ==
    IF unique /\ result[s] = "value" THEN [result EXCEPT ![s] = "moved"] ELSE result

\* A result ends the client's use of the rvalue.  A move-only future is taken from through an
\* lvalue, which is still its owner.
HandlesLeft(c, s) == IF MoveOnly THEN handles[c] ELSE handles[c] \ {s}

\* get_try_r, or the get_try of a move-only future; nullopt leaves everything as it was.
TakeLocked(c) ==
    LET s == op[c].s
    IN  /\ op[c].pc = "take"
        /\ IF ready[s]
           THEN /\ result' = Extract(s, op[c].unique)
                /\ handles' = [handles EXCEPT ![c] = HandlesLeft(c, s)]
           ELSE UNCHANGED << result, handles >>
        /\ op' = [op EXCEPT ![c] = NoOp]
        /\ UNCHANGED << kind, exec, at, src, into, hold, task, then, ready,
                        invoke, settle, todo >>

-----------------------------------------------------------------------------
(* Executors *)

\* A submitted task runs.  packaged_task::operator() locks its weak pointer: if the state
\* is gone the task was canceled and nothing happens.  A callback runs to its end and drops
\* the future it owns.
Begin(d) ==
    /\ task[d] \in {"queued", "called"}
    /\ task' = [task EXCEPT ![d] = "spent"]
    /\ IF IsCallback(d)
       THEN src' = [src EXCEPT ![d] = NoFuture] /\ UNCHANGED invoke
       ELSE /\ invoke' = IF Wanted(d) THEN [invoke EXCEPT ![d] = "run"] ELSE invoke
            /\ UNCHANGED src
    /\ UNCHANGED << kind, exec, at, into, hold, then, ready, result, settle, todo, handles, op >>

\* What an executor may destroy: operator() has reset the pointer of a task it ran.
Droppable_NotReset(d) == task[d] \in {"queued", "spent"}
Droppable(d) == task[d] = "queued"

\* The pool destroys a task it has not run: ~packaged_task breaks the promise of a living
\* state, and shared::set_exception then releases its function.
Drop(d) ==
    /\ Droppable(d)
    /\ task' = [task EXCEPT ![d] = "spent"]
    /\ IF IsCallback(d)
       THEN src' = [src EXCEPT ![d] = NoFuture] /\ UNCHANGED << result, invoke, settle >>
       ELSE /\ IF Wanted(d)
               THEN /\ result' = [result EXCEPT ![d] = "broken"]
                    /\ invoke' = [invoke EXCEPT ![d] = "wait"]
                    /\ settle' = [settle EXCEPT ![d] = "publish"]
               ELSE UNCHANGED << result, invoke, settle >>
            /\ UNCHANGED src
    /\ UNCHANGED << kind, exec, at, into, hold, then, ready, todo, handles, op >>

-----------------------------------------------------------------------------
(* Frames: packaged_task::operator() and the function package stores *)

\* then runs its function on a value only and passes a failure on; recover's function is
\* given the future, failed or not.
FunctionCalled(d) == kind[d] = "then" => result[src[d]] = "value"

MayReturn(d) == IF FunctionCalled(d) THEN Outcomes ELSE {result[src[d]]}

\* result after d's function has taken its argument out of the future it owns: get_ready on
\* an rvalue (a recover function may also leave the value where it is).
Arguments(d) ==
    IF src[d] = NoFuture THEN {result}
    ELSE {Extract(src[d], MoveOnly \/ Unique(src[d], <<"function", d>>))}
            \cup (IF kind[d] = "recover" THEN {result} ELSE {})

\* The function returns r or throws; the promise locks the state and stores the result
\* before taking the lock.
Run(d) ==
    /\ invoke[d] = "run"
    /\ kind[d] # "hold"
    /\ \E r \in MayReturn(d), res \in Arguments(d) : result' = [res EXCEPT ![d] = r]
    /\ invoke' = [invoke EXCEPT ![d] = "wait"]
    /\ settle' = [settle EXCEPT ![d] = "publish"]
    /\ UNCHANGED << kind, exec, at, src, into, hold, task, then, ready, todo, handles, op >>

\* The function returns a future q of its own (here an async): package attaches a
\* continuation h to it that will complete d, and keeps h alive: in this frame until the call
\* to recover has returned, then in _hold.
RunReducing(d, q, h) ==
    /\ Reduces
    /\ invoke[d] = "run"
    /\ kind[d] # "hold"
    /\ FunctionCalled(d)
    /\ result' \in Arguments(d)
    /\ kind' = [kind EXCEPT ![q] = "async", ![h] = "hold"]
    /\ exec' = [exec EXCEPT ![h] = "immediate"]
    /\ task' = [task EXCEPT ![q] = "queued", ![h] = "local"]
    /\ at' = [at EXCEPT ![h] = q]
    /\ src' = [src EXCEPT ![h] = q]
    /\ into' = [into EXCEPT ![h] = d]
    /\ hold' = [hold EXCEPT ![d] = h]
    /\ invoke' = [invoke EXCEPT ![d] = "attach"]
    /\ UNCHANGED << then, ready, settle, todo, handles, op >>

\* recover's locked section, in the frame of d.
AttachHold(d) ==
    LET h == hold[d]
        q == at[h]
    IN  /\ invoke[d] = "attach"
        /\ IF AlreadyReady(q)
           THEN /\ task' = [task EXCEPT ![h] = "called"]
                /\ invoke' = [invoke EXCEPT ![d] = "call"]
                /\ UNCHANGED then
           ELSE /\ then' = [then EXCEPT ![q] = IF MoveOnly THEN <<h>> ELSE Append(@, h)]
                /\ task' = [task EXCEPT ![h] = "attached"]
                /\ invoke' = [invoke EXCEPT ![d] = "keep"]
        /\ UNCHANGED << kind, exec, at, src, into, hold, ready, result, settle, todo, handles, op >>

\* A reduction, whose continuation may have run by now, sets _hold.  _f.reset(): the function
\* and the future it owned are released, and the frame returns.
Finish(d) ==
    /\ \/ invoke[d] = "wait" /\ settle[d] = "done"
       \/ invoke[d] = "call" /\ Returned(hold[d])
       \/ invoke[d] = "keep"
    /\ invoke' = [invoke EXCEPT ![d] = "done"]
    /\ src' = [src EXCEPT ![d] = NoFuture]
    /\ UNCHANGED << kind, exec, at, into, hold, task, then, ready, result,
                    settle, todo, handles, op >>

\* The continuation of a reduction: it completes d, if d is still wanted, with the result
\* of its own source, and then itself.
RunHold(h) ==
    LET d == into[h]
    IN  /\ invoke[h] = "run"
        /\ kind[h] = "hold"
        /\ IF Wanted(d)
           THEN /\ \E res \in Arguments(h) : result' = [res EXCEPT ![d] = result[src[h]]]
                /\ settle' = [settle EXCEPT ![d] = "publish"]
                /\ invoke' = [invoke EXCEPT ![h] = "relay"]
           ELSE /\ result' = [result EXCEPT ![h] = "value"]
                /\ settle' = [settle EXCEPT ![h] = "publish"]
                /\ invoke' = [invoke EXCEPT ![h] = "wait"]
        /\ UNCHANGED << kind, exec, at, src, into, hold, task, then, ready, todo, handles, op >>

Relay(h) ==
    /\ invoke[h] = "relay"
    /\ settle[into[h]] = "done"
    /\ result' = [result EXCEPT ![h] = "value"]
    /\ settle' = [settle EXCEPT ![h] = "publish"]
    /\ invoke' = [invoke EXCEPT ![h] = "wait"]
    /\ UNCHANGED << kind, exec, at, src, into, hold, task, then, ready, todo, handles, op >>

-----------------------------------------------------------------------------
(* Frames: value_::proceed and _set_exception *)

\* _then, once its continuations have been moved out.
MovedFrom_Copied(q) == q
MovedFrom(q) == <<>>

\* Under the lock: _ready is set and the continuations are moved out.
Publish(d) ==
    /\ settle[d] = "publish"
    /\ settle' = [settle EXCEPT ![d] = "dispatch"]
    /\ ready' = [ready EXCEPT ![d] = TRUE]
    /\ todo' = [todo EXCEPT ![d] = then[d]]
    /\ then' = [then EXCEPT ![d] = MovedFrom(@)]
    /\ UNCHANGED << kind, exec, at, src, into, hold, task, result, invoke, handles, op >>

\* The continuations left once the first has been submitted.
Rest_Dropped(q) == <<>>
Rest(q) == Tail(q)

\* Outside it, in order: each continuation is given to its executor.
Dispatch(d) ==
    LET e == Head(todo[d])
    IN  /\ settle[d] = "dispatch"
        /\ todo[d] # <<>>
        /\ task' = [task EXCEPT ![e] = Submitted(e)]
        /\ IF exec[e] = "immediate"
           THEN settle' = [settle EXCEPT ![d] = "call"] /\ UNCHANGED todo
           ELSE todo' = [todo EXCEPT ![d] = Rest(@)] /\ UNCHANGED settle
        /\ UNCHANGED << kind, exec, at, src, into, hold, then, ready, result,
                        invoke, handles, op >>

DispatchReturn(d) ==
    /\ settle[d] = "call"
    /\ Returned(Head(todo[d]))
    /\ todo' = [todo EXCEPT ![d] = Rest(@)]
    /\ settle' = [settle EXCEPT ![d] = "dispatch"]
    /\ UNCHANGED << kind, exec, at, src, into, hold, task, then, ready, result,
                    invoke, handles, op >>

Settled(d) ==
    /\ settle[d] = "dispatch"
    /\ todo[d] = <<>>
    /\ settle' = [settle EXCEPT ![d] = "done"]
    /\ UNCHANGED << kind, exec, at, src, into, hold, task, then, ready, result,
                    invoke, todo, handles, op >>

-----------------------------------------------------------------------------

Call(c) ==
    \/ \E d \in Fresh, e \in Executors : Async(c, d, e)
    \/ \E d \in Fresh, r \in Outcomes \cup {"broken"} : MakeReady(c, d, r)
    \/ \E s \in handles[c], d \in Fresh, k \in {"then", "recover", "watch", "detach"},
          e \in Executors \cup {"immediate"}, consume \in BOOLEAN :
          Package(c, s, d, k, e, consume)
    \/ \E s \in handles[c], d \in Fresh : Detach(c, s, d)
    \/ \E s \in handles[c] : Release(c, s)
    \/ \E s \in handles[c], other \in Clients : Share(c, other, s)
    \/ \E s \in handles[c] : Take(c, s)

\* The rest of a call a client has entered.
Continue(c) == Attach(c) \/ Submit(c) \/ Return(c) \/ TakeLocked(c)

Frame(d) ==
    \/ Run(d)
    \/ \E q \in Fresh : \E h \in Fresh \ {q} : RunReducing(d, q, h)
    \/ AttachHold(d) \/ Finish(d) \/ RunHold(d) \/ Relay(d)
    \/ Publish(d) \/ Dispatch(d) \/ DispatchReturn(d) \/ Settled(d)

Next ==
    \/ \E c \in Clients : Call(c) \/ Continue(c)
    \/ \E d \in Futures : Begin(d) \/ Drop(d) \/ Frame(d)

Spec == Init /\ [][Next]_vars

(***************************************************************************)
(* Fairness.  A thread inside the library goes on (nothing in it waits for *)
(* anything but a mutex no one keeps), and an executor runs, or destroys,  *)
(* each task it was given.  Nothing makes a client call.                   *)
(***************************************************************************)
Fairness ==
    /\ \A c \in Clients : WF_vars(Continue(c))
    /\ \A d \in Futures : WF_vars(Frame(d)) /\ WF_vars(Begin(d) \/ Drop(d))

FairSpec == Spec /\ Fairness

-----------------------------------------------------------------------------
(* Properties *)

TypeOK ==
    /\ kind \in [Futures -> Kinds]
    /\ exec \in [Futures -> {"pool", "immediate"}]
    /\ at \in [Futures -> Futures \cup {NoFuture}]
    /\ src \in [Futures -> Futures \cup {NoFuture}]
    /\ into \in [Futures -> Futures \cup {NoFuture}]
    /\ hold \in [Futures -> Futures \cup {NoFuture}]
    /\ task \in [Futures -> {"none", "local", "attached", "queued", "called", "spent"}]
    /\ then \in [Futures -> Seq(Futures)]
    /\ ready \in [Futures -> BOOLEAN]
    /\ result \in [Futures -> {"none", "value", "error", "broken", "moved"}]
    /\ invoke \in [Futures -> {"idle", "run", "wait", "attach", "call", "keep", "relay", "done"}]
    /\ settle \in [Futures -> {"idle", "publish", "dispatch", "call", "done"}]
    /\ todo \in [Futures -> Seq(Futures)]
    /\ handles \in [Clients -> SUBSET Futures]
    /\ op \in [Clients -> [pc : OpPc, s : Futures \cup {NoFuture},
                           d : Futures \cup {NoFuture}, unique : BOOLEAN]]

Intact(s) == result[s] \in {"value", "error", "broken"}

(* A function that is about to read the future it owns finds that future  *)
(* settled, with its value not moved out by another reader: the test of    *)
(* _ready and the append are one locked section, and so are the store to   *)
(* _ready and the move of _then.                                           *)
ArgumentPresent ==
    \A d \in Futures : invoke[d] = "run" /\ src[d] # NoFuture => ready[src[d]] /\ Intact(src[d])

(* Whoever holds a handle to a ready future can read its result: rvalue    *)
(* gets move it out only when no other handle, function or frame is left.  *)
(* The owner of a move-only future can read it until it has taken it.      *)
HandlesReadable ==
    \A c \in Clients :
        /\ \A s \in handles[c] : ready[s] => Intact(s) \/ Spent(s)
        /\ op[c].pc = "take" /\ ready[op[c].s] => Intact(op[c].s)

(* A living future that is not ready has someone who will complete it: its *)
(* task is on its way to run, attached to a living future that still owes  *)
(* its continuations, or a reduction's continuation stands in for it.      *)
Producer(d) ==
    \/ task[d] \in {"local", "queued", "called"}
    \/ invoke[d] \notin {"idle", "done"} \/ settle[d] \notin {"idle", "done"}
    \/ /\ task[d] = "attached"
       /\ at[d] \in Live
       /\ d \in Range(todo[at[d]]) \/ (~ready[at[d]] /\ d \in Range(then[at[d]]))
    \/ /\ hold[d] \in Live /\ into[hold[d]] = d /\ ~ready[hold[d]]

NoOrphan == \A d \in Live : IsFuture(d) /\ ~ready[d] => Producer(d)

(* A future a client is attaching to, and whose lock it is about to take,  *)
(* is alive, though an rvalue call has moved its handle into the function. *)
AttachedAlive ==
    \A c \in Clients : op[c].pc \in {"attach", "take"} => op[c].s \in Live

(* A completed future keeps no continuation: every one was moved out for   *)
(* dispatch under the lock that made it ready.                             *)
NoneLeftBehind == \A s \in Futures : ready[s] => then[s] = <<>>

(* A continuation goes to its executor once, whether the thread that       *)
(* attaches it or the one that completes its source hands it over, and not *)
(* before that source is ready, though its result is stored earlier.       *)
SubmittedOnce ==
    [][\A d \in Futures : task'[d] \in {"queued", "called"} /\ task'[d] # task[d] =>
          /\ task[d] \in {"none", "local", "attached"}
          /\ at'[d] # NoFuture => ready[at'[d]]]_vars

(* The asserts "recover: _then slot already occupied" and "on_completion:  *)
(* _then slot already occupied" of the move-only state.                    *)
SlotFree ==
    MoveOnly => \A c \in Clients : op[c].pc = "attach" /\ ~ready[op[c].s] => then[op[c].s] = <<>>

(* A destroyed state is never referred to again, whatever weak pointers to *)
(* it remain in executors and continuation lists.                          *)
NoResurrection ==
    [][Live' \subseteq Live \cup Fresh]_vars

(* A result is final: a ready future stays ready, and its result changes   *)
(* only by the value being moved out.                                      *)
ResultFinal ==
    [][\A d \in Futures : ready[d] => ready'[d] /\ result'[d] \in {result[d], "moved"}]_vars

-----------------------------------------------------------------------------
(* Refinement.  The continuation inside a reduction is not a future of the *)
(* user's; the future it completes waits for the one it is attached to.    *)

Visible(d) == IsFuture(d) /\ kind[d] # "hold"

Outcome ==
    LET L == Live
    IN  [d \in Futures |-> CASE ~Visible(d) -> "absent"
                             [] Visible(d) /\ ready[d] /\ result[d] = "moved" -> "value"
                             [] Visible(d) /\ ready[d] /\ result[d] # "moved" -> result[d]
                             [] Visible(d) /\ ~ready[d] /\ d \in L -> "pending"
                             [] Visible(d) /\ ~ready[d] /\ d \notin L -> "canceled"]

Contract == INSTANCE FutureContract WITH
    outcome <- Outcome,
    source <- [d \in Futures |-> IF hold[d] # NoFuture THEN at[hold[d]]
                                 ELSE IF Visible(d) THEN at[d] ELSE NoFuture],
    rule <- [d \in Futures |-> IF hold[d] # NoFuture THEN "same"
                               ELSE IF kind[d] = "then" THEN "pass" ELSE "free"]

(* Futures keep their contract: package, recover, the completion of a state *)
(* and the release of its owners, in whatever order threads take them, add  *)
(* up to futures that settle once, after their sources, or are canceled.    *)
RefinesContract == Contract!Spec

-----------------------------------------------------------------------------
(* Liveness, under FairSpec *)

(* Every future someone keeps alive becomes ready: nothing is lost between *)
(* a completion and the continuations attached while it happened.          *)
EverySettles ==
    \A d \in Futures : IsFuture(d) ~> ready[d] \/ d \notin Live

(* Every callback attached by on_completion or detach runs, or is destroyed *)
(* by its executor, once its future is ready.                              *)
CallbacksRun ==
    \A d \in Futures : IsCallback(d) /\ ready[at[d]] ~> task[d] = "spent"
=============================================================================
