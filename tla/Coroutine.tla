----------------------------- MODULE Coroutine -----------------------------
(* Coroutines of concurrency/future.hpp: functions that return a stlab::future  *)
(* and co_await futures, executors, any awaitable (through a proxy coroutine)   *)
(* and foreign awaitables, and coroutines of another promise type (plain) that  *)
(* co_await futures.  The model is about who owns a coroutine's frame: the      *)
(* shared state through _co_handle, the run that has it on its stack, the       *)
(* foreign awaitable, or nobody.                                                *)
(*                                                                              *)
(* A thread runs one coroutine from a resumption to its next suspension and     *)
(* returns to its resumer.  A closure that an immediate executor calls in place *)
(* is run as if by a thread of its own: what the caller still does after the    *)
(* call, dropping its reference, can only come earlier than in the code.        *)
EXTENDS Naturals, FiniteSets

CONSTANTS Coroutines, Threads, None,
          Inputs,      \* Inputs[c]: the coroutines whose futures c may await
          MaxAwaits    \* MaxAwaits[c]: bound on the awaits of c

ASSUME CoroutineAssumption ==
  /\ None \notin Coroutines
  /\ Inputs \in [Coroutines -> SUBSET Coroutines]
  /\ MaxAwaits \in [Coroutines -> Nat]

VARIABLES
  plain,     \* the coroutines whose promise type is not that of a stlab::future
  frame,     \* the frame of each coroutine
  at,        \* what it awaits: the kind of its awaiter
  input,     \* _input of its awaiter: the future it awaits
  then,      \* the coroutines whose resumption is attached to a shared state
  posted,    \* the coroutines whose resumption has been given to an executor
  proxied,   \* the coroutines for which a proxy coroutine awaits
  handle,    \* the shared states whose _co_handle is set
  ready,     \* the shared states that are settled
  gone,      \* the shared states that have been destroyed
  held,      \* the futures users hold
  thread,    \* what each thread does
  awaits,    \* how often each coroutine has awaited
  lost,      \* the resumptions an executor has destroyed
  crashed    \* an assertion has failed, or a null or dangling pointer been used

vars == <<plain, frame, at, input, then, posted, proxied, handle, ready, gone, held,
          thread, awaits, lost, crashed>>

Idle == [co |-> None, pc |-> "idle", holds |-> {}]
Guarded == Coroutines \ plain

TypeOK ==
  /\ plain \subseteq Coroutines
  /\ frame \in [Coroutines -> {"none", "running", "suspended", "destroyed"}]
  /\ at \in [Coroutines -> {"none", "future", "executor", "any", "foreign"}]
  /\ input \in [Coroutines -> Coroutines \cup {None}]
  /\ then \in [Coroutines -> SUBSET Coroutines]
  /\ posted \subseteq Coroutines /\ proxied \subseteq Coroutines
  /\ handle \subseteq Guarded /\ ready \subseteq Guarded /\ gone \subseteq Guarded
  /\ held \subseteq Guarded /\ lost \subseteq Coroutines
  /\ thread \in [Threads -> [co : Coroutines \cup {None},
       pc : {"idle", "resume", "body", "assert", "store", "stored", "register",
             "settle", "final", "write", "post", "return"},
       holds : SUBSET {"future", "state", "temporary"}]]
  /\ awaits \in [Coroutines -> Nat] /\ \A c \in Coroutines : awaits[c] <= MaxAwaits[c]
  /\ crashed \in BOOLEAN

Init ==
  /\ plain = {}
  /\ frame = [c \in Coroutines |-> "none"]
  /\ at = [c \in Coroutines |-> "none"]
  /\ input = [c \in Coroutines |-> None]
  /\ then = [c \in Coroutines |-> {}]
  /\ posted = {} /\ proxied = {} /\ handle = {} /\ ready = {} /\ gone = {}
  /\ held = {} /\ lost = {} /\ crashed = FALSE
  /\ thread = [t \in Threads |-> Idle]
  /\ awaits = [c \in Coroutines |-> 0]

----------------------------------------------------------------------------
\* The owners of a shared state: the users' futures, the awaiters that hold a
\* future to it, and the references on the stacks.
Alive(c) ==
  \/ c \in held
  \/ \E d \in Coroutines : input[d] = c
  \/ \E t \in Threads : thread[t].co = c /\ thread[t].holds # {}

\* weak.lock() in a resumption; a plain coroutine is resumed by its handle.
Locks(c) == c \in plain \/ Alive(c)
Kept_OnlyChecked(c) == {}
Kept(c) == IF c \in plain THEN {} ELSE {"state"}

In(t, pc) == thread[t].pc = pc
Goto(t, pc) == thread' = [thread EXCEPT ![t].pc = pc]

\* The frame is destroyed and with it its awaiter, which releases its future.
DestroyFrame(c) ==
  /\ frame' = [frame EXCEPT ![c] = "destroyed"]
  /\ at' = [at EXCEPT ![c] = "none"]
  /\ input' = [input EXCEPT ![c] = None]

----------------------------------------------------------------------------
\* A user calls the coroutine: the call makes the future it will return, if it
\* returns one, and runs the body to its first suspension.
Start(t, c) ==
  /\ plain' \in {plain, plain \cup {c}}
  /\ In(t, "idle") /\ frame[c] = "none"
  /\ frame' = [frame EXCEPT ![c] = "running"]
  /\ thread' = [thread EXCEPT ![t] =
       [co |-> c, pc |-> "body", holds |-> IF c \in plain' THEN {} ELSE {"future"}]]
  /\ UNCHANGED <<at, input, then, posted, proxied, handle, ready, gone, held, awaits, lost, crashed>>

Release(c) ==
  /\ c \in held /\ held' = held \ {c}
  /\ UNCHANGED <<plain, frame, at, input, then, posted, proxied, handle, ready, gone, thread, awaits, lost, crashed>>

\* The last owner is gone: ~shared_task destroys a frame that _co_handle names;
\* the continuations attached to the state go with it.
Destroy(c) ==
  /\ frame[c] # "none" /\ c \in Guarded \ gone /\ ~Alive(c)
  /\ gone' = gone \cup {c}
  /\ then' = [then EXCEPT ![c] = {}]
  /\ IF c \in handle THEN DestroyFrame(c) ELSE UNCHANGED <<frame, at, input>>
  /\ UNCHANGED <<plain, posted, proxied, handle, ready, held, thread, awaits, lost, crashed>>

----------------------------------------------------------------------------
\* co_await in the body of the coroutine that t runs.
Awaits(t, c) ==
  /\ In(t, "body") /\ thread[t].co = c /\ awaits[c] < MaxAwaits[c]
  /\ awaits' = [awaits EXCEPT ![c] = @ + 1]

Suspend(t, c, kind) ==
  /\ frame' = [frame EXCEPT ![c] = "suspended"]
  /\ at' = [at EXCEPT ![c] = kind]
  /\ Goto(t, IF c \in plain THEN "register" ELSE "assert")
  /\ UNCHANGED <<plain, then, posted, proxied, handle, ready, gone, lost, crashed>>

\* A future, moved or copied into the awaiter: plain co_await of a ready one does
\* not suspend, resume_on always does.
AwaitFuture(t, c, d) ==
  /\ Awaits(t, c) /\ d \in Inputs[c] \cap held
  /\ held' \in {held, held \ {d}}
  /\ \/ /\ c \in Guarded /\ d \in ready
        /\ UNCHANGED <<plain, frame, at, input, then, posted, proxied, handle, ready, gone, thread, lost, crashed>>
     \/ Suspend(t, c, "future") /\ input' = [input EXCEPT ![c] = d]

AwaitExecutor(t, c) ==
  Awaits(t, c) /\ Suspend(t, c, "executor") /\ UNCHANGED <<input, held>>

AwaitAny(t, c) ==
  Awaits(t, c) /\ Suspend(t, c, "any") /\ UNCHANGED <<input, held>>

\* A foreign awaitable is given the handle; the shared state gives it up.
AwaitForeign_KeepsHandle(t, c) ==
  /\ Awaits(t, c) /\ c \in Guarded
  /\ frame' = [frame EXCEPT ![c] = "suspended"]
  /\ at' = [at EXCEPT ![c] = "foreign"]
  /\ Goto(t, "return")
  /\ UNCHANGED <<plain, input, then, posted, proxied, handle, ready, gone, held, lost, crashed>>

AwaitForeign(t, c) ==
  /\ Awaits(t, c) /\ c \in Guarded
  /\ handle' = IF Alive(c) THEN handle \ {c} ELSE handle
  /\ frame' = [frame EXCEPT ![c] = "suspended"]
  /\ at' = [at EXCEPT ![c] = "foreign"]
  /\ Goto(t, "return")
  /\ UNCHANGED <<plain, input, then, posted, proxied, ready, gone, held, lost, crashed>>

\* co_await cancelable(): goes on while there is a future, else ends the frame.
Checkpoint(t, c) ==
  /\ Awaits(t, c) /\ c \in Guarded
  /\ IF Alive(c)
       THEN UNCHANGED <<frame, at, input, thread>>
       ELSE DestroyFrame(c) /\ Goto(t, "return")
  /\ UNCHANGED <<plain, then, posted, proxied, handle, ready, gone, held, lost, crashed>>

----------------------------------------------------------------------------
\* await_suspend of a controlled awaiter, on the suspended coroutine.
Crash ==
  /\ crashed' = TRUE
  /\ UNCHANGED <<plain, frame, at, input, then, posted, proxied, handle, ready, gone, held, thread, awaits, lost>>

\* assert(_weak.lock())
AssertAlive(t) ==
  /\ In(t, "assert")
  /\ IF Alive(thread[t].co)
       THEN /\ Goto(t, "store")
            /\ UNCHANGED <<plain, frame, at, input, then, posted, proxied, handle, ready, gone, held, awaits, lost, crashed>>
       ELSE Crash

\* _weak.lock()->_co_handle = ch.address(): the temporary owns the state.
StoreHandle_Forgotten(t) ==
  /\ In(t, "store") /\ Goto(t, "register")
  /\ UNCHANGED <<plain, frame, at, input, then, posted, proxied, handle, ready, gone, held, awaits, lost, crashed>>

StoreHandle(t) ==
  /\ In(t, "store")
  /\ IF Alive(thread[t].co)
       THEN /\ handle' = handle \cup {thread[t].co}
            /\ thread' = [thread EXCEPT ![t].pc = "stored", ![t].holds = @ \cup {"temporary"}]
            /\ UNCHANGED <<plain, frame, at, input, then, posted, proxied, ready, gone, held, awaits, lost, crashed>>
       ELSE Crash

DropTemporary(t) ==
  /\ In(t, "stored")
  /\ thread' = [thread EXCEPT ![t].pc = "register", ![t].holds = @ \ {"temporary"}]
  /\ UNCHANGED <<plain, frame, at, input, then, posted, proxied, handle, ready, gone, held, awaits, lost, crashed>>

\* The rest of await_suspend reads the awaiter, which is in the frame.
UsesDestroyed(t) == In(t, "register") /\ frame[thread[t].co] = "destroyed" /\ Crash

Registers(t, c, kind) ==
  /\ In(t, "register") /\ thread[t].co = c /\ at[c] = kind
  /\ Goto(t, "return")
  /\ UNCHANGED <<plain, frame, at, input, handle, ready, gone, held, awaits, lost, crashed>>

\* _input.on_completion attaches the resumption, or submits it at once.
RegisterFuture_Unchecked(t, c) ==
  /\ Registers(t, c, "future")
  /\ then' = [then EXCEPT ![input[c]] = @ \cup {c}] /\ UNCHANGED <<posted, proxied>>

RegisterFuture(t, c) ==
  /\ Registers(t, c, "future")
  /\ IF input[c] \in ready
       THEN posted' = posted \cup {c} /\ UNCHANGED <<then, proxied>>
       ELSE then' = [then EXCEPT ![input[c]] = @ \cup {c}] /\ UNCHANGED <<posted, proxied>>

RegisterExecutor(t, c) ==
  /\ Registers(t, c, "executor")
  /\ posted' = posted \cup {c} /\ UNCHANGED <<then, proxied>>

\* The awaitable is ready, and the resumption is submitted; or a proxy awaits it.
RegisterAny_GoesOn(t, c) ==
  /\ Registers(t, c, "any")
  /\ proxied' = proxied \cup {c}
  /\ posted' \in {posted, posted \cup {c}} /\ UNCHANGED then

RegisterAny(t, c) ==
  /\ Registers(t, c, "any")
  /\ \/ posted' = posted \cup {c} /\ UNCHANGED <<then, proxied>>
     \/ proxied' = proxied \cup {c} /\ UNCHANGED <<then, posted>>

----------------------------------------------------------------------------
\* The executor calls the resumption, or destroys it.
RunResumption(t, c) ==
  /\ c \in posted /\ In(t, "idle")
  /\ posted' = posted \ {c}
  /\ thread' = IF Locks(c)
       THEN [thread EXCEPT ![t] = [co |-> c, pc |-> "resume", holds |-> Kept(c)]]
       ELSE thread
  /\ UNCHANGED <<plain, frame, at, input, then, proxied, handle, ready, gone, held, awaits, lost, crashed>>

DropResumption(c) ==
  /\ c \in posted
  /\ posted' = posted \ {c} /\ lost' = lost \cup {c}
  /\ UNCHANGED <<plain, frame, at, input, then, proxied, handle, ready, gone, held, thread, awaits, crashed>>

ForeignResumes(t, c) ==
  /\ at[c] = "foreign" /\ In(t, "idle")
  /\ at' = [at EXCEPT ![c] = "none"]
  /\ thread' = [thread EXCEPT ![t] = [co |-> c, pc |-> "resume", holds |-> {}]]
  /\ UNCHANGED <<plain, frame, input, then, posted, proxied, handle, ready, gone, held, awaits, lost, crashed>>

\* resume(): await_resume takes the result, and the awaiter ends.
Resume(t) ==
  LET c == thread[t].co IN
  /\ In(t, "resume")
  /\ frame' = [frame EXCEPT ![c] = "running"]
  /\ at' = [at EXCEPT ![c] = "none"]
  /\ input' = [input EXCEPT ![c] = None]
  /\ Goto(t, "body")
  /\ UNCHANGED <<plain, then, posted, proxied, handle, ready, gone, held, awaits, lost, crashed>>

\* The awaitable of a proxy completes: it writes to the awaiter while it owns the
\* state of the coroutine, and then submits the resumption.
ProxyResumes(t, c) ==
  /\ c \in proxied /\ In(t, "idle")
  /\ proxied' = proxied \ {c}
  /\ thread' = IF Locks(c)
       THEN [thread EXCEPT ![t] = [co |-> c, pc |-> "write", holds |-> Kept(c)]]
       ELSE thread
  /\ UNCHANGED <<plain, frame, at, input, then, posted, handle, ready, gone, held, awaits, lost, crashed>>

ProxyWrites(t) ==
  /\ In(t, "write")
  /\ thread' = [thread EXCEPT ![t].pc = "post", ![t].holds = {}]
  /\ UNCHANGED <<plain, frame, at, input, then, posted, proxied, handle, ready, gone, held, awaits, lost, crashed>>

ProxySubmits(t) ==
  /\ In(t, "post")
  /\ posted' = posted \cup {thread[t].co}
  /\ thread' = [thread EXCEPT ![t] = Idle]
  /\ UNCHANGED <<plain, frame, at, input, then, proxied, handle, ready, gone, held, awaits, lost, crashed>>

----------------------------------------------------------------------------
\* The body ends: the packaged task owns the state while it settles it, and clears
\* _co_handle; it does nothing when the state has no owner left.
CoReturn(t, c) ==
  /\ In(t, "body") /\ thread[t].co = c
  /\ IF c \in Guarded /\ Alive(c)
       THEN /\ handle' = handle \ {c}
            /\ thread' = [thread EXCEPT ![t].pc = "settle", ![t].holds = @ \cup {"temporary"}]
       ELSE Goto(t, "final") /\ UNCHANGED handle
  /\ UNCHANGED <<plain, frame, at, input, then, posted, proxied, ready, gone, held, awaits, lost, crashed>>

Settle(t, c) ==
  /\ In(t, "settle") /\ thread[t].co = c
  /\ ready' = ready \cup {c}
  /\ posted' = posted \cup then[c]
  /\ then' = [then EXCEPT ![c] = {}]
  /\ thread' = [thread EXCEPT ![t].pc = "final", ![t].holds = @ \ {"temporary"}]
  /\ UNCHANGED <<plain, frame, at, input, proxied, handle, gone, held, awaits, lost, crashed>>

\* final_awaiter::await_suspend destroys the frame.
FinalSuspend(t) ==
  /\ In(t, "final")
  /\ DestroyFrame(thread[t].co)
  /\ Goto(t, "return")
  /\ UNCHANGED <<plain, then, posted, proxied, handle, ready, gone, held, awaits, lost, crashed>>

\* The resumer, or the first call, gets control back and drops its references;
\* the first call returns its future.
ReturnToCaller(t) ==
  /\ In(t, "return")
  /\ held' = IF "future" \in thread[t].holds THEN held \cup {thread[t].co} ELSE held
  /\ thread' = [thread EXCEPT ![t] = Idle]
  /\ UNCHANGED <<plain, frame, at, input, then, posted, proxied, handle, ready, gone, awaits, lost, crashed>>

----------------------------------------------------------------------------
Suspends(t, c) ==
  \/ AssertAlive(t) \/ StoreHandle(t) \/ DropTemporary(t)
  \/ UsesDestroyed(t) \/ RegisterFuture(t, c) \/ RegisterExecutor(t, c) \/ RegisterAny(t, c)

Step(t, c) ==
  /\ ~crashed /\ thread[t].co = c
  /\ \/ Suspends(t, c) \/ Resume(t) \/ ProxyWrites(t) \/ ProxySubmits(t)
     \/ Settle(t, c) \/ FinalSuspend(t) \/ ReturnToCaller(t)

Body(t, c) ==
  /\ ~crashed
  /\ \/ AwaitExecutor(t, c) \/ AwaitAny(t, c) \/ AwaitForeign(t, c)
     \/ Checkpoint(t, c) \/ CoReturn(t, c)
     \/ \E d \in Coroutines : AwaitFuture(t, c, d)

Resumptions(t, c) ==
  ~crashed /\ (RunResumption(t, c) \/ ForeignResumes(t, c) \/ ProxyResumes(t, c))

Reclaim(c) == ~crashed /\ Destroy(c)

Next ==
  \/ \E t \in Threads, c \in Coroutines :
       (~crashed /\ Start(t, c)) \/ Body(t, c) \/ Step(t, c) \/ Resumptions(t, c)
  \/ \E c \in Coroutines : ~crashed /\ (Release(c) \/ DropResumption(c) \/ Destroy(c))

Spec == Init /\ [][Next]_vars

\* Threads go on, bodies end, executors call what they are given, foreign
\* awaitables and those of proxies complete, and destructors run.
Fairness ==
  /\ \A c \in Coroutines :
       /\ WF_vars(\E t \in Threads : Resumptions(t, c))
       /\ WF_vars(Reclaim(c))
       /\ \A t \in Threads : WF_vars(Step(t, c)) /\ WF_vars(Body(t, c))

FairSpec == Spec /\ Fairness

----------------------------------------------------------------------------
\* Whoever resumes a coroutine, or writes the result of its awaitable into the
\* awaiter, finds it suspended, and _co_handle names a suspended frame whenever the
\* shared state is destroyed: nobody touches a frame that runs or is destroyed, and
\* none is destroyed twice, though futures are released and resumptions race with
\* them on other threads (the weak pointers of future.hpp:1997 and 1936, and the
\* handle cleared before a foreign await and before the promise is fulfilled).
\* get_ready() in await_resume finds the future settled.
FramesSafe ==
  /\ TypeOK
  /\ \A t \in Threads :
       LET c == thread[t].co IN
       /\ thread[t].pc \in {"resume", "write"} => frame[c] = "suspended"
       /\ In(t, "resume") /\ input[c] # None => input[c] \in ready
  /\ \A c \in handle \ gone : ~Alive(c) => frame[c] = "suspended"

\* What the assertions of await_suspend say (future.hpp:1995, 2027 and 2101): a coroutine
\* that suspends still has its shared state.  One that a foreign awaitable has resumed
\* may not: nothing on the stack holds it when the last future is released.
StateNotGone == \A t \in Threads : In(t, "assert") => Alive(thread[t].co)

\* A suspended frame has exactly one way on, a resumption that is attached,
\* submitted or about to happen, or a foreign awaitable, so that it is neither
\* lost nor resumed twice; or none when its destructor, the other way on, is about
\* to run.  An executor that destroys a resumption leaves it without one.
Owners(c) ==
  Cardinality({t \in Threads : thread[t].co = c /\ thread[t].pc \in {"resume", "write", "post",
                 "assert", "store", "stored", "register"}})
  + Cardinality({d \in Coroutines : c \in then[d]})
  + Cardinality({s \in {posted, proxied} : c \in s})
  + (IF at[c] = "foreign" THEN 1 ELSE 0)

OneWayOn ==
  ~crashed => \A c \in Coroutines :
    frame[c] = "suspended" /\ c \notin lost =>
      \/ Owners(c) = 1
      \/ Owners(c) = 0 /\ c \in handle \ gone /\ ~Alive(c)

\* A step resumes no coroutine that waits and whose last future is released.
NotResumed ==
  \A c \in Coroutines \ plain :
    frame[c] = "suspended" /\ at[c] \in {"future", "executor", "any"} /\ ~Alive(c)
      => frame'[c] # "running"

\* Once its last future is released, a coroutine that is suspended and has not
\* been handed to a foreign awaitable is not resumed (future.hpp:2021).
NotResumedOnceReleased == [][NotResumed]_vars

\* A coroutine whose last future is released is destroyed: at its destructor, at
\* its next checkpoint or at its end.
Reclaimed ==
  \A c \in Coroutines :
    frame[c] # "none" /\ c \notin plain /\ ~Alive(c) ~> frame[c] = "destroyed" \/ crashed

\* A coroutine whose future is kept completes, unless an executor has destroyed a
\* resumption: then its future stays pending, without a broken promise.
Settles ==
  \A c \in Coroutines :
    frame[c] # "none" ~> c \in ready \cup plain \/ ~Alive(c) \/ lost # {} \/ crashed
=============================================================================
