------------------------------ MODULE WhenJoin ------------------------------
(***************************************************************************)
(* when_all and when_any: a when_shared object owns the input futures; the *)
(* registering thread attaches an observer to each in turn while inputs    *)
(* complete on other threads; the observers count, one of them (or the end *)
(* of registration) takes the decision and dispatches the final task.      *)
(*                                                                         *)
(* Threads are numbered: 0 is the one that calls when_all or when_any and  *)
(* i \in Inputs the observer of input i, which runs on the thread that     *)
(* completes the input, or on thread 0 when the input is already ready.    *)
(*                                                                         *)
(* A definition X_Y is X with the defect Y.  Nothing uses it: it is there  *)
(* to put in the place of X and see a property of X fail.                  *)
(***************************************************************************)
EXTENDS Naturals, FiniteSets

CONSTANT N      \* the number of inputs

ASSUME JoinAssumption == N \in Nat \ {0}

Inputs  == 1..N
Threads == 0..N

\* Where _f is when no thread is dispatching it.
InJoin == N + 1
Gone   == N + 2

VARIABLES
    any,          \* Any: TRUE for when_any, FALSE for when_all
    state,        \* each input future: "pending", "value" or "error"
    others,       \* the inputs some other future handle keeps wanted
    attached,     \* the inputs whose continuation list holds the observer
    next,         \* the input thread 0 attaches to next
    pc,           \* where each thread is
    registering,  \* _registering
    decided,      \* _decided
    remaining,    \* _remaining
    index,        \* _index
    exception,    \* the input whose exception is _exception, or 0
    held,         \* who has _f: InJoin, a thread that is dispatching it, or Gone
    released,     \* the inputs dispatch has reset
    final,        \* the final task: "none", "queued", "ran", "dropped", "canceled"
    wanted        \* the result future is still held by someone

vars == << any, state, others, attached, next, pc, registering, decided, remaining, index,
           exception, held, released, final, wanted >>

Init ==
    /\ any \in BOOLEAN
    /\ state \in [Inputs -> {"pending", "value", "error"}]
    /\ others \in SUBSET Inputs
    /\ attached = {}
    /\ next = 1
    /\ pc = [a \in Threads |-> IF a = 0 THEN "attach" ELSE "idle"]
    /\ registering = TRUE
    /\ decided = FALSE
    /\ remaining = N
    /\ index = 0
    /\ exception = 0
    /\ held = InJoin
    /\ released = {}
    /\ final = "none"
    /\ wanted = TRUE

-----------------------------------------------------------------------------
(* Lifetime *)

\* The result's state exists: its packaged_task is not canceled.
Canceled == ~wanted

\* when_shared is owned by the function of the result (until that has run), by thread 0
\* until it returns, and by an observer that has locked its weak pointer.
InDone(i)   == pc[i] \in {"done", "check", "reset", "submit"}
SharedAlive_WithoutFunction == pc[0] # "end" \/ \E i \in Inputs : InDone(i)
SharedAlive ==
    \/ wanted /\ final \notin {"ran", "dropped"}
    \/ pc[0] # "end"
    \/ \E i \in Inputs : InDone(i)

\* An input nobody holds is canceled: it will not complete any more.
InputAlive(i) == i \in others \/ (SharedAlive /\ i \notin released)

-----------------------------------------------------------------------------
(* The inputs *)

\* An input becomes ready and its observer, if attached, is called.
Complete(i) ==
    /\ state[i] = "pending"
    /\ InputAlive(i)
    /\ \E r \in {"value", "error"} : state' = [state EXCEPT ![i] = r]
    /\ pc' = IF i \in attached THEN [pc EXCEPT ![i] = "call"] ELSE pc
    /\ UNCHANGED << any, others, attached, next, registering, decided, remaining, index,
                    exception, held, released, final, wanted >>

\* Another holder of an input lets it go.
ReleaseOther(i) ==
    /\ i \in others
    /\ others' = others \ {i}
    /\ UNCHANGED << any, state, attached, next, pc, registering, decided, remaining, index,
                    exception, held, released, final, wanted >>

-----------------------------------------------------------------------------
(* attach_when_inputs, on thread 0 *)

\* The input to attach to after input k.
Following(k) == k + 1

\* on_completion: a ready input calls its observer in place.
Attach ==
    /\ pc[0] = "attach"
    /\ next \in Inputs
    /\ IF state[next] = "pending"
       THEN attached' = attached \cup {next} /\ next' = Following(next) /\ UNCHANGED pc
       ELSE pc' = [pc EXCEPT ![0] = "wait", ![next] = "call"] /\ UNCHANGED << attached, next >>
    /\ UNCHANGED << any, state, others, registering, decided, remaining, index, exception,
                    held, released, final, wanted >>

Resume ==
    /\ pc[0] = "wait"
    /\ pc[next] = "end"
    /\ pc' = [pc EXCEPT ![0] = "attach"]
    /\ next' = Following(next)
    /\ UNCHANGED << any, state, others, attached, registering, decided, remaining, index,
                    exception, held, released, final, wanted >>

\* Whether a decision was taken during registration, so that its end has to dispatch.
DispatchAtEnd_Forgotten == FALSE
DispatchAtEnd == decided

\* finish_registration's locked section.
FinishRegistration ==
    /\ pc[0] = "attach"
    /\ next \notin Inputs
    /\ registering' = FALSE
    /\ IF DispatchAtEnd
       THEN held' = 0 /\ pc' = [pc EXCEPT ![0] = "check"]
       ELSE UNCHANGED held /\ pc' = [pc EXCEPT ![0] = "end"]
    /\ UNCHANGED << any, state, others, attached, next, decided, remaining, index, exception,
                    released, final, wanted >>

-----------------------------------------------------------------------------
(* The observers *)

\* The observer locks its weak pointer to when_shared.
Observe(i) ==
    /\ pc[i] = "call"
    /\ pc' = [pc EXCEPT ![i] = IF SharedAlive THEN "done" ELSE "end"]
    /\ UNCHANGED << any, state, others, attached, next, registering, decided, remaining, index,
                    exception, held, released, final, wanted >>

\* Whether input i, ready, is one that counts down, and whether it decides the join.
Counts(i)  == (state[i] = "error") = any
Decides_Early(i) == ~Counts(i) \/ remaining <= 2
Decides_Late(i) == ~Counts(i) \/ remaining = 0
Decides(i) == ~Counts(i) \/ remaining = 1

\* The decision is dispatched by whoever takes it, unless registration is going on.
MayDispatch_Regardless == TRUE
MayDispatch == ~registering

\* done's test of _decided.
Ignores == decided

\* done's locked section.
Done(i) ==
    /\ pc[i] = "done"
    /\ IF Ignores
       THEN /\ pc' = [pc EXCEPT ![i] = "end"]
            /\ UNCHANGED << decided, remaining, index, exception, held >>
       ELSE /\ remaining' = IF Counts(i) THEN remaining - 1 ELSE remaining
            /\ IF Decides(i)
               THEN /\ decided' = TRUE
                    /\ index' = IF any THEN i ELSE index
                    /\ exception' = IF state[i] = "error" THEN i ELSE 0
               ELSE UNCHANGED << decided, index, exception >>
            /\ IF Decides(i) /\ MayDispatch
               THEN held' = i /\ pc' = [pc EXCEPT ![i] = "check"]
               ELSE UNCHANGED held /\ pc' = [pc EXCEPT ![i] = "end"]
    /\ UNCHANGED << any, state, others, attached, next, registering, released, final, wanted >>

-----------------------------------------------------------------------------
(* dispatch, on the thread that was handed _f *)

\* A task whose result nobody wants is destroyed here.
CheckCanceled(a) ==
    /\ pc[a] = "check"
    /\ pc' = [pc EXCEPT ![a] = IF Canceled THEN "end" ELSE "reset"]
    /\ held' = IF Canceled THEN Gone ELSE held
    /\ UNCHANGED << any, state, others, attached, next, registering, decided, remaining, index,
                    exception, released, final, wanted >>

\* The inputs the final function will not read.
Unneeded == {i \in Inputs : exception # 0 \/ (any /\ i # index)}

ResetInputs(a) ==
    /\ pc[a] = "reset"
    /\ released' = released \cup Unneeded
    /\ pc' = [pc EXCEPT ![a] = "submit"]
    /\ UNCHANGED << any, state, others, attached, next, registering, decided, remaining, index,
                    exception, held, final, wanted >>

Submit(a) ==
    /\ pc[a] = "submit"
    /\ final' = "queued"
    /\ held' = Gone
    /\ pc' = [pc EXCEPT ![a] = "end"]
    /\ UNCHANGED << any, state, others, attached, next, registering, decided, remaining, index,
                    exception, released, wanted >>

-----------------------------------------------------------------------------
(* The result *)

\* The executor runs the final task, or destroys it.
RunFinal ==
    /\ final = "queued"
    /\ final' \in IF Canceled THEN {"canceled"} ELSE {"ran", "dropped"}
    /\ UNCHANGED << any, state, others, attached, next, pc, registering, decided, remaining,
                    index, exception, held, released, wanted >>

\* The result future, returned when registration is over, is released.
ReleaseResult ==
    /\ wanted
    /\ pc[0] = "end"
    /\ wanted' = FALSE
    /\ UNCHANGED << any, state, others, attached, next, pc, registering, decided, remaining,
                    index, exception, held, released, final >>

-----------------------------------------------------------------------------

Dispatch(a) == CheckCanceled(a) \/ ResetInputs(a) \/ Submit(a)
Register    == Attach \/ Resume \/ FinishRegistration \/ Dispatch(0)
Observer(i) == Observe(i) \/ Done(i) \/ Dispatch(i)

Next ==
    \/ \E i \in Inputs : Complete(i) \/ ReleaseOther(i)
    \/ Register
    \/ \E i \in Inputs : Observer(i)
    \/ RunFinal
    \/ ReleaseResult

Spec == Init /\ [][Next]_vars

\* A thread inside the join goes on, and the executor runs or destroys the final task.
\* Nothing makes an input complete or a client let go.
FairSpec ==
    /\ Spec
    /\ WF_vars(Register)
    /\ \A i \in Inputs : WF_vars(Observer(i))
    /\ WF_vars(RunFinal)

-----------------------------------------------------------------------------
(* Properties *)

TypeOK ==
    /\ any \in BOOLEAN
    /\ state \in [Inputs -> {"pending", "value", "error"}]
    /\ others \subseteq Inputs
    /\ attached \subseteq Inputs
    /\ next \in 1..(N + 1)
    /\ pc \in [Threads -> {"attach", "wait", "idle", "call", "done", "check", "reset",
                           "submit", "end"}]
    /\ registering \in BOOLEAN
    /\ decided \in BOOLEAN
    /\ remaining \in 0..N
    /\ index \in Threads
    /\ exception \in Threads
    /\ held \in Threads \cup {InJoin, Gone}
    /\ released \subseteq Inputs
    /\ final \in {"none", "queued", "ran", "dropped", "canceled"}
    /\ wanted \in BOOLEAN

Counted == {i \in Inputs : pc[i] \in {"check", "reset", "submit", "end"} /\ Counts(i)}

(* _remaining counts exactly the inputs that have still to be counted, so  *)
(* it cannot run below zero: an observer that comes after the decision     *)
(* leaves it alone.                                                        *)
RemainingExact ==
    /\ TypeOK
    /\ ~decided /\ SharedAlive => remaining = N - Cardinality(Counted) /\ remaining > 0

(* The final task is dispatched by exactly one thread, after registration: *)
(* _f has left the join only if the decision is taken and everyone is      *)
(* attached, and only the thread that has it is in dispatch.               *)
OneDispatcher ==
    /\ held # InJoin => decided /\ ~registering
    /\ \A a \in Threads : pc[a] \in {"check", "reset", "submit"} => held = a

(* when_all's function finds a value in every input, when_any's in the     *)
(* selected one, whatever completed since; the exception it gets instead   *)
(* is the one of a failed input.                                           *)
Finds(i) == state[i] = "value" /\ i \notin released
FinalArguments ==
    final = "queued" =>
        IF exception # 0
        THEN state[exception] = "error" /\ (any => \A i \in Inputs : state[i] = "error")
        ELSE IF any THEN index # 0 /\ Finds(index) ELSE \A i \in Inputs : Finds(i)

(* An input is reset only when nobody in the join will touch it again:     *)
(* thread 0 has attached to all of them, and an observer that reads its    *)
(* input under the lock has not been overtaken by the reset.               *)
NoUseAfterReset ==
    /\ pc[0] = "attach" /\ next \in Inputs => next \notin released
    /\ \A i \in Inputs : pc[i] = "done" /\ ~decided => i \notin released

(* The join keeps its inputs wanted as long as it may need them: an input  *)
(* of an undecided join somebody waits for has not been canceled.          *)
InputsKept == wanted /\ ~decided => \A i \in Inputs : InputAlive(i)

Enough == IF any THEN \/ \E i \in Inputs : state[i] = "value"
                      \/ \A i \in Inputs : state[i] = "error"
                 ELSE \/ \E i \in Inputs : state[i] = "error"
                      \/ \A i \in Inputs : state[i] = "value"

(* Once the inputs determine the result, the result is produced, or nobody *)
(* wants it: no completion is missed while observers are being attached.   *)
JoinCompletes == Enough ~> final \in {"ran", "dropped"} \/ ~wanted
=============================================================================
