--------------------------- MODULE Coroutine_proofs ---------------------------
(***************************************************************************)
(* Proofs about Coroutine for any number of coroutines and threads.  The   *)
(* inductive invariant follows the one right to go on with a coroutine: it *)
(* is with a thread, in a continuation list, with an executor, a proxy or  *)
(* a foreign awaitable; and it says when the frame is owned by the shared  *)
(* state too, so that the last owner destroys a suspended frame only.      *)
(***************************************************************************)
EXTENDS Coroutine, TLAPS, FiniteSetTheorems

\* The shared state owns the frame, through _co_handle.
Owned(c) == c \in handle \ gone

RunPc     == {"body", "settle", "final"}
SuspendPc == {"assert", "store", "stored", "register"}
ResumePc  == {"resume", "write", "post"}

\* Thread t has the right to go on with c.
Has(t, c) == thread[t].co = c /\ thread[t].pc \in RunPc \cup SuspendPc \cup ResumePc

\* Some thread has it while c is suspended, or it waits somewhere else.
Passed(c) == c \in posted \cup proxied \/ \E d \in Coroutines : c \in then[d]
Way(c) ==
  \/ \E t \in Threads : thread[t].co = c /\ thread[t].pc \in SuspendPc \cup ResumePc
  \/ Passed(c)
  \/ at[c] = "foreign"

\* Nothing refers to a coroutine that has not been called.
Blank ==
  \A c \in Coroutines : frame[c] = "none" =>
    /\ c \notin plain \cup posted \cup proxied \cup handle \cup ready \cup gone \cup held
    /\ \A d \in Coroutines : c \notin then[d] /\ input[d] # c
    /\ \A t \in Threads : thread[t].co # c

\* What a thread has while it is inside a coroutine.
Running ==
  \A t \in Threads : \A c \in Coroutines \cup {None} : thread[t].co = c =>
    /\ thread[t].pc = "idle" <=> c = None
    /\ thread[t].pc = "idle" => thread[t].holds = {}
    /\ thread[t].holds # {} => c \in Guarded
    /\ thread[t].pc \in {"assert", "store", "stored", "settle"} => c \in Guarded
    /\ thread[t].pc \in {"resume", "write", "assert", "store", "stored"} => frame[c] = "suspended"
    /\ thread[t].pc \in RunPc => frame[c] = "running"
    /\ thread[t].pc \in {"body", "resume", "assert", "store"} /\ Owned(c) => thread[t].holds # {}
    /\ thread[t].pc = "resume" /\ c \in Guarded /\ at[c] # "none" => thread[t].holds # {}
    /\ thread[t].pc = "write" /\ c \in Guarded => thread[t].holds # {}
    /\ thread[t].pc = "stored" => "temporary" \in thread[t].holds /\ c \in handle
    /\ thread[t].pc = "settle" => "temporary" \in thread[t].holds
    /\ thread[t].pc \in {"settle", "final"} => ~Owned(c)

\* What a frame and its awaiter are while the coroutine waits, runs and after its end.
Frames ==
  \A c \in Coroutines :
    /\ frame[c] = "running" => \E t \in Threads : thread[t].co = c /\ thread[t].pc \in RunPc
    /\ at[c] # "none" => frame[c] = "suspended"
    /\ at[c] = "future" <=> input[c] # None
    /\ at[c] = "foreign" => c \in Guarded /\ ~Owned(c)
    /\ frame[c] = "destroyed" => ~Owned(c) /\ (Way(c) => c \in gone)
    /\ c \in gone => ~Alive(c)

\* A coroutine that has registered its resumption is owned by its shared state.
Registered ==
  \A c \in Coroutines : frame[c] = "suspended" /\ c \in Guarded =>
    /\ Passed(c) => Owned(c)
    /\ \A t \in Threads : thread[t].co = c /\ thread[t].pc \in {"register", "write", "post"}
                            => Owned(c)

\* A resumption waits for the future in the awaiter, and is submitted when that is ready.
Awaited ==
  \A c \in Coroutines :
    /\ \A d \in Coroutines : c \in then[d] /\ frame[c] = "suspended" => input[c] = d
    /\ input[c] # None =>
         /\ c \in posted => input[c] \in ready
         /\ c \notin proxied
         /\ \A t \in Threads : thread[t].co = c =>
              /\ thread[t].pc = "resume" => input[c] \in ready
              /\ thread[t].pc \notin {"write", "post"}

\* The right is in one place.
Exclusive ==
  \A c \in Coroutines :
    /\ \A t, u \in Threads : Has(t, c) /\ Has(u, c) => t = u
    /\ \A d, e \in Coroutines : c \in then[d] /\ c \in then[e] => d = e
    /\ \A t \in Threads : Has(t, c) => ~Passed(c) /\ at[c] # "foreign"
    /\ Passed(c) => at[c] # "foreign"
    /\ c \in posted => c \notin proxied
    /\ \A d \in Coroutines : c \in then[d] => c \notin posted \cup proxied

\* It is somewhere, or the destructor of the shared state is about to run.
Covered ==
  ~crashed => \A c \in Coroutines : frame[c] = "suspended" /\ c \notin lost =>
    Way(c) \/ (Owned(c) /\ ~Alive(c))

IInv ==
  /\ TypeOK /\ Blank /\ Running /\ Frames /\ Registered /\ Awaited /\ Exclusive /\ Covered

-----------------------------------------------------------------------------
(***************************************************************************)
(* The actions of Coroutine with their conditionals resolved.              *)
(***************************************************************************)
CalledGuarded(t, c) ==
  /\ thread[t].pc = "idle" /\ frame[c] = "none" /\ c \notin plain /\ plain' = plain
  /\ frame' = [frame EXCEPT ![c] = "running"]
  /\ thread' = [thread EXCEPT ![t] = [co |-> c, pc |-> "body", holds |-> {"future"}]]
  /\ UNCHANGED <<at, input, then, posted, proxied, handle, ready, gone, held, awaits, lost, crashed>>

CalledPlain(t, c) ==
  /\ thread[t].pc = "idle" /\ frame[c] = "none" /\ plain' = plain \cup {c}
  /\ frame' = [frame EXCEPT ![c] = "running"]
  /\ thread' = [thread EXCEPT ![t] = [co |-> c, pc |-> "body", holds |-> {}]]
  /\ UNCHANGED <<at, input, then, posted, proxied, handle, ready, gone, held, awaits, lost, crashed>>

DestroyState(c) ==
  /\ frame[c] # "none" /\ c \in Guarded \ gone /\ ~Alive(c)
  /\ gone' = gone \cup {c} /\ then' = [then EXCEPT ![c] = {}]
  /\ c \notin handle
  /\ UNCHANGED <<plain, frame, at, input, posted, proxied, handle, ready, held, thread, awaits, lost, crashed>>

DestroyBoth(c) ==
  /\ frame[c] # "none" /\ c \in Guarded \ gone /\ ~Alive(c)
  /\ gone' = gone \cup {c} /\ then' = [then EXCEPT ![c] = {}]
  /\ c \in handle /\ DestroyFrame(c)
  /\ UNCHANGED <<plain, posted, proxied, handle, ready, held, thread, awaits, lost, crashed>>

InBody(t, c) ==
  /\ thread[t].pc = "body" /\ thread[t].co = c /\ awaits[c] < MaxAwaits[c]
  /\ awaits' = [awaits EXCEPT ![c] = @ + 1]

AwaitReady(t, c, d) ==
  /\ InBody(t, c) /\ d \in Inputs[c] \cap held
  /\ held' \in {held, held \ {d}}
  /\ c \in Guarded /\ d \in ready
  /\ UNCHANGED <<plain, frame, at, input, then, posted, proxied, handle, ready, gone, thread, lost, crashed>>

Suspended(t, c, kind, p) ==
  /\ InBody(t, c)
  /\ \/ c \in plain /\ p = "register"
     \/ c \in Guarded /\ p = "assert"
  /\ frame' = [frame EXCEPT ![c] = "suspended"] /\ at' = [at EXCEPT ![c] = kind]
  /\ thread' = [thread EXCEPT ![t].pc = p]
  /\ UNCHANGED <<plain, then, posted, proxied, handle, ready, gone, lost, crashed>>

AwaitPending(t, c, d, p) ==
  /\ Suspended(t, c, "future", p) /\ d \in Inputs[c] \cap held
  /\ held' \in {held, held \ {d}} /\ input' = [input EXCEPT ![c] = d]

AwaitOther(t, c, kind, p) ==
  /\ Suspended(t, c, kind, p) /\ kind \in {"executor", "any"}
  /\ UNCHANGED <<input, held>>

HandOver(t, c, h) ==
  /\ InBody(t, c) /\ c \in Guarded
  /\ \/ Alive(c) /\ h = handle \ {c}
     \/ ~Alive(c) /\ h = handle
  /\ handle' = h
  /\ frame' = [frame EXCEPT ![c] = "suspended"] /\ at' = [at EXCEPT ![c] = "foreign"]
  /\ thread' = [thread EXCEPT ![t].pc = "return"]
  /\ UNCHANGED <<plain, input, then, posted, proxied, ready, gone, held, lost, crashed>>

CheckpointPassed(t, c) ==
  /\ InBody(t, c) /\ c \in Guarded /\ Alive(c)
  /\ UNCHANGED <<plain, frame, at, input, then, posted, proxied, handle, ready, gone, held, thread, lost, crashed>>

CheckpointEnds(t, c) ==
  /\ InBody(t, c) /\ c \in Guarded /\ ~Alive(c)
  /\ DestroyFrame(c) /\ thread' = [thread EXCEPT ![t].pc = "return"]
  /\ UNCHANGED <<plain, then, posted, proxied, handle, ready, gone, held, lost, crashed>>

Asserted(t) ==
  /\ thread[t].pc = "assert" /\ Alive(thread[t].co)
  /\ thread' = [thread EXCEPT ![t].pc = "store"]
  /\ UNCHANGED <<plain, frame, at, input, then, posted, proxied, handle, ready, gone, held, awaits, lost, crashed>>

Stored(t) ==
  /\ thread[t].pc = "store" /\ Alive(thread[t].co)
  /\ handle' = handle \cup {thread[t].co}
  /\ thread' = [thread EXCEPT ![t].pc = "stored", ![t].holds = @ \cup {"temporary"}]
  /\ UNCHANGED <<plain, frame, at, input, then, posted, proxied, ready, gone, held, awaits, lost, crashed>>

Attached(t, c) ==
  /\ thread[t].pc = "register" /\ thread[t].co = c /\ at[c] = "future"
  /\ input[c] \notin ready
  /\ then' = [then EXCEPT ![input[c]] = @ \cup {c}]
  /\ thread' = [thread EXCEPT ![t].pc = "return"]
  /\ UNCHANGED <<plain, frame, at, input, posted, proxied, handle, ready, gone, held, awaits, lost, crashed>>

Submitted(t, c) ==
  /\ thread[t].pc = "register" /\ thread[t].co = c
  /\ \/ at[c] = "future" /\ input[c] \in ready
     \/ at[c] \in {"executor", "any"}
  /\ posted' = posted \cup {c}
  /\ thread' = [thread EXCEPT ![t].pc = "return"]
  /\ UNCHANGED <<plain, frame, at, input, then, proxied, handle, ready, gone, held, awaits, lost, crashed>>

Proxied(t, c) ==
  /\ thread[t].pc = "register" /\ thread[t].co = c /\ at[c] = "any"
  /\ proxied' = proxied \cup {c}
  /\ thread' = [thread EXCEPT ![t].pc = "return"]
  /\ UNCHANGED <<plain, frame, at, input, then, posted, handle, ready, gone, held, awaits, lost, crashed>>

Taken(t, c, h) ==
  /\ c \in posted /\ thread[t].pc = "idle" /\ posted' = posted \ {c}
  /\ \/ c \in plain /\ h = {}
     \/ c \in Guarded /\ Alive(c) /\ h = {"state"}
  /\ thread' = [thread EXCEPT ![t] = [co |-> c, pc |-> "resume", holds |-> h]]
  /\ UNCHANGED <<plain, frame, at, input, then, proxied, handle, ready, gone, held, awaits, lost, crashed>>

TakenInVain(c) ==
  /\ c \in posted /\ posted' = posted \ {c} /\ c \in Guarded /\ ~Alive(c)
  /\ UNCHANGED <<plain, frame, at, input, then, proxied, handle, ready, gone, held, thread, awaits, lost, crashed>>

Fetched(t, c, h) ==
  /\ c \in proxied /\ thread[t].pc = "idle" /\ proxied' = proxied \ {c}
  /\ \/ c \in plain /\ h = {}
     \/ c \in Guarded /\ Alive(c) /\ h = {"state"}
  /\ thread' = [thread EXCEPT ![t] = [co |-> c, pc |-> "write", holds |-> h]]
  /\ UNCHANGED <<plain, frame, at, input, then, posted, handle, ready, gone, held, awaits, lost, crashed>>

FetchedInVain(c) ==
  /\ c \in proxied /\ proxied' = proxied \ {c} /\ c \in Guarded /\ ~Alive(c)
  /\ UNCHANGED <<plain, frame, at, input, then, posted, handle, ready, gone, held, thread, awaits, lost, crashed>>

ReturnsTo(t, c) ==
  /\ thread[t].pc = "body" /\ thread[t].co = c /\ c \in Guarded /\ Alive(c)
  /\ handle' = handle \ {c}
  /\ thread' = [thread EXCEPT ![t].pc = "settle", ![t].holds = @ \cup {"temporary"}]
  /\ UNCHANGED <<plain, frame, at, input, then, posted, proxied, ready, gone, held, awaits, lost, crashed>>

ReturnsToNobody(t, c) ==
  /\ thread[t].pc = "body" /\ thread[t].co = c /\ (c \in plain \/ ~Alive(c))
  /\ thread' = [thread EXCEPT ![t].pc = "final"]
  /\ UNCHANGED <<plain, frame, at, input, then, posted, proxied, handle, ready, gone, held, awaits, lost, crashed>>

GivesFuture(t) ==
  /\ thread[t].pc = "return" /\ "future" \in thread[t].holds
  /\ held' = held \cup {thread[t].co} /\ thread' = [thread EXCEPT ![t] = Idle]
  /\ UNCHANGED <<plain, frame, at, input, then, posted, proxied, handle, ready, gone, awaits, lost, crashed>>

GivesNothing(t) ==
  /\ thread[t].pc = "return" /\ "future" \notin thread[t].holds
  /\ thread' = [thread EXCEPT ![t] = Idle]
  /\ UNCHANGED <<plain, frame, at, input, then, posted, proxied, handle, ready, gone, held, awaits, lost, crashed>>

\* A step is one of these.
Flat ==
  \/ \E t \in Threads, c \in Coroutines :
       \/ CalledGuarded(t, c) \/ CalledPlain(t, c)
       \/ \E d \in Coroutines : AwaitReady(t, c, d)
       \/ \E p \in {"register", "assert"} :
            \/ \E d \in Coroutines : AwaitPending(t, c, d, p)
            \/ \E kind \in {"executor", "any"} : AwaitOther(t, c, kind, p)
       \/ \E h \in SUBSET handle : HandOver(t, c, h)
       \/ CheckpointPassed(t, c) \/ CheckpointEnds(t, c)
       \/ Attached(t, c) \/ Submitted(t, c) \/ Proxied(t, c)
       \/ \E h \in {{}, {"state"}} : Taken(t, c, h) \/ Fetched(t, c, h)
       \/ ForeignResumes(t, c)
       \/ ReturnsTo(t, c) \/ ReturnsToNobody(t, c) \/ Settle(t, c)
  \/ \E t \in Threads :
       \/ Asserted(t) \/ Stored(t) \/ DropTemporary(t) \/ Resume(t)
       \/ ProxyWrites(t) \/ ProxySubmits(t) \/ FinalSuspend(t)
       \/ GivesFuture(t) \/ GivesNothing(t)
  \/ \E c \in Coroutines :
       \/ Release(c) \/ DestroyState(c) \/ DestroyBoth(c)
       \/ TakenInVain(c) \/ FetchedInVain(c) \/ DropResumption(c)
  \/ Crash
  \/ UNCHANGED vars

-----------------------------------------------------------------------------
ThreadPc == {"idle", "resume", "body", "assert", "store", "stored", "register",
             "settle", "final", "write", "post", "return"}
Holdable == {"future", "state", "temporary"}
Thread   == [co : Coroutines \cup {None}, pc : ThreadPc, holds : SUBSET Holdable]

\* A thread goes on: to another point, with other references.
LEMMA Goes ==
  ASSUME NEW t \in Threads, NEW p \in ThreadPc, thread \in [Threads -> Thread]
  PROVE  [thread EXCEPT ![t].pc = p] \in [Threads -> Thread]
  BY DEF Thread

LEMMA Moves ==
  ASSUME NEW t \in Threads, NEW p \in ThreadPc, NEW h \in SUBSET Holdable,
         thread \in [Threads -> Thread]
  PROVE  [thread EXCEPT ![t].pc = p, ![t].holds = h] \in [Threads -> Thread]
  <1> DEFINE f == [thread EXCEPT ![t].pc = p]
  <1>1. f \in [Threads -> Thread]
    BY Goes
  <1>2. [f EXCEPT ![t].holds = h] \in [Threads -> Thread]
    BY <1>1 DEF Thread
  <1>3. [thread EXCEPT ![t].pc = p, ![t].holds = h] = [f EXCEPT ![t].holds = h]
    OBVIOUS
  <1>4. QED
    BY <1>2, <1>3

\* A thread that is not idle is in a coroutine.
LEMMA InCoroutine ==
  ASSUME TypeOK, Running, NEW t \in Threads, thread[t].pc # "idle"
  PROVE  thread[t].co \in Coroutines
  BY DEF TypeOK, Running

LEMMA Flattened == IInv /\ [Next]_vars => Flat
  <1> SUFFICES ASSUME IInv, [Next]_vars PROVE Flat
    OBVIOUS
  <1>1. ASSUME NEW t \in Threads, NEW c \in Coroutines, Start(t, c) PROVE Flat
    <2>1. c \notin plain
      BY <1>1 DEF Start, IInv, Blank
    <2>2. CASE plain' = plain
      <3>1. CalledGuarded(t, c)
        BY <1>1, <2>1, <2>2 DEF Start, In, CalledGuarded
      <3>2. QED
        BY <3>1 DEF Flat
    <2>3. CASE plain' = plain \cup {c}
      <3>1. CalledPlain(t, c)
        BY <1>1, <2>3 DEF Start, In, CalledPlain
      <3>2. QED
        BY <3>1 DEF Flat
    <2>4. QED
      BY <1>1, <2>2, <2>3 DEF Start
  <1>2. ASSUME NEW c \in Coroutines, Destroy(c) PROVE Flat
    <2>1. CASE c \in handle
      <3>1. DestroyBoth(c)
        BY <1>2, <2>1 DEF Destroy, DestroyBoth
      <3>2. QED
        BY <3>1 DEF Flat
    <2>2. CASE c \notin handle
      <3>1. DestroyState(c)
        BY <1>2, <2>2 DEF Destroy, DestroyState
      <3>2. QED
        BY <3>1 DEF Flat
    <2>3. QED
      BY <2>1, <2>2
  <1>3. ASSUME NEW t \in Threads, NEW c \in Coroutines, NEW kind, Awaits(t, c),
               Suspend(t, c, kind)
        PROVE  \E p \in {"register", "assert"} : Suspended(t, c, kind, p)
    <2>1. CASE c \in plain
      <3>1. thread' = [thread EXCEPT ![t].pc = "register"]
        BY <1>3, <2>1 DEF Suspend, Goto
      <3>2. Suspended(t, c, kind, "register")
        BY <1>3, <2>1, <3>1 DEF Awaits, Suspend, Suspended, InBody, In
      <3>3. QED
        BY <3>2
    <2>2. CASE c \notin plain
      <3>1. Suspended(t, c, kind, "assert")
        BY <1>3, <2>2 DEF Awaits, Suspend, Suspended, InBody, In, Goto, Guarded
      <3>2. QED
        BY <3>1
    <2>3. QED
      BY <2>1, <2>2
  <1>4. ASSUME NEW t \in Threads, NEW c \in Coroutines, NEW d \in Coroutines,
               AwaitFuture(t, c, d)
        PROVE  Flat
    <2>1. CASE AwaitReady(t, c, d)
      BY <2>1 DEF Flat
    <2>2. CASE Suspend(t, c, "future") /\ input' = [input EXCEPT ![c] = d]
      <3>1. PICK p \in {"register", "assert"} : Suspended(t, c, "future", p)
        BY <1>3, <1>4, <2>2 DEF AwaitFuture
      <3>2. AwaitPending(t, c, d, p)
        BY <1>4, <2>2, <3>1 DEF AwaitFuture, AwaitPending
      <3>3. QED
        BY <3>2 DEF Flat
    <2>3. QED
      BY <1>4, <2>1, <2>2 DEF AwaitFuture, AwaitReady, Awaits, InBody, In
  <1>5. ASSUME NEW t \in Threads, NEW c \in Coroutines, NEW kind \in {"executor", "any"},
               Awaits(t, c), Suspend(t, c, kind), UNCHANGED <<input, held>>
        PROVE  Flat
    <2>1. PICK p \in {"register", "assert"} : Suspended(t, c, kind, p)
      BY <1>3, <1>5
    <2>2. AwaitOther(t, c, kind, p)
      BY <1>5, <2>1 DEF AwaitOther
    <2>3. QED
      BY <2>2 DEF Flat
  <1>6. ASSUME NEW t \in Threads, NEW c \in Coroutines, AwaitForeign(t, c) PROVE Flat
    <2>1. CASE Alive(c)
      <3>1. HandOver(t, c, handle \ {c})
        BY <1>6, <2>1 DEF AwaitForeign, Awaits, HandOver, InBody, In, Goto
      <3>2. handle \ {c} \in SUBSET handle
        OBVIOUS
      <3>3. QED
        BY <3>1, <3>2 DEF Flat
    <2>2. CASE ~Alive(c)
      <3>1. HandOver(t, c, handle)
        BY <1>6, <2>2 DEF AwaitForeign, Awaits, HandOver, InBody, In, Goto
      <3>2. QED
        BY <3>1 DEF Flat
    <2>3. QED
      BY <2>1, <2>2
  <1>7. ASSUME NEW t \in Threads, NEW c \in Coroutines, Checkpoint(t, c) PROVE Flat
    <2>1. CASE Alive(c)
      <3>1. CheckpointPassed(t, c)
        BY <1>7, <2>1 DEF Checkpoint, Awaits, CheckpointPassed, InBody, In
      <3>2. QED
        BY <3>1 DEF Flat
    <2>2. CASE ~Alive(c)
      <3>1. CheckpointEnds(t, c)
        BY <1>7, <2>2 DEF Checkpoint, Awaits, CheckpointEnds, InBody, In, Goto
      <3>2. QED
        BY <3>1 DEF Flat
    <2>3. QED
      BY <2>1, <2>2
  <1>8. ASSUME NEW t \in Threads, AssertAlive(t) PROVE Flat
    <2>1. CASE Alive(thread[t].co)
      <3>1. Asserted(t)
        BY <1>8, <2>1 DEF AssertAlive, Asserted, In, Goto
      <3>2. QED
        BY <3>1 DEF Flat
    <2>2. QED
      BY <1>8, <2>1 DEF AssertAlive, Flat
  <1>9. ASSUME NEW t \in Threads, StoreHandle(t) PROVE Flat
    <2>1. CASE Alive(thread[t].co)
      <3>1. Stored(t)
        BY <1>9, <2>1 DEF StoreHandle, Stored, In
      <3>2. QED
        BY <3>1 DEF Flat
    <2>2. QED
      BY <1>9, <2>1 DEF StoreHandle, Flat
  <1>10. ASSUME NEW t \in Threads, NEW c \in Coroutines, RegisterFuture(t, c) PROVE Flat
    <2>1. CASE input[c] \in ready
      <3>1. Submitted(t, c)
        BY <1>10, <2>1 DEF RegisterFuture, Registers, Submitted, In, Goto
      <3>2. QED
        BY <3>1 DEF Flat
    <2>2. CASE input[c] \notin ready
      <3>1. Attached(t, c)
        BY <1>10, <2>2 DEF RegisterFuture, Registers, Attached, In, Goto
      <3>2. QED
        BY <3>1 DEF Flat
    <2>3. QED
      BY <2>1, <2>2
  <1>11. ASSUME NEW t \in Threads, NEW c \in Coroutines, RegisterExecutor(t, c) PROVE Flat
    <2>1. Submitted(t, c)
      BY <1>11 DEF RegisterExecutor, Registers, Submitted, In, Goto
    <2>2. QED
      BY <2>1 DEF Flat
  <1>12. ASSUME NEW t \in Threads, NEW c \in Coroutines, RegisterAny(t, c) PROVE Flat
    <2>1. Submitted(t, c) \/ Proxied(t, c)
      BY <1>12 DEF RegisterAny, Registers, Submitted, Proxied, In, Goto
    <2>2. QED
      BY <2>1 DEF Flat
  <1>13. ASSUME NEW t \in Threads, NEW c \in Coroutines, RunResumption(t, c) PROVE Flat
    <2>1. CASE c \in plain
      <3>1. Locks(c) /\ Kept(c) = {}
        BY <2>1 DEF Locks, Kept
      <3>2. thread' = [thread EXCEPT ![t] = [co |-> c, pc |-> "resume", holds |-> {}]]
        BY <1>13, <3>1 DEF RunResumption
      <3>3. Taken(t, c, {})
        BY <1>13, <2>1, <3>2 DEF RunResumption, Taken, In
      <3>4. QED
        BY <3>3 DEF Flat
    <2>2. CASE c \notin plain /\ Alive(c)
      <3>1. Taken(t, c, {"state"})
        BY <1>13, <2>2 DEF RunResumption, Locks, Kept, Taken, In, Guarded
      <3>2. QED
        BY <3>1 DEF Flat
    <2>3. CASE c \notin plain /\ ~Alive(c)
      <3>1. TakenInVain(c)
        BY <1>13, <2>3 DEF RunResumption, Locks, TakenInVain, Guarded
      <3>2. QED
        BY <3>1 DEF Flat
    <2>4. QED
      BY <2>1, <2>2, <2>3
  <1>14. ASSUME NEW t \in Threads, NEW c \in Coroutines, ProxyResumes(t, c) PROVE Flat
    <2>1. CASE c \in plain
      <3>1. Locks(c) /\ Kept(c) = {}
        BY <2>1 DEF Locks, Kept
      <3>2. thread' = [thread EXCEPT ![t] = [co |-> c, pc |-> "write", holds |-> {}]]
        BY <1>14, <3>1 DEF ProxyResumes
      <3>3. Fetched(t, c, {})
        BY <1>14, <2>1, <3>2 DEF ProxyResumes, Fetched, In
      <3>4. QED
        BY <3>3 DEF Flat
    <2>2. CASE c \notin plain /\ Alive(c)
      <3>1. Fetched(t, c, {"state"})
        BY <1>14, <2>2 DEF ProxyResumes, Locks, Kept, Fetched, In, Guarded
      <3>2. QED
        BY <3>1 DEF Flat
    <2>3. CASE c \notin plain /\ ~Alive(c)
      <3>1. FetchedInVain(c)
        BY <1>14, <2>3 DEF ProxyResumes, Locks, FetchedInVain, Guarded
      <3>2. QED
        BY <3>1 DEF Flat
    <2>4. QED
      BY <2>1, <2>2, <2>3
  <1>15. ASSUME NEW t \in Threads, NEW c \in Coroutines, CoReturn(t, c) PROVE Flat
    <2>1. CASE c \in Guarded /\ Alive(c)
      <3>1. ReturnsTo(t, c)
        BY <1>15, <2>1 DEF CoReturn, ReturnsTo, In
      <3>2. QED
        BY <3>1 DEF Flat
    <2>2. CASE c \in plain \/ ~Alive(c)
      <3>1. ~(c \in Guarded /\ Alive(c))
        BY <2>2 DEF Guarded
      <3>2. ReturnsToNobody(t, c)
        BY <1>15, <2>2, <3>1 DEF CoReturn, ReturnsToNobody, In, Goto
      <3>3. QED
        BY <3>2 DEF Flat
    <2>3. QED
      BY <2>1, <2>2 DEF Guarded
  <1>16. ASSUME NEW t \in Threads, ReturnToCaller(t) PROVE Flat
    <2>1. CASE "future" \in thread[t].holds
      <3>1. GivesFuture(t)
        BY <1>16, <2>1 DEF ReturnToCaller, GivesFuture, In
      <3>2. QED
        BY <3>1 DEF Flat
    <2>2. CASE "future" \notin thread[t].holds
      <3>1. GivesNothing(t)
        BY <1>16, <2>2 DEF ReturnToCaller, GivesNothing, In
      <3>2. QED
        BY <3>1 DEF Flat
    <2>3. QED
      BY <2>1, <2>2
  <1>17. ASSUME NEW t \in Threads, NEW c \in Coroutines, Body(t, c) PROVE Flat
    <2>1. CASE AwaitExecutor(t, c)
      BY <1>5, <2>1 DEF AwaitExecutor
    <2>2. CASE AwaitAny(t, c)
      BY <1>5, <2>2 DEF AwaitAny
    <2>3. QED
      BY <1>4, <1>6, <1>7, <1>15, <1>17, <2>1, <2>2 DEF Body
  <1>18. ASSUME NEW t \in Threads, NEW c \in Coroutines, Step(t, c) PROVE Flat
    <2>1. CASE Suspends(t, c)
      <3>1. CASE UsesDestroyed(t)
        BY <3>1 DEF UsesDestroyed, Flat
      <3>2. CASE DropTemporary(t)
        BY <3>2 DEF Flat
      <3>3. QED
        BY <1>8, <1>9, <1>10, <1>11, <1>12, <2>1, <3>1, <3>2 DEF Suspends
    <2>2. CASE Resume(t) \/ ProxyWrites(t) \/ ProxySubmits(t) \/ FinalSuspend(t)
      BY <2>2 DEF Flat
    <2>3. CASE Settle(t, c)
      BY <2>3 DEF Flat
    <2>4. QED
      BY <1>16, <1>18, <2>1, <2>2, <2>3 DEF Step
  <1>19. ASSUME NEW t \in Threads, NEW c \in Coroutines, Resumptions(t, c) PROVE Flat
    <2>1. CASE ForeignResumes(t, c)
      BY <2>1 DEF Flat
    <2>2. QED
      BY <1>13, <1>14, <1>19, <2>1 DEF Resumptions
  <1>20. ASSUME NEW c \in Coroutines, Release(c) \/ DropResumption(c) \/ Destroy(c) PROVE Flat
    <2>1. CASE Release(c) \/ DropResumption(c)
      BY <2>1 DEF Flat
    <2>2. QED
      BY <1>2, <1>20, <2>1
  <1>21. CASE UNCHANGED vars
    BY <1>21 DEF Flat
  <1>22. QED
    BY <1>1, <1>17, <1>18, <1>19, <1>20, <1>21 DEF Next

LEMMA IsThread == TypeOK => thread \in [Threads -> Thread]
  BY DEF TypeOK, Thread, ThreadPc, Holdable

LEMMA TypeStep == IInv /\ [Next]_vars => TypeOK'
  <1> SUFFICES ASSUME IInv, Flat PROVE TypeOK'
    BY Flattened
  <1> USE CoroutineAssumption DEF CoroutineAssumption, IInv, TypeOK, Guarded
  <1>1. ASSUME NEW t \in Threads, NEW c \in Coroutines, CalledGuarded(t, c)
         PROVE  TypeOK'
    <2>1. thread' \in [Threads -> Thread]
      BY <1>1, IsThread, InCoroutine DEF CalledGuarded, ThreadPc, Holdable, Thread
    <2>2. QED
      BY <1>1, <2>1, InCoroutine DEF CalledGuarded, Thread, ThreadPc, Holdable, Blank, Running
  <1>2. ASSUME NEW t \in Threads, NEW c \in Coroutines, CalledPlain(t, c)
         PROVE  TypeOK'
    <2>1. thread' \in [Threads -> Thread]
      BY <1>2, IsThread, InCoroutine DEF CalledPlain, ThreadPc, Holdable, Thread
    <2>2. QED
      BY <1>2, <2>1, InCoroutine DEF CalledPlain, Thread, ThreadPc, Holdable, Blank, Running
  <1>3. ASSUME NEW t \in Threads, NEW c \in Coroutines, NEW d \in Coroutines, AwaitReady(t, c, d)
         PROVE  TypeOK'
    BY <1>3 DEF AwaitReady, InBody
  <1>4. ASSUME NEW t \in Threads, NEW c \in Coroutines, NEW d \in Coroutines, NEW p \in {"register", "assert"}, AwaitPending(t, c, d, p)
         PROVE  TypeOK'
    <2>1. thread' \in [Threads -> Thread]
      BY <1>4, IsThread, Goes DEF AwaitPending, Suspended, InBody, ThreadPc, Holdable
    <2>2. QED
      BY <1>4, <2>1, InCoroutine DEF AwaitPending, Suspended, InBody, Thread, ThreadPc, Holdable
  <1>5. ASSUME NEW t \in Threads, NEW c \in Coroutines, NEW p \in {"register", "assert"}, NEW kind \in {"executor", "any"}, AwaitOther(t, c, kind, p)
         PROVE  TypeOK'
    <2>1. thread' \in [Threads -> Thread]
      BY <1>5, IsThread, Goes DEF AwaitOther, Suspended, InBody, ThreadPc, Holdable
    <2>2. QED
      BY <1>5, <2>1, InCoroutine DEF AwaitOther, Suspended, InBody, Thread, ThreadPc, Holdable
  <1>6. ASSUME NEW t \in Threads, NEW c \in Coroutines, NEW h \in SUBSET handle, HandOver(t, c, h)
         PROVE  TypeOK'
    <2>1. thread' \in [Threads -> Thread]
      BY <1>6, IsThread, Goes DEF HandOver, InBody, ThreadPc, Holdable
    <2>2. QED
      BY <1>6, <2>1, InCoroutine DEF HandOver, InBody, Thread, ThreadPc, Holdable
  <1>7. ASSUME NEW t \in Threads, NEW c \in Coroutines, CheckpointPassed(t, c)
         PROVE  TypeOK'
    BY <1>7 DEF CheckpointPassed, InBody
  <1>8. ASSUME NEW t \in Threads, NEW c \in Coroutines, CheckpointEnds(t, c)
         PROVE  TypeOK'
    <2>1. thread' \in [Threads -> Thread]
      BY <1>8, IsThread, Goes DEF CheckpointEnds, InBody, DestroyFrame, ThreadPc, Holdable
    <2>2. QED
      BY <1>8, <2>1, InCoroutine DEF CheckpointEnds, InBody, DestroyFrame, Thread, ThreadPc, Holdable
  <1>9. ASSUME NEW t \in Threads, NEW c \in Coroutines, Attached(t, c)
         PROVE  TypeOK'
    <2>1. thread' \in [Threads -> Thread]
      BY <1>9, IsThread, Goes DEF Attached, ThreadPc, Holdable
    <2>2. then' \in [Coroutines -> SUBSET Coroutines]
      BY <1>9, ZenonT(60) DEF Attached
    <2>3. QED
      BY <1>9, <2>1, <2>2, InCoroutine DEF Attached, Thread, ThreadPc, Holdable
  <1>10. ASSUME NEW t \in Threads, NEW c \in Coroutines, Submitted(t, c)
         PROVE  TypeOK'
    <2>1. thread' \in [Threads -> Thread]
      BY <1>10, IsThread, Goes DEF Submitted, ThreadPc, Holdable
    <2>2. QED
      BY <1>10, <2>1, InCoroutine DEF Submitted, Thread, ThreadPc, Holdable
  <1>11. ASSUME NEW t \in Threads, NEW c \in Coroutines, Proxied(t, c)
         PROVE  TypeOK'
    <2>1. thread' \in [Threads -> Thread]
      BY <1>11, IsThread, Goes DEF Proxied, ThreadPc, Holdable
    <2>2. QED
      BY <1>11, <2>1, InCoroutine DEF Proxied, Thread, ThreadPc, Holdable
  <1>12. ASSUME NEW t \in Threads, NEW c \in Coroutines, NEW h \in {{}, {"state"}}, Taken(t, c, h)
         PROVE  TypeOK'
    <2>1. thread' \in [Threads -> Thread]
      BY <1>12, IsThread, InCoroutine DEF Taken, ThreadPc, Holdable, Thread
    <2>2. QED
      BY <1>12, <2>1, InCoroutine DEF Taken, Thread, ThreadPc, Holdable, Blank, Running
  <1>13. ASSUME NEW t \in Threads, NEW c \in Coroutines, NEW h \in {{}, {"state"}}, Fetched(t, c, h)
         PROVE  TypeOK'
    <2>1. thread' \in [Threads -> Thread]
      BY <1>13, IsThread, InCoroutine DEF Fetched, ThreadPc, Holdable, Thread
    <2>2. QED
      BY <1>13, <2>1, InCoroutine DEF Fetched, Thread, ThreadPc, Holdable, Blank, Running
  <1>14. ASSUME NEW t \in Threads, NEW c \in Coroutines, ForeignResumes(t, c)
         PROVE  TypeOK'
    <2>1. thread' \in [Threads -> Thread]
      BY <1>14, IsThread, InCoroutine DEF ForeignResumes, In, ThreadPc, Holdable, Thread
    <2>2. QED
      BY <1>14, <2>1, InCoroutine DEF ForeignResumes, In, Thread, ThreadPc, Holdable, Blank, Running
  <1>15. ASSUME NEW t \in Threads, NEW c \in Coroutines, ReturnsTo(t, c)
         PROVE  TypeOK'
    <2>1. thread' \in [Threads -> Thread]
      BY <1>15, IsThread, Moves DEF ReturnsTo, ThreadPc, Holdable
    <2>2. QED
      BY <1>15, <2>1, InCoroutine DEF ReturnsTo, Thread, ThreadPc, Holdable
  <1>16. ASSUME NEW t \in Threads, NEW c \in Coroutines, ReturnsToNobody(t, c)
         PROVE  TypeOK'
    <2>1. thread' \in [Threads -> Thread]
      BY <1>16, IsThread, Goes DEF ReturnsToNobody, ThreadPc, Holdable
    <2>2. QED
      BY <1>16, <2>1, InCoroutine DEF ReturnsToNobody, Thread, ThreadPc, Holdable
  <1>17. ASSUME NEW t \in Threads, NEW c \in Coroutines, Settle(t, c)
         PROVE  TypeOK'
    <2>1. thread' \in [Threads -> Thread]
      BY <1>17, IsThread, Moves DEF Settle, In, ThreadPc, Holdable
    <2>2. c \in Guarded /\ then[c] \subseteq Coroutines
      BY <1>17, InCoroutine DEF Settle, In, Running
    <2>3. QED
      BY <1>17, <2>1, <2>2, InCoroutine DEF Settle, In, Thread, ThreadPc, Holdable
  <1>18. ASSUME NEW t \in Threads, Asserted(t)
         PROVE  TypeOK'
    <2>1. thread' \in [Threads -> Thread]
      BY <1>18, IsThread, Goes DEF Asserted, ThreadPc, Holdable
    <2>2. QED
      BY <1>18, <2>1, InCoroutine DEF Asserted, Thread, ThreadPc, Holdable
  <1>19. ASSUME NEW t \in Threads, Stored(t)
         PROVE  TypeOK'
    <2>1. thread' \in [Threads -> Thread]
      BY <1>19, IsThread, Moves DEF Stored, ThreadPc, Holdable
    <2>2. thread[t].co \in Guarded
      BY <1>19, InCoroutine DEF Stored, Running
    <2>3. QED
      BY <1>19, <2>1, <2>2, InCoroutine DEF Stored, Thread, ThreadPc, Holdable
  <1>20. ASSUME NEW t \in Threads, DropTemporary(t)
         PROVE  TypeOK'
    <2>1. thread' \in [Threads -> Thread]
      BY <1>20, IsThread, Moves DEF DropTemporary, In, ThreadPc, Holdable
    <2>2. QED
      BY <1>20, <2>1, InCoroutine DEF DropTemporary, In, Thread, ThreadPc, Holdable
  <1>21. ASSUME NEW t \in Threads, Resume(t)
         PROVE  TypeOK'
    <2>1. thread' \in [Threads -> Thread]
      BY <1>21, IsThread, Goes DEF Resume, In, Goto, ThreadPc, Holdable
    <2>2. QED
      BY <1>21, <2>1, InCoroutine DEF Resume, In, Goto, Thread, ThreadPc, Holdable
  <1>22. ASSUME NEW t \in Threads, ProxyWrites(t)
         PROVE  TypeOK'
    <2>1. thread' \in [Threads -> Thread]
      BY <1>22, IsThread, Moves DEF ProxyWrites, In, ThreadPc, Holdable
    <2>2. QED
      BY <1>22, <2>1, InCoroutine DEF ProxyWrites, In, Thread, ThreadPc, Holdable
  <1>23. ASSUME NEW t \in Threads, ProxySubmits(t)
         PROVE  TypeOK'
    <2>1. thread' \in [Threads -> Thread]
      BY <1>23, IsThread, InCoroutine DEF ProxySubmits, In, Idle, ThreadPc, Holdable, Thread
    <2>2. QED
      BY <1>23, <2>1, InCoroutine DEF ProxySubmits, In, Idle, Thread, ThreadPc, Holdable, Blank, Running
  <1>24. ASSUME NEW t \in Threads, FinalSuspend(t)
         PROVE  TypeOK'
    <2>1. thread' \in [Threads -> Thread]
      BY <1>24, IsThread, Goes DEF FinalSuspend, DestroyFrame, In, Goto, ThreadPc, Holdable
    <2>2. QED
      BY <1>24, <2>1, InCoroutine DEF FinalSuspend, DestroyFrame, In, Goto, Thread, ThreadPc, Holdable
  <1>25. ASSUME NEW t \in Threads, GivesFuture(t)
         PROVE  TypeOK'
    <2>1. thread' \in [Threads -> Thread]
      BY <1>25, IsThread, InCoroutine DEF GivesFuture, Idle, ThreadPc, Holdable, Thread
    <2>2. QED
      BY <1>25, <2>1, InCoroutine DEF GivesFuture, Idle, Thread, ThreadPc, Holdable, Blank, Running
  <1>26. ASSUME NEW t \in Threads, GivesNothing(t)
         PROVE  TypeOK'
    <2>1. thread' \in [Threads -> Thread]
      BY <1>26, IsThread, InCoroutine DEF GivesNothing, Idle, ThreadPc, Holdable, Thread
    <2>2. QED
      BY <1>26, <2>1, InCoroutine DEF GivesNothing, Idle, Thread, ThreadPc, Holdable, Blank, Running
  <1>27. ASSUME NEW c \in Coroutines, Release(c)
         PROVE  TypeOK'
    BY <1>27 DEF Release
  <1>28. ASSUME NEW c \in Coroutines, DestroyState(c)
         PROVE  TypeOK'
    BY <1>28 DEF DestroyState
  <1>29. ASSUME NEW c \in Coroutines, DestroyBoth(c)
         PROVE  TypeOK'
    BY <1>29 DEF DestroyBoth, DestroyFrame
  <1>30. ASSUME NEW c \in Coroutines, TakenInVain(c)
         PROVE  TypeOK'
    BY <1>30 DEF TakenInVain
  <1>31. ASSUME NEW c \in Coroutines, FetchedInVain(c)
         PROVE  TypeOK'
    BY <1>31 DEF FetchedInVain
  <1>32. ASSUME NEW c \in Coroutines, DropResumption(c)
         PROVE  TypeOK'
    BY <1>32 DEF DropResumption
  <1>33. CASE Crash
    BY <1>33 DEF Crash
  <1>34. CASE UNCHANGED vars
    BY <1>34 DEF vars
  <1> HIDE DEF CoroutineAssumption, IInv, TypeOK, Guarded
  <1> QED
    BY <1>1, <1>2, <1>3, <1>4, <1>5, <1>6, <1>7, <1>8, <1>9, <1>10, <1>11, <1>12, <1>13, <1>14, <1>15, <1>16, <1>17,
       <1>18, <1>19, <1>20, <1>21, <1>22, <1>23, <1>24, <1>25, <1>26, <1>27, <1>28, <1>29, <1>30, <1>31, <1>32, <1>33, <1>34
       DEF Flat

LEMMA RunningStep == IInv /\ [Next]_vars => Running'
  <1> SUFFICES ASSUME IInv, Flat PROVE Running'
    BY Flattened
  <1> USE CoroutineAssumption DEF CoroutineAssumption, IInv, TypeOK, Guarded, Blank, Running, Frames, Exclusive, Has, Owned, RunPc, SuspendPc, ResumePc
  <1>1. ASSUME NEW t \in Threads, NEW c \in Coroutines, CalledGuarded(t, c)
         PROVE  Running'
    BY <1>1 DEF CalledGuarded
  <1>2. ASSUME NEW t \in Threads, NEW c \in Coroutines, CalledPlain(t, c)
         PROVE  Running'
    BY <1>2 DEF CalledPlain
  <1>3. ASSUME NEW t \in Threads, NEW c \in Coroutines, NEW d \in Coroutines, AwaitReady(t, c, d)
         PROVE  Running'
    BY <1>3 DEF AwaitReady, InBody
  <1>4. ASSUME NEW t \in Threads, NEW c \in Coroutines, NEW d \in Coroutines, NEW p \in {"register", "assert"}, AwaitPending(t, c, d, p)
         PROVE  Running'
    BY <1>4 DEF AwaitPending, Suspended, InBody
  <1>5. ASSUME NEW t \in Threads, NEW c \in Coroutines, NEW p \in {"register", "assert"}, NEW kind \in {"executor", "any"}, AwaitOther(t, c, kind, p)
         PROVE  Running'
    BY <1>5 DEF AwaitOther, Suspended, InBody
  <1>6. ASSUME NEW t \in Threads, NEW c \in Coroutines, NEW h \in SUBSET handle, HandOver(t, c, h)
         PROVE  Running'
    BY <1>6 DEF HandOver, InBody
  <1>7. ASSUME NEW t \in Threads, NEW c \in Coroutines, CheckpointPassed(t, c)
         PROVE  Running'
    BY <1>7 DEF CheckpointPassed, InBody
  <1>8. ASSUME NEW t \in Threads, NEW c \in Coroutines, CheckpointEnds(t, c)
         PROVE  Running'
    BY <1>8 DEF CheckpointEnds, InBody, DestroyFrame
  <1>9. ASSUME NEW t \in Threads, NEW c \in Coroutines, Attached(t, c)
         PROVE  Running'
    BY <1>9 DEF Attached
  <1>10. ASSUME NEW t \in Threads, NEW c \in Coroutines, Submitted(t, c)
         PROVE  Running'
    BY <1>10 DEF Submitted
  <1>11. ASSUME NEW t \in Threads, NEW c \in Coroutines, Proxied(t, c)
         PROVE  Running'
    BY <1>11 DEF Proxied
  <1>12. ASSUME NEW t \in Threads, NEW c \in Coroutines, NEW h \in {{}, {"state"}}, Taken(t, c, h)
         PROVE  Running'
    <2>1. Passed(c) /\ Way(c)
      BY <1>12 DEF Taken, Passed, Way
    <2>2. frame[c] # "none" /\ frame[c] # "running"
      BY <1>12, <2>1 DEF Taken, Passed
    <2>3. frame[c] # "destroyed"
      BY <1>12, <2>1 DEF Taken
    <2>4. frame[c] = "suspended"
      BY <2>2, <2>3
    <2>5. c \in Guarded => h # {}
      BY <1>12 DEF Taken
    <2>6. c \in Guarded \/ (~Owned(c) /\ h = {})
      BY <1>12 DEF Taken
    <2>7. QED
      BY <1>12, <2>4, <2>5, <2>6 DEF Taken
  <1>13. ASSUME NEW t \in Threads, NEW c \in Coroutines, NEW h \in {{}, {"state"}}, Fetched(t, c, h)
         PROVE  Running'
    <2>1. Passed(c) /\ Way(c)
      BY <1>13 DEF Fetched, Passed, Way
    <2>2. frame[c] # "none" /\ frame[c] # "running"
      BY <1>13, <2>1 DEF Fetched, Passed
    <2>3. frame[c] # "destroyed"
      BY <1>13, <2>1 DEF Fetched
    <2>4. frame[c] = "suspended"
      BY <2>2, <2>3
    <2>5. c \in Guarded => h # {}
      BY <1>13 DEF Fetched
    <2>6. c \in Guarded \/ (~Owned(c) /\ h = {})
      BY <1>13 DEF Fetched
    <2>7. QED
      BY <1>13, <2>4, <2>5, <2>6 DEF Fetched
  <1>14. ASSUME NEW t \in Threads, NEW c \in Coroutines, ForeignResumes(t, c)
         PROVE  Running'
    BY <1>14 DEF ForeignResumes, In
  <1>15. ASSUME NEW t \in Threads, NEW c \in Coroutines, ReturnsTo(t, c)
         PROVE  Running'
    BY <1>15 DEF ReturnsTo
  <1>16. ASSUME NEW t \in Threads, NEW c \in Coroutines, ReturnsToNobody(t, c)
         PROVE  Running'
    BY <1>16 DEF ReturnsToNobody, Alive
  <1>17. ASSUME NEW t \in Threads, NEW c \in Coroutines, Settle(t, c)
         PROVE  Running'
    BY <1>17, SMTT(40) DEF Settle, In
  <1>18. ASSUME NEW t \in Threads, Asserted(t)
         PROVE  Running'
    BY <1>18 DEF Asserted
  <1>19. ASSUME NEW t \in Threads, Stored(t)
         PROVE  Running'
    BY <1>19 DEF Stored
  <1>20. ASSUME NEW t \in Threads, DropTemporary(t)
         PROVE  Running'
    BY <1>20 DEF DropTemporary, In
  <1>21. ASSUME NEW t \in Threads, Resume(t)
         PROVE  Running'
    BY <1>21 DEF Resume, In, Goto
  <1>22. ASSUME NEW t \in Threads, ProxyWrites(t)
         PROVE  Running'
    BY <1>22 DEF ProxyWrites, In
  <1>23. ASSUME NEW t \in Threads, ProxySubmits(t)
         PROVE  Running'
    BY <1>23 DEF ProxySubmits, In, Idle
  <1>24. ASSUME NEW t \in Threads, FinalSuspend(t)
         PROVE  Running'
    BY <1>24 DEF FinalSuspend, DestroyFrame, In, Goto
  <1>25. ASSUME NEW t \in Threads, GivesFuture(t)
         PROVE  Running'
    BY <1>25 DEF GivesFuture, Idle
  <1>26. ASSUME NEW t \in Threads, GivesNothing(t)
         PROVE  Running'
    BY <1>26 DEF GivesNothing, Idle
  <1>27. ASSUME NEW c \in Coroutines, Release(c)
         PROVE  Running'
    BY <1>27 DEF Release
  <1>28. ASSUME NEW c \in Coroutines, DestroyState(c)
         PROVE  Running'
    BY <1>28 DEF DestroyState
  <1>29. ASSUME NEW c \in Coroutines, DestroyBoth(c)
         PROVE  Running'
    BY <1>29 DEF DestroyBoth, DestroyFrame, Alive
  <1>30. ASSUME NEW c \in Coroutines, TakenInVain(c)
         PROVE  Running'
    BY <1>30 DEF TakenInVain
  <1>31. ASSUME NEW c \in Coroutines, FetchedInVain(c)
         PROVE  Running'
    BY <1>31 DEF FetchedInVain
  <1>32. ASSUME NEW c \in Coroutines, DropResumption(c)
         PROVE  Running'
    BY <1>32 DEF DropResumption
  <1>33. CASE Crash
    BY <1>33 DEF Crash
  <1>34. CASE UNCHANGED vars
    BY <1>34 DEF vars
  <1> HIDE DEF CoroutineAssumption, IInv, TypeOK, Guarded, Blank, Running, Frames, Exclusive, Has, Owned, RunPc, SuspendPc, ResumePc
  <1> QED
    BY <1>1, <1>2, <1>3, <1>4, <1>5, <1>6, <1>7, <1>8, <1>9, <1>10, <1>11, <1>12, <1>13, <1>14, <1>15, <1>16, <1>17,
       <1>18, <1>19, <1>20, <1>21, <1>22, <1>23, <1>24, <1>25, <1>26, <1>27, <1>28, <1>29, <1>30, <1>31, <1>32, <1>33, <1>34
       DEF Flat

LEMMA BlankStep == IInv /\ [Next]_vars => Blank'
  <1> SUFFICES ASSUME IInv, Flat PROVE Blank'
    BY Flattened
  <1> USE CoroutineAssumption DEF CoroutineAssumption, IInv, TypeOK, Guarded, Blank, Running, Frames
  <1>1. ASSUME NEW t \in Threads, NEW c \in Coroutines, CalledGuarded(t, c)
         PROVE  Blank'
    BY <1>1 DEF CalledGuarded
  <1>2. ASSUME NEW t \in Threads, NEW c \in Coroutines, CalledPlain(t, c)
         PROVE  Blank'
    BY <1>2 DEF CalledPlain
  <1>3. ASSUME NEW t \in Threads, NEW c \in Coroutines, NEW d \in Coroutines, AwaitReady(t, c, d)
         PROVE  Blank'
    BY <1>3 DEF AwaitReady, InBody
  <1>4. ASSUME NEW t \in Threads, NEW c \in Coroutines, NEW d \in Coroutines, NEW p \in {"register", "assert"}, AwaitPending(t, c, d, p)
         PROVE  Blank'
    BY <1>4 DEF AwaitPending, Suspended, InBody
  <1>5. ASSUME NEW t \in Threads, NEW c \in Coroutines, NEW p \in {"register", "assert"}, NEW kind \in {"executor", "any"}, AwaitOther(t, c, kind, p)
         PROVE  Blank'
    BY <1>5 DEF AwaitOther, Suspended, InBody
  <1>6. ASSUME NEW t \in Threads, NEW c \in Coroutines, NEW h \in SUBSET handle, HandOver(t, c, h)
         PROVE  Blank'
    BY <1>6 DEF HandOver, InBody
  <1>7. ASSUME NEW t \in Threads, NEW c \in Coroutines, CheckpointPassed(t, c)
         PROVE  Blank'
    BY <1>7 DEF CheckpointPassed, InBody
  <1>8. ASSUME NEW t \in Threads, NEW c \in Coroutines, CheckpointEnds(t, c)
         PROVE  Blank'
    BY <1>8 DEF CheckpointEnds, InBody, DestroyFrame
  <1>9. ASSUME NEW t \in Threads, NEW c \in Coroutines, Attached(t, c)
         PROVE  Blank'
    BY <1>9 DEF Attached
  <1>10. ASSUME NEW t \in Threads, NEW c \in Coroutines, Submitted(t, c)
         PROVE  Blank'
    BY <1>10 DEF Submitted
  <1>11. ASSUME NEW t \in Threads, NEW c \in Coroutines, Proxied(t, c)
         PROVE  Blank'
    BY <1>11 DEF Proxied
  <1>12. ASSUME NEW t \in Threads, NEW c \in Coroutines, NEW h \in {{}, {"state"}}, Taken(t, c, h)
         PROVE  Blank'
    BY <1>12 DEF Taken
  <1>13. ASSUME NEW t \in Threads, NEW c \in Coroutines, NEW h \in {{}, {"state"}}, Fetched(t, c, h)
         PROVE  Blank'
    BY <1>13 DEF Fetched
  <1>14. ASSUME NEW t \in Threads, NEW c \in Coroutines, ForeignResumes(t, c)
         PROVE  Blank'
    BY <1>14 DEF ForeignResumes, In
  <1>15. ASSUME NEW t \in Threads, NEW c \in Coroutines, ReturnsTo(t, c)
         PROVE  Blank'
    BY <1>15 DEF ReturnsTo
  <1>16. ASSUME NEW t \in Threads, NEW c \in Coroutines, ReturnsToNobody(t, c)
         PROVE  Blank'
    BY <1>16 DEF ReturnsToNobody
  <1>17. ASSUME NEW t \in Threads, NEW c \in Coroutines, Settle(t, c)
         PROVE  Blank'
    BY <1>17 DEF Settle, In
  <1>18. ASSUME NEW t \in Threads, Asserted(t)
         PROVE  Blank'
    BY <1>18 DEF Asserted
  <1>19. ASSUME NEW t \in Threads, Stored(t)
         PROVE  Blank'
    BY <1>19 DEF Stored
  <1>20. ASSUME NEW t \in Threads, DropTemporary(t)
         PROVE  Blank'
    BY <1>20 DEF DropTemporary, In
  <1>21. ASSUME NEW t \in Threads, Resume(t)
         PROVE  Blank'
    BY <1>21 DEF Resume, In, Goto
  <1>22. ASSUME NEW t \in Threads, ProxyWrites(t)
         PROVE  Blank'
    BY <1>22 DEF ProxyWrites, In
  <1>23. ASSUME NEW t \in Threads, ProxySubmits(t)
         PROVE  Blank'
    BY <1>23 DEF ProxySubmits, In, Idle
  <1>24. ASSUME NEW t \in Threads, FinalSuspend(t)
         PROVE  Blank'
    BY <1>24 DEF FinalSuspend, DestroyFrame, In, Goto
  <1>25. ASSUME NEW t \in Threads, GivesFuture(t)
         PROVE  Blank'
    BY <1>25 DEF GivesFuture, Idle
  <1>26. ASSUME NEW t \in Threads, GivesNothing(t)
         PROVE  Blank'
    BY <1>26 DEF GivesNothing, Idle
  <1>27. ASSUME NEW c \in Coroutines, Release(c)
         PROVE  Blank'
    BY <1>27 DEF Release
  <1>28. ASSUME NEW c \in Coroutines, DestroyState(c)
         PROVE  Blank'
    BY <1>28 DEF DestroyState
  <1>29. ASSUME NEW c \in Coroutines, DestroyBoth(c)
         PROVE  Blank'
    BY <1>29 DEF DestroyBoth, DestroyFrame
  <1>30. ASSUME NEW c \in Coroutines, TakenInVain(c)
         PROVE  Blank'
    BY <1>30 DEF TakenInVain
  <1>31. ASSUME NEW c \in Coroutines, FetchedInVain(c)
         PROVE  Blank'
    BY <1>31 DEF FetchedInVain
  <1>32. ASSUME NEW c \in Coroutines, DropResumption(c)
         PROVE  Blank'
    BY <1>32 DEF DropResumption
  <1>33. CASE Crash
    BY <1>33 DEF Crash
  <1>34. CASE UNCHANGED vars
    BY <1>34 DEF vars
  <1> HIDE DEF CoroutineAssumption, IInv, TypeOK, Guarded, Blank, Running, Frames
  <1> QED
    BY <1>1, <1>2, <1>3, <1>4, <1>5, <1>6, <1>7, <1>8, <1>9, <1>10, <1>11, <1>12, <1>13, <1>14, <1>15, <1>16, <1>17,
       <1>18, <1>19, <1>20, <1>21, <1>22, <1>23, <1>24, <1>25, <1>26, <1>27, <1>28, <1>29, <1>30, <1>31, <1>32, <1>33, <1>34
       DEF Flat

LEMMA AwaitedStep == IInv /\ [Next]_vars => Awaited'
  <1> SUFFICES ASSUME IInv, Flat PROVE Awaited'
    BY Flattened
  <1> USE CoroutineAssumption DEF CoroutineAssumption, IInv, TypeOK, Guarded, Blank, Running, Frames, Awaited, Exclusive, Has, Passed, RunPc, SuspendPc, ResumePc
  <1>1. ASSUME NEW t \in Threads, NEW c \in Coroutines, CalledGuarded(t, c)
         PROVE  Awaited'
    BY <1>1 DEF CalledGuarded
  <1>2. ASSUME NEW t \in Threads, NEW c \in Coroutines, CalledPlain(t, c)
         PROVE  Awaited'
    BY <1>2 DEF CalledPlain
  <1>3. ASSUME NEW t \in Threads, NEW c \in Coroutines, NEW d \in Coroutines, AwaitReady(t, c, d)
         PROVE  Awaited'
    BY <1>3 DEF AwaitReady, InBody
  <1>4. ASSUME NEW t \in Threads, NEW c \in Coroutines, NEW d \in Coroutines, NEW p \in {"register", "assert"}, AwaitPending(t, c, d, p)
         PROVE  Awaited'
    BY <1>4 DEF AwaitPending, Suspended, InBody
  <1>5. ASSUME NEW t \in Threads, NEW c \in Coroutines, NEW p \in {"register", "assert"}, NEW kind \in {"executor", "any"}, AwaitOther(t, c, kind, p)
         PROVE  Awaited'
    BY <1>5 DEF AwaitOther, Suspended, InBody
  <1>6. ASSUME NEW t \in Threads, NEW c \in Coroutines, NEW h \in SUBSET handle, HandOver(t, c, h)
         PROVE  Awaited'
    BY <1>6 DEF HandOver, InBody
  <1>7. ASSUME NEW t \in Threads, NEW c \in Coroutines, CheckpointPassed(t, c)
         PROVE  Awaited'
    BY <1>7 DEF CheckpointPassed, InBody
  <1>8. ASSUME NEW t \in Threads, NEW c \in Coroutines, CheckpointEnds(t, c)
         PROVE  Awaited'
    BY <1>8 DEF CheckpointEnds, InBody, DestroyFrame
  <1>9. ASSUME NEW t \in Threads, NEW c \in Coroutines, Attached(t, c)
         PROVE  Awaited'
    BY <1>9 DEF Attached
  <1>10. ASSUME NEW t \in Threads, NEW c \in Coroutines, Submitted(t, c)
         PROVE  Awaited'
    BY <1>10 DEF Submitted
  <1>11. ASSUME NEW t \in Threads, NEW c \in Coroutines, Proxied(t, c)
         PROVE  Awaited'
    BY <1>11 DEF Proxied
  <1>12. ASSUME NEW t \in Threads, NEW c \in Coroutines, NEW h \in {{}, {"state"}}, Taken(t, c, h)
         PROVE  Awaited'
    BY <1>12 DEF Taken
  <1>13. ASSUME NEW t \in Threads, NEW c \in Coroutines, NEW h \in {{}, {"state"}}, Fetched(t, c, h)
         PROVE  Awaited'
    BY <1>13 DEF Fetched
  <1>14. ASSUME NEW t \in Threads, NEW c \in Coroutines, ForeignResumes(t, c)
         PROVE  Awaited'
    BY <1>14 DEF ForeignResumes, In
  <1>15. ASSUME NEW t \in Threads, NEW c \in Coroutines, ReturnsTo(t, c)
         PROVE  Awaited'
    BY <1>15 DEF ReturnsTo
  <1>16. ASSUME NEW t \in Threads, NEW c \in Coroutines, ReturnsToNobody(t, c)
         PROVE  Awaited'
    BY <1>16 DEF ReturnsToNobody
  <1>17. ASSUME NEW t \in Threads, NEW c \in Coroutines, Settle(t, c)
         PROVE  Awaited'
    BY <1>17 DEF Settle, In
  <1>18. ASSUME NEW t \in Threads, Asserted(t)
         PROVE  Awaited'
    BY <1>18 DEF Asserted
  <1>19. ASSUME NEW t \in Threads, Stored(t)
         PROVE  Awaited'
    BY <1>19 DEF Stored
  <1>20. ASSUME NEW t \in Threads, DropTemporary(t)
         PROVE  Awaited'
    BY <1>20 DEF DropTemporary, In
  <1>21. ASSUME NEW t \in Threads, Resume(t)
         PROVE  Awaited'
    BY <1>21 DEF Resume, In, Goto
  <1>22. ASSUME NEW t \in Threads, ProxyWrites(t)
         PROVE  Awaited'
    BY <1>22 DEF ProxyWrites, In
  <1>23. ASSUME NEW t \in Threads, ProxySubmits(t)
         PROVE  Awaited'
    BY <1>23 DEF ProxySubmits, In, Idle
  <1>24. ASSUME NEW t \in Threads, FinalSuspend(t)
         PROVE  Awaited'
    BY <1>24 DEF FinalSuspend, DestroyFrame, In, Goto
  <1>25. ASSUME NEW t \in Threads, GivesFuture(t)
         PROVE  Awaited'
    BY <1>25 DEF GivesFuture, Idle
  <1>26. ASSUME NEW t \in Threads, GivesNothing(t)
         PROVE  Awaited'
    BY <1>26 DEF GivesNothing, Idle
  <1>27. ASSUME NEW c \in Coroutines, Release(c)
         PROVE  Awaited'
    BY <1>27 DEF Release
  <1>28. ASSUME NEW c \in Coroutines, DestroyState(c)
         PROVE  Awaited'
    BY <1>28 DEF DestroyState
  <1>29. ASSUME NEW c \in Coroutines, DestroyBoth(c)
         PROVE  Awaited'
    BY <1>29 DEF DestroyBoth, DestroyFrame
  <1>30. ASSUME NEW c \in Coroutines, TakenInVain(c)
         PROVE  Awaited'
    BY <1>30 DEF TakenInVain
  <1>31. ASSUME NEW c \in Coroutines, FetchedInVain(c)
         PROVE  Awaited'
    BY <1>31 DEF FetchedInVain
  <1>32. ASSUME NEW c \in Coroutines, DropResumption(c)
         PROVE  Awaited'
    BY <1>32 DEF DropResumption
  <1>33. CASE Crash
    BY <1>33 DEF Crash
  <1>34. CASE UNCHANGED vars
    BY <1>34 DEF vars
  <1> HIDE DEF CoroutineAssumption, IInv, TypeOK, Guarded, Blank, Running, Frames, Awaited, Exclusive, Has, Passed, RunPc, SuspendPc, ResumePc
  <1> QED
    BY <1>1, <1>2, <1>3, <1>4, <1>5, <1>6, <1>7, <1>8, <1>9, <1>10, <1>11, <1>12, <1>13, <1>14, <1>15, <1>16, <1>17,
       <1>18, <1>19, <1>20, <1>21, <1>22, <1>23, <1>24, <1>25, <1>26, <1>27, <1>28, <1>29, <1>30, <1>31, <1>32, <1>33, <1>34
       DEF Flat

LEMMA ExclusiveStep == IInv /\ [Next]_vars => Exclusive'
  <1> SUFFICES ASSUME IInv, Flat PROVE Exclusive'
    BY Flattened
  <1> USE CoroutineAssumption DEF CoroutineAssumption, IInv, TypeOK, Guarded, Blank, Running, Frames, Exclusive, Has, Passed, RunPc, SuspendPc, ResumePc
  <1>1. ASSUME NEW t \in Threads, NEW c \in Coroutines, CalledGuarded(t, c)
         PROVE  Exclusive'
    BY <1>1 DEF CalledGuarded
  <1>2. ASSUME NEW t \in Threads, NEW c \in Coroutines, CalledPlain(t, c)
         PROVE  Exclusive'
    BY <1>2, SMTT(60) DEF CalledPlain
  <1>3. ASSUME NEW t \in Threads, NEW c \in Coroutines, NEW d \in Coroutines, AwaitReady(t, c, d)
         PROVE  Exclusive'
    BY <1>3 DEF AwaitReady, InBody
  <1>4. ASSUME NEW t \in Threads, NEW c \in Coroutines, NEW d \in Coroutines, NEW p \in {"register", "assert"}, AwaitPending(t, c, d, p)
         PROVE  Exclusive'
    BY <1>4 DEF AwaitPending, Suspended, InBody
  <1>5. ASSUME NEW t \in Threads, NEW c \in Coroutines, NEW p \in {"register", "assert"}, NEW kind \in {"executor", "any"}, AwaitOther(t, c, kind, p)
         PROVE  Exclusive'
    BY <1>5 DEF AwaitOther, Suspended, InBody
  <1>6. ASSUME NEW t \in Threads, NEW c \in Coroutines, NEW h \in SUBSET handle, HandOver(t, c, h)
         PROVE  Exclusive'
    BY <1>6 DEF HandOver, InBody
  <1>7. ASSUME NEW t \in Threads, NEW c \in Coroutines, CheckpointPassed(t, c)
         PROVE  Exclusive'
    BY <1>7 DEF CheckpointPassed, InBody
  <1>8. ASSUME NEW t \in Threads, NEW c \in Coroutines, CheckpointEnds(t, c)
         PROVE  Exclusive'
    BY <1>8 DEF CheckpointEnds, InBody, DestroyFrame
  <1>9. ASSUME NEW t \in Threads, NEW c \in Coroutines, Attached(t, c)
         PROVE  Exclusive'
    BY <1>9 DEF Attached
  <1>10. ASSUME NEW t \in Threads, NEW c \in Coroutines, Submitted(t, c)
         PROVE  Exclusive'
    BY <1>10 DEF Submitted
  <1>11. ASSUME NEW t \in Threads, NEW c \in Coroutines, Proxied(t, c)
         PROVE  Exclusive'
    BY <1>11 DEF Proxied
  <1>12. ASSUME NEW t \in Threads, NEW c \in Coroutines, NEW h \in {{}, {"state"}}, Taken(t, c, h)
         PROVE  Exclusive'
    BY <1>12 DEF Taken
  <1>13. ASSUME NEW t \in Threads, NEW c \in Coroutines, NEW h \in {{}, {"state"}}, Fetched(t, c, h)
         PROVE  Exclusive'
    BY <1>13 DEF Fetched
  <1>14. ASSUME NEW t \in Threads, NEW c \in Coroutines, ForeignResumes(t, c)
         PROVE  Exclusive'
    BY <1>14 DEF ForeignResumes, In
  <1>15. ASSUME NEW t \in Threads, NEW c \in Coroutines, ReturnsTo(t, c)
         PROVE  Exclusive'
    BY <1>15 DEF ReturnsTo
  <1>16. ASSUME NEW t \in Threads, NEW c \in Coroutines, ReturnsToNobody(t, c)
         PROVE  Exclusive'
    BY <1>16 DEF ReturnsToNobody
  <1>17. ASSUME NEW t \in Threads, NEW c \in Coroutines, Settle(t, c)
         PROVE  Exclusive'
    BY <1>17 DEF Settle, In
  <1>18. ASSUME NEW t \in Threads, Asserted(t)
         PROVE  Exclusive'
    BY <1>18 DEF Asserted
  <1>19. ASSUME NEW t \in Threads, Stored(t)
         PROVE  Exclusive'
    BY <1>19 DEF Stored
  <1>20. ASSUME NEW t \in Threads, DropTemporary(t)
         PROVE  Exclusive'
    BY <1>20 DEF DropTemporary, In
  <1>21. ASSUME NEW t \in Threads, Resume(t)
         PROVE  Exclusive'
    BY <1>21 DEF Resume, In, Goto
  <1>22. ASSUME NEW t \in Threads, ProxyWrites(t)
         PROVE  Exclusive'
    BY <1>22 DEF ProxyWrites, In
  <1>23. ASSUME NEW t \in Threads, ProxySubmits(t)
         PROVE  Exclusive'
    BY <1>23 DEF ProxySubmits, In, Idle
  <1>24. ASSUME NEW t \in Threads, FinalSuspend(t)
         PROVE  Exclusive'
    BY <1>24 DEF FinalSuspend, DestroyFrame, In, Goto
  <1>25. ASSUME NEW t \in Threads, GivesFuture(t)
         PROVE  Exclusive'
    BY <1>25 DEF GivesFuture, Idle
  <1>26. ASSUME NEW t \in Threads, GivesNothing(t)
         PROVE  Exclusive'
    BY <1>26 DEF GivesNothing, Idle
  <1>27. ASSUME NEW c \in Coroutines, Release(c)
         PROVE  Exclusive'
    BY <1>27 DEF Release
  <1>28. ASSUME NEW c \in Coroutines, DestroyState(c)
         PROVE  Exclusive'
    BY <1>28 DEF DestroyState
  <1>29. ASSUME NEW c \in Coroutines, DestroyBoth(c)
         PROVE  Exclusive'
    BY <1>29 DEF DestroyBoth, DestroyFrame
  <1>30. ASSUME NEW c \in Coroutines, TakenInVain(c)
         PROVE  Exclusive'
    BY <1>30 DEF TakenInVain
  <1>31. ASSUME NEW c \in Coroutines, FetchedInVain(c)
         PROVE  Exclusive'
    BY <1>31 DEF FetchedInVain
  <1>32. ASSUME NEW c \in Coroutines, DropResumption(c)
         PROVE  Exclusive'
    BY <1>32 DEF DropResumption
  <1>33. CASE Crash
    BY <1>33 DEF Crash
  <1>34. CASE UNCHANGED vars
    BY <1>34 DEF vars
  <1> HIDE DEF CoroutineAssumption, IInv, TypeOK, Guarded, Blank, Running, Frames, Exclusive, Has, Passed, RunPc, SuspendPc, ResumePc
  <1> QED
    BY <1>1, <1>2, <1>3, <1>4, <1>5, <1>6, <1>7, <1>8, <1>9, <1>10, <1>11, <1>12, <1>13, <1>14, <1>15, <1>16, <1>17,
       <1>18, <1>19, <1>20, <1>21, <1>22, <1>23, <1>24, <1>25, <1>26, <1>27, <1>28, <1>29, <1>30, <1>31, <1>32, <1>33, <1>34
       DEF Flat

\* A coroutine that has been called gets no owner back.
LEMMA AliveStep ==
  IInv /\ Flat => \A x \in Coroutines : frame[x] # "none" /\ Alive(x)' => Alive(x)
  <1> SUFFICES ASSUME IInv, Flat, NEW x \in Coroutines, frame[x] # "none", Alive(x)'
               PROVE  Alive(x)
    OBVIOUS
  <1> USE CoroutineAssumption DEF CoroutineAssumption, IInv, TypeOK, Guarded, Alive
  <1>1. ASSUME NEW t \in Threads, NEW c \in Coroutines, CalledGuarded(t, c)
         PROVE  Alive(x)
    BY <1>1 DEF CalledGuarded
  <1>2. ASSUME NEW t \in Threads, NEW c \in Coroutines, CalledPlain(t, c)
         PROVE  Alive(x)
    BY <1>2 DEF CalledPlain
  <1>3. ASSUME NEW t \in Threads, NEW c \in Coroutines, NEW d \in Coroutines, AwaitReady(t, c, d)
         PROVE  Alive(x)
    BY <1>3 DEF AwaitReady, InBody
  <1>4. ASSUME NEW t \in Threads, NEW c \in Coroutines, NEW d \in Coroutines, NEW p \in {"register", "assert"}, AwaitPending(t, c, d, p)
         PROVE  Alive(x)
    BY <1>4 DEF AwaitPending, Suspended, InBody
  <1>5. ASSUME NEW t \in Threads, NEW c \in Coroutines, NEW p \in {"register", "assert"}, NEW kind \in {"executor", "any"}, AwaitOther(t, c, kind, p)
         PROVE  Alive(x)
    BY <1>5 DEF AwaitOther, Suspended, InBody
  <1>6. ASSUME NEW t \in Threads, NEW c \in Coroutines, NEW h \in SUBSET handle, HandOver(t, c, h)
         PROVE  Alive(x)
    BY <1>6 DEF HandOver, InBody
  <1>7. ASSUME NEW t \in Threads, NEW c \in Coroutines, CheckpointPassed(t, c)
         PROVE  Alive(x)
    BY <1>7 DEF CheckpointPassed, InBody
  <1>8. ASSUME NEW t \in Threads, NEW c \in Coroutines, CheckpointEnds(t, c)
         PROVE  Alive(x)
    BY <1>8 DEF CheckpointEnds, InBody, DestroyFrame
  <1>9. ASSUME NEW t \in Threads, NEW c \in Coroutines, Attached(t, c)
         PROVE  Alive(x)
    BY <1>9 DEF Attached
  <1>10. ASSUME NEW t \in Threads, NEW c \in Coroutines, Submitted(t, c)
         PROVE  Alive(x)
    BY <1>10 DEF Submitted
  <1>11. ASSUME NEW t \in Threads, NEW c \in Coroutines, Proxied(t, c)
         PROVE  Alive(x)
    BY <1>11 DEF Proxied
  <1>12. ASSUME NEW t \in Threads, NEW c \in Coroutines, NEW h \in {{}, {"state"}}, Taken(t, c, h)
         PROVE  Alive(x)
    BY <1>12 DEF Taken
  <1>13. ASSUME NEW t \in Threads, NEW c \in Coroutines, NEW h \in {{}, {"state"}}, Fetched(t, c, h)
         PROVE  Alive(x)
    BY <1>13 DEF Fetched
  <1>14. ASSUME NEW t \in Threads, NEW c \in Coroutines, ForeignResumes(t, c)
         PROVE  Alive(x)
    BY <1>14 DEF ForeignResumes, In
  <1>15. ASSUME NEW t \in Threads, NEW c \in Coroutines, ReturnsTo(t, c)
         PROVE  Alive(x)
    BY <1>15 DEF ReturnsTo
  <1>16. ASSUME NEW t \in Threads, NEW c \in Coroutines, ReturnsToNobody(t, c)
         PROVE  Alive(x)
    BY <1>16 DEF ReturnsToNobody
  <1>17. ASSUME NEW t \in Threads, NEW c \in Coroutines, Settle(t, c)
         PROVE  Alive(x)
    BY <1>17 DEF Settle, In
  <1>18. ASSUME NEW t \in Threads, Asserted(t)
         PROVE  Alive(x)
    BY <1>18 DEF Asserted
  <1>19. ASSUME NEW t \in Threads, Stored(t)
         PROVE  Alive(x)
    BY <1>19 DEF Stored
  <1>20. ASSUME NEW t \in Threads, DropTemporary(t)
         PROVE  Alive(x)
    BY <1>20 DEF DropTemporary, In
  <1>21. ASSUME NEW t \in Threads, Resume(t)
         PROVE  Alive(x)
    BY <1>21 DEF Resume, In, Goto
  <1>22. ASSUME NEW t \in Threads, ProxyWrites(t)
         PROVE  Alive(x)
    BY <1>22 DEF ProxyWrites, In
  <1>23. ASSUME NEW t \in Threads, ProxySubmits(t)
         PROVE  Alive(x)
    BY <1>23 DEF ProxySubmits, In, Idle
  <1>24. ASSUME NEW t \in Threads, FinalSuspend(t)
         PROVE  Alive(x)
    BY <1>24 DEF FinalSuspend, DestroyFrame, In, Goto
  <1>25. ASSUME NEW t \in Threads, GivesFuture(t)
         PROVE  Alive(x)
    BY <1>25 DEF GivesFuture, Idle
  <1>26. ASSUME NEW t \in Threads, GivesNothing(t)
         PROVE  Alive(x)
    BY <1>26 DEF GivesNothing, Idle
  <1>27. ASSUME NEW c \in Coroutines, Release(c)
         PROVE  Alive(x)
    BY <1>27 DEF Release
  <1>28. ASSUME NEW c \in Coroutines, DestroyState(c)
         PROVE  Alive(x)
    BY <1>28 DEF DestroyState
  <1>29. ASSUME NEW c \in Coroutines, DestroyBoth(c)
         PROVE  Alive(x)
    BY <1>29 DEF DestroyBoth, DestroyFrame
  <1>30. ASSUME NEW c \in Coroutines, TakenInVain(c)
         PROVE  Alive(x)
    BY <1>30 DEF TakenInVain
  <1>31. ASSUME NEW c \in Coroutines, FetchedInVain(c)
         PROVE  Alive(x)
    BY <1>31 DEF FetchedInVain
  <1>32. ASSUME NEW c \in Coroutines, DropResumption(c)
         PROVE  Alive(x)
    BY <1>32 DEF DropResumption
  <1>33. CASE Crash
    BY <1>33 DEF Crash
  <1>34. CASE UNCHANGED vars
    BY <1>34 DEF vars
  <1> HIDE DEF CoroutineAssumption, IInv, TypeOK, Guarded, Alive
  <1> QED
    BY <1>1, <1>2, <1>3, <1>4, <1>5, <1>6, <1>7, <1>8, <1>9, <1>10, <1>11, <1>12, <1>13, <1>14, <1>15, <1>16, <1>17,
       <1>18, <1>19, <1>20, <1>21, <1>22, <1>23, <1>24, <1>25, <1>26, <1>27, <1>28, <1>29, <1>30, <1>31, <1>32, <1>33, <1>34
       DEF Flat

LEMMA GoneStep ==
  IInv /\ Flat => \A x \in Coroutines : x \in gone' => ~Alive(x)'
  <1> SUFFICES ASSUME IInv, Flat, NEW x \in Coroutines, x \in gone'
               PROVE  ~Alive(x)'
    OBVIOUS
  <1>0. frame[x] # "none" /\ Alive(x)' => Alive(x)
    BY AliveStep
  <1> USE <1>0 DEF IInv, Blank, Frames
  <1>1. ASSUME NEW t \in Threads, NEW c \in Coroutines, CalledGuarded(t, c)
         PROVE  ~Alive(x)'
    BY <1>1 DEF CalledGuarded
  <1>2. ASSUME NEW t \in Threads, NEW c \in Coroutines, CalledPlain(t, c)
         PROVE  ~Alive(x)'
    BY <1>2 DEF CalledPlain
  <1>3. ASSUME NEW t \in Threads, NEW c \in Coroutines, NEW d \in Coroutines, AwaitReady(t, c, d)
         PROVE  ~Alive(x)'
    BY <1>3 DEF AwaitReady, InBody
  <1>4. ASSUME NEW t \in Threads, NEW c \in Coroutines, NEW d \in Coroutines, NEW p \in {"register", "assert"}, AwaitPending(t, c, d, p)
         PROVE  ~Alive(x)'
    BY <1>4 DEF AwaitPending, Suspended, InBody
  <1>5. ASSUME NEW t \in Threads, NEW c \in Coroutines, NEW p \in {"register", "assert"}, NEW kind \in {"executor", "any"}, AwaitOther(t, c, kind, p)
         PROVE  ~Alive(x)'
    BY <1>5 DEF AwaitOther, Suspended, InBody
  <1>6. ASSUME NEW t \in Threads, NEW c \in Coroutines, NEW h \in SUBSET handle, HandOver(t, c, h)
         PROVE  ~Alive(x)'
    BY <1>6 DEF HandOver, InBody
  <1>7. ASSUME NEW t \in Threads, NEW c \in Coroutines, CheckpointPassed(t, c)
         PROVE  ~Alive(x)'
    BY <1>7 DEF CheckpointPassed, InBody
  <1>8. ASSUME NEW t \in Threads, NEW c \in Coroutines, CheckpointEnds(t, c)
         PROVE  ~Alive(x)'
    BY <1>8 DEF CheckpointEnds, InBody, DestroyFrame
  <1>9. ASSUME NEW t \in Threads, NEW c \in Coroutines, Attached(t, c)
         PROVE  ~Alive(x)'
    BY <1>9 DEF Attached
  <1>10. ASSUME NEW t \in Threads, NEW c \in Coroutines, Submitted(t, c)
         PROVE  ~Alive(x)'
    BY <1>10 DEF Submitted
  <1>11. ASSUME NEW t \in Threads, NEW c \in Coroutines, Proxied(t, c)
         PROVE  ~Alive(x)'
    BY <1>11 DEF Proxied
  <1>12. ASSUME NEW t \in Threads, NEW c \in Coroutines, NEW h \in {{}, {"state"}}, Taken(t, c, h)
         PROVE  ~Alive(x)'
    BY <1>12 DEF Taken
  <1>13. ASSUME NEW t \in Threads, NEW c \in Coroutines, NEW h \in {{}, {"state"}}, Fetched(t, c, h)
         PROVE  ~Alive(x)'
    BY <1>13 DEF Fetched
  <1>14. ASSUME NEW t \in Threads, NEW c \in Coroutines, ForeignResumes(t, c)
         PROVE  ~Alive(x)'
    BY <1>14 DEF ForeignResumes, In
  <1>15. ASSUME NEW t \in Threads, NEW c \in Coroutines, ReturnsTo(t, c)
         PROVE  ~Alive(x)'
    BY <1>15 DEF ReturnsTo
  <1>16. ASSUME NEW t \in Threads, NEW c \in Coroutines, ReturnsToNobody(t, c)
         PROVE  ~Alive(x)'
    BY <1>16 DEF ReturnsToNobody
  <1>17. ASSUME NEW t \in Threads, NEW c \in Coroutines, Settle(t, c)
         PROVE  ~Alive(x)'
    BY <1>17 DEF Settle, In
  <1>18. ASSUME NEW t \in Threads, Asserted(t)
         PROVE  ~Alive(x)'
    BY <1>18 DEF Asserted
  <1>19. ASSUME NEW t \in Threads, Stored(t)
         PROVE  ~Alive(x)'
    BY <1>19 DEF Stored
  <1>20. ASSUME NEW t \in Threads, DropTemporary(t)
         PROVE  ~Alive(x)'
    BY <1>20 DEF DropTemporary, In
  <1>21. ASSUME NEW t \in Threads, Resume(t)
         PROVE  ~Alive(x)'
    BY <1>21 DEF Resume, In, Goto
  <1>22. ASSUME NEW t \in Threads, ProxyWrites(t)
         PROVE  ~Alive(x)'
    BY <1>22 DEF ProxyWrites, In
  <1>23. ASSUME NEW t \in Threads, ProxySubmits(t)
         PROVE  ~Alive(x)'
    BY <1>23 DEF ProxySubmits, In, Idle
  <1>24. ASSUME NEW t \in Threads, FinalSuspend(t)
         PROVE  ~Alive(x)'
    BY <1>24 DEF FinalSuspend, DestroyFrame, In, Goto
  <1>25. ASSUME NEW t \in Threads, GivesFuture(t)
         PROVE  ~Alive(x)'
    BY <1>25 DEF GivesFuture, Idle
  <1>26. ASSUME NEW t \in Threads, GivesNothing(t)
         PROVE  ~Alive(x)'
    BY <1>26 DEF GivesNothing, Idle
  <1>27. ASSUME NEW c \in Coroutines, Release(c)
         PROVE  ~Alive(x)'
    BY <1>27 DEF Release
  <1>28. ASSUME NEW c \in Coroutines, DestroyState(c)
         PROVE  ~Alive(x)'
    BY <1>28 DEF DestroyState
  <1>29. ASSUME NEW c \in Coroutines, DestroyBoth(c)
         PROVE  ~Alive(x)'
    BY <1>29 DEF DestroyBoth, DestroyFrame
  <1>30. ASSUME NEW c \in Coroutines, TakenInVain(c)
         PROVE  ~Alive(x)'
    BY <1>30 DEF TakenInVain
  <1>31. ASSUME NEW c \in Coroutines, FetchedInVain(c)
         PROVE  ~Alive(x)'
    BY <1>31 DEF FetchedInVain
  <1>32. ASSUME NEW c \in Coroutines, DropResumption(c)
         PROVE  ~Alive(x)'
    BY <1>32 DEF DropResumption
  <1>33. CASE Crash
    BY <1>33 DEF Crash
  <1>34. CASE UNCHANGED vars
    BY <1>34 DEF vars
  <1> HIDE DEF IInv, Blank, Frames
  <1> QED
    BY <1>1, <1>2, <1>3, <1>4, <1>5, <1>6, <1>7, <1>8, <1>9, <1>10, <1>11, <1>12, <1>13, <1>14, <1>15, <1>16, <1>17,
       <1>18, <1>19, <1>20, <1>21, <1>22, <1>23, <1>24, <1>25, <1>26, <1>27, <1>28, <1>29, <1>30, <1>31, <1>32, <1>33, <1>34
       DEF Flat

LEMMA FramesStep == IInv /\ [Next]_vars => Frames'
  <1> SUFFICES ASSUME IInv, Flat PROVE Frames'
    BY Flattened
  <1> USE GoneStep, CoroutineAssumption DEF CoroutineAssumption, IInv, TypeOK, Guarded, Blank, Running, Frames, Exclusive, Has, Passed, Way, Owned, RunPc, SuspendPc, ResumePc
  <1>1. ASSUME NEW t \in Threads, NEW c \in Coroutines, CalledGuarded(t, c)
         PROVE  Frames'
    BY <1>1 DEF CalledGuarded
  <1>2. ASSUME NEW t \in Threads, NEW c \in Coroutines, CalledPlain(t, c)
         PROVE  Frames'
    BY <1>2 DEF CalledPlain
  <1>3. ASSUME NEW t \in Threads, NEW c \in Coroutines, NEW d \in Coroutines, AwaitReady(t, c, d)
         PROVE  Frames'
    BY <1>3 DEF AwaitReady, InBody
  <1>4. ASSUME NEW t \in Threads, NEW c \in Coroutines, NEW d \in Coroutines, NEW p \in {"register", "assert"}, AwaitPending(t, c, d, p)
         PROVE  Frames'
    BY <1>4 DEF AwaitPending, Suspended, InBody
  <1>5. ASSUME NEW t \in Threads, NEW c \in Coroutines, NEW p \in {"register", "assert"}, NEW kind \in {"executor", "any"}, AwaitOther(t, c, kind, p)
         PROVE  Frames'
    BY <1>5 DEF AwaitOther, Suspended, InBody
  <1>6. ASSUME NEW t \in Threads, NEW c \in Coroutines, NEW h \in SUBSET handle, HandOver(t, c, h)
         PROVE  Frames'
    BY <1>6 DEF HandOver, InBody, Alive
  <1>7. ASSUME NEW t \in Threads, NEW c \in Coroutines, CheckpointPassed(t, c)
         PROVE  Frames'
    BY <1>7 DEF CheckpointPassed, InBody
  <1>8. ASSUME NEW t \in Threads, NEW c \in Coroutines, CheckpointEnds(t, c)
         PROVE  Frames'
    BY <1>8 DEF CheckpointEnds, InBody, DestroyFrame, Alive
  <1>9. ASSUME NEW t \in Threads, NEW c \in Coroutines, Attached(t, c)
         PROVE  Frames'
    BY <1>9 DEF Attached
  <1>10. ASSUME NEW t \in Threads, NEW c \in Coroutines, Submitted(t, c)
         PROVE  Frames'
    BY <1>10 DEF Submitted
  <1>11. ASSUME NEW t \in Threads, NEW c \in Coroutines, Proxied(t, c)
         PROVE  Frames'
    BY <1>11 DEF Proxied
  <1>12. ASSUME NEW t \in Threads, NEW c \in Coroutines, NEW h \in {{}, {"state"}}, Taken(t, c, h)
         PROVE  Frames'
    BY <1>12 DEF Taken
  <1>13. ASSUME NEW t \in Threads, NEW c \in Coroutines, NEW h \in {{}, {"state"}}, Fetched(t, c, h)
         PROVE  Frames'
    BY <1>13 DEF Fetched
  <1>14. ASSUME NEW t \in Threads, NEW c \in Coroutines, ForeignResumes(t, c)
         PROVE  Frames'
    BY <1>14 DEF ForeignResumes, In
  <1>15. ASSUME NEW t \in Threads, NEW c \in Coroutines, ReturnsTo(t, c)
         PROVE  Frames'
    <2>1. /\ \A u \in Threads : thread'[u].co = thread[u].co /\ (u # t => thread'[u].pc = thread[u].pc)
         /\ thread'[t].pc = "settle"
      BY <1>15 DEF ReturnsTo
    <2>2. \A x \in Coroutines : Way(x) => Way(x)'
      BY <1>15, <2>1 DEF ReturnsTo
    <2>3. \A x \in Coroutines : Way(x)' => Way(x)
      BY <1>15, <2>1 DEF ReturnsTo
    <2> HIDE DEF Way
    <2>4. QED
      BY <1>15, <2>1, <2>2, <2>3 DEF ReturnsTo
  <1>16. ASSUME NEW t \in Threads, NEW c \in Coroutines, ReturnsToNobody(t, c)
         PROVE  Frames'
    BY <1>16 DEF ReturnsToNobody
  <1>17. ASSUME NEW t \in Threads, NEW c \in Coroutines, Settle(t, c)
         PROVE  Frames'
    BY <1>17, SMTT(40) DEF Settle, In
  <1>18. ASSUME NEW t \in Threads, Asserted(t)
         PROVE  Frames'
    BY <1>18 DEF Asserted
  <1>19. ASSUME NEW t \in Threads, Stored(t)
         PROVE  Frames'
    <2>1. /\ \A u \in Threads : thread'[u].co = thread[u].co /\ (u # t => thread'[u].pc = thread[u].pc)
         /\ thread'[t].pc = "stored"
      BY <1>19 DEF Stored
    <2>2. \A x \in Coroutines : Way(x) => Way(x)'
      BY <1>19, <2>1 DEF Stored
    <2>3. \A x \in Coroutines : Way(x)' => Way(x)
      BY <1>19, <2>1 DEF Stored
    <2> HIDE DEF Way
    <2>4. QED
      BY <1>19, <2>1, <2>2, <2>3 DEF Stored
  <1>20. ASSUME NEW t \in Threads, DropTemporary(t)
         PROVE  Frames'
    BY <1>20 DEF DropTemporary, In
  <1>21. ASSUME NEW t \in Threads, Resume(t)
         PROVE  Frames'
    BY <1>21 DEF Resume, In, Goto
  <1>22. ASSUME NEW t \in Threads, ProxyWrites(t)
         PROVE  Frames'
    <2>1. /\ \A u \in Threads : thread'[u].co = thread[u].co /\ (u # t => thread'[u].pc = thread[u].pc)
         /\ thread'[t].pc = "post"
      BY <1>22 DEF ProxyWrites, In
    <2>2. \A x \in Coroutines : Way(x) => Way(x)'
      BY <1>22, <2>1 DEF ProxyWrites, In
    <2>3. \A x \in Coroutines : Way(x)' => Way(x)
      BY <1>22, <2>1 DEF ProxyWrites, In
    <2> HIDE DEF Way
    <2>4. QED
      BY <1>22, <2>1, <2>2, <2>3 DEF ProxyWrites, In
  <1>23. ASSUME NEW t \in Threads, ProxySubmits(t)
         PROVE  Frames'
    BY <1>23, SMTT(40) DEF ProxySubmits, In, Idle
  <1>24. ASSUME NEW t \in Threads, FinalSuspend(t)
         PROVE  Frames'
    BY <1>24 DEF FinalSuspend, DestroyFrame, In, Goto
  <1>25. ASSUME NEW t \in Threads, GivesFuture(t)
         PROVE  Frames'
    BY <1>25 DEF GivesFuture, Idle
  <1>26. ASSUME NEW t \in Threads, GivesNothing(t)
         PROVE  Frames'
    BY <1>26 DEF GivesNothing, Idle
  <1>27. ASSUME NEW c \in Coroutines, Release(c)
         PROVE  Frames'
    BY <1>27 DEF Release
  <1>28. ASSUME NEW c \in Coroutines, DestroyState(c)
         PROVE  Frames'
    BY <1>28 DEF DestroyState
  <1>29. ASSUME NEW c \in Coroutines, DestroyBoth(c)
         PROVE  Frames'
    BY <1>29 DEF DestroyBoth, DestroyFrame
  <1>30. ASSUME NEW c \in Coroutines, TakenInVain(c)
         PROVE  Frames'
    BY <1>30 DEF TakenInVain
  <1>31. ASSUME NEW c \in Coroutines, FetchedInVain(c)
         PROVE  Frames'
    BY <1>31 DEF FetchedInVain
  <1>32. ASSUME NEW c \in Coroutines, DropResumption(c)
         PROVE  Frames'
    BY <1>32 DEF DropResumption
  <1>33. CASE Crash
    BY <1>33 DEF Crash
  <1>34. CASE UNCHANGED vars
    BY <1>34 DEF vars
  <1> HIDE DEF CoroutineAssumption, IInv, TypeOK, Guarded, Blank, Running, Frames, Exclusive, Has, Passed, Way, Owned, RunPc, SuspendPc, ResumePc
  <1> QED
    BY <1>1, <1>2, <1>3, <1>4, <1>5, <1>6, <1>7, <1>8, <1>9, <1>10, <1>11, <1>12, <1>13, <1>14, <1>15, <1>16, <1>17,
       <1>18, <1>19, <1>20, <1>21, <1>22, <1>23, <1>24, <1>25, <1>26, <1>27, <1>28, <1>29, <1>30, <1>31, <1>32, <1>33, <1>34
       DEF Flat

LEMMA RegisteredStep == IInv /\ [Next]_vars => Registered'
  <1> SUFFICES ASSUME IInv, Flat PROVE Registered'
    BY Flattened
  <1> USE CoroutineAssumption DEF CoroutineAssumption, IInv, TypeOK, Guarded, Blank, Running, Frames, Registered, Exclusive, Has, Passed, Owned, RunPc, SuspendPc, ResumePc
  <1>1. ASSUME NEW t \in Threads, NEW c \in Coroutines, CalledGuarded(t, c)
         PROVE  Registered'
    BY <1>1 DEF CalledGuarded
  <1>2. ASSUME NEW t \in Threads, NEW c \in Coroutines, CalledPlain(t, c)
         PROVE  Registered'
    BY <1>2 DEF CalledPlain
  <1>3. ASSUME NEW t \in Threads, NEW c \in Coroutines, NEW d \in Coroutines, AwaitReady(t, c, d)
         PROVE  Registered'
    BY <1>3 DEF AwaitReady, InBody
  <1>4. ASSUME NEW t \in Threads, NEW c \in Coroutines, NEW d \in Coroutines, NEW p \in {"register", "assert"}, AwaitPending(t, c, d, p)
         PROVE  Registered'
    BY <1>4 DEF AwaitPending, Suspended, InBody
  <1>5. ASSUME NEW t \in Threads, NEW c \in Coroutines, NEW p \in {"register", "assert"}, NEW kind \in {"executor", "any"}, AwaitOther(t, c, kind, p)
         PROVE  Registered'
    BY <1>5 DEF AwaitOther, Suspended, InBody
  <1>6. ASSUME NEW t \in Threads, NEW c \in Coroutines, NEW h \in SUBSET handle, HandOver(t, c, h)
         PROVE  Registered'
    BY <1>6 DEF HandOver, InBody
  <1>7. ASSUME NEW t \in Threads, NEW c \in Coroutines, CheckpointPassed(t, c)
         PROVE  Registered'
    BY <1>7 DEF CheckpointPassed, InBody
  <1>8. ASSUME NEW t \in Threads, NEW c \in Coroutines, CheckpointEnds(t, c)
         PROVE  Registered'
    BY <1>8 DEF CheckpointEnds, InBody, DestroyFrame
  <1>9. ASSUME NEW t \in Threads, NEW c \in Coroutines, Attached(t, c)
         PROVE  Registered'
    BY <1>9 DEF Attached
  <1>10. ASSUME NEW t \in Threads, NEW c \in Coroutines, Submitted(t, c)
         PROVE  Registered'
    BY <1>10 DEF Submitted
  <1>11. ASSUME NEW t \in Threads, NEW c \in Coroutines, Proxied(t, c)
         PROVE  Registered'
    BY <1>11 DEF Proxied
  <1>12. ASSUME NEW t \in Threads, NEW c \in Coroutines, NEW h \in {{}, {"state"}}, Taken(t, c, h)
         PROVE  Registered'
    BY <1>12 DEF Taken
  <1>13. ASSUME NEW t \in Threads, NEW c \in Coroutines, NEW h \in {{}, {"state"}}, Fetched(t, c, h)
         PROVE  Registered'
    BY <1>13 DEF Fetched
  <1>14. ASSUME NEW t \in Threads, NEW c \in Coroutines, ForeignResumes(t, c)
         PROVE  Registered'
    BY <1>14 DEF ForeignResumes, In
  <1>15. ASSUME NEW t \in Threads, NEW c \in Coroutines, ReturnsTo(t, c)
         PROVE  Registered'
    BY <1>15 DEF ReturnsTo
  <1>16. ASSUME NEW t \in Threads, NEW c \in Coroutines, ReturnsToNobody(t, c)
         PROVE  Registered'
    BY <1>16 DEF ReturnsToNobody
  <1>17. ASSUME NEW t \in Threads, NEW c \in Coroutines, Settle(t, c)
         PROVE  Registered'
    BY <1>17 DEF Settle, In
  <1>18. ASSUME NEW t \in Threads, Asserted(t)
         PROVE  Registered'
    BY <1>18 DEF Asserted
  <1>19. ASSUME NEW t \in Threads, Stored(t)
         PROVE  Registered'
    BY <1>19 DEF Stored
  <1>20. ASSUME NEW t \in Threads, DropTemporary(t)
         PROVE  Registered'
    BY <1>20 DEF DropTemporary, In, Alive
  <1>21. ASSUME NEW t \in Threads, Resume(t)
         PROVE  Registered'
    BY <1>21 DEF Resume, In, Goto
  <1>22. ASSUME NEW t \in Threads, ProxyWrites(t)
         PROVE  Registered'
    BY <1>22 DEF ProxyWrites, In
  <1>23. ASSUME NEW t \in Threads, ProxySubmits(t)
         PROVE  Registered'
    BY <1>23 DEF ProxySubmits, In, Idle
  <1>24. ASSUME NEW t \in Threads, FinalSuspend(t)
         PROVE  Registered'
    BY <1>24 DEF FinalSuspend, DestroyFrame, In, Goto
  <1>25. ASSUME NEW t \in Threads, GivesFuture(t)
         PROVE  Registered'
    BY <1>25 DEF GivesFuture, Idle
  <1>26. ASSUME NEW t \in Threads, GivesNothing(t)
         PROVE  Registered'
    BY <1>26 DEF GivesNothing, Idle
  <1>27. ASSUME NEW c \in Coroutines, Release(c)
         PROVE  Registered'
    BY <1>27 DEF Release
  <1>28. ASSUME NEW c \in Coroutines, DestroyState(c)
         PROVE  Registered'
    BY <1>28 DEF DestroyState
  <1>29. ASSUME NEW c \in Coroutines, DestroyBoth(c)
         PROVE  Registered'
    BY <1>29 DEF DestroyBoth, DestroyFrame
  <1>30. ASSUME NEW c \in Coroutines, TakenInVain(c)
         PROVE  Registered'
    BY <1>30 DEF TakenInVain
  <1>31. ASSUME NEW c \in Coroutines, FetchedInVain(c)
         PROVE  Registered'
    BY <1>31 DEF FetchedInVain
  <1>32. ASSUME NEW c \in Coroutines, DropResumption(c)
         PROVE  Registered'
    BY <1>32 DEF DropResumption
  <1>33. CASE Crash
    BY <1>33 DEF Crash
  <1>34. CASE UNCHANGED vars
    BY <1>34 DEF vars
  <1> HIDE DEF CoroutineAssumption, IInv, TypeOK, Guarded, Blank, Running, Frames, Registered, Exclusive, Has, Passed, Owned, RunPc, SuspendPc, ResumePc
  <1> QED
    BY <1>1, <1>2, <1>3, <1>4, <1>5, <1>6, <1>7, <1>8, <1>9, <1>10, <1>11, <1>12, <1>13, <1>14, <1>15, <1>16, <1>17,
       <1>18, <1>19, <1>20, <1>21, <1>22, <1>23, <1>24, <1>25, <1>26, <1>27, <1>28, <1>29, <1>30, <1>31, <1>32, <1>33, <1>34
       DEF Flat

LEMMA CoveredStep == IInv /\ [Next]_vars => Covered'
  <1> SUFFICES ASSUME IInv, Flat PROVE Covered'
    BY Flattened
  <1> USE AliveStep, CoroutineAssumption DEF CoroutineAssumption, IInv, TypeOK, Guarded, Blank, Running, Frames, Registered, Awaited, Exclusive, Covered, Has, Passed, Way, Owned, RunPc, SuspendPc, ResumePc
  <1>1. ASSUME NEW t \in Threads, NEW c \in Coroutines, CalledGuarded(t, c)
         PROVE  Covered'
    <2>1. \A u \in Threads : u # t => thread'[u] = thread[u]
      BY <1>1 DEF CalledGuarded, CalledPlain
    <2>2. thread[t].pc = "idle" /\ frame'[c] = "running"
      BY <1>1 DEF CalledGuarded, CalledPlain
    <2>3. \A x \in Coroutines : Way(x) => Way(x)'
      BY <1>1, <2>1, <2>2 DEF CalledGuarded, CalledPlain
    <2> HIDE DEF Way
    <2>4. QED
      BY <1>1, <2>2, <2>3 DEF CalledGuarded, CalledPlain
  <1>2. ASSUME NEW t \in Threads, NEW c \in Coroutines, CalledPlain(t, c)
         PROVE  Covered'
    <2>1. \A u \in Threads : u # t => thread'[u] = thread[u]
      BY <1>2 DEF CalledGuarded, CalledPlain
    <2>2. thread[t].pc = "idle" /\ frame'[c] = "running"
      BY <1>2 DEF CalledGuarded, CalledPlain
    <2>3. \A x \in Coroutines : Way(x) => Way(x)'
      BY <1>2, <2>1, <2>2 DEF CalledGuarded, CalledPlain
    <2> HIDE DEF Way
    <2>4. QED
      BY <1>2, <2>2, <2>3 DEF CalledGuarded, CalledPlain
  <1>3. ASSUME NEW t \in Threads, NEW c \in Coroutines, NEW d \in Coroutines, AwaitReady(t, c, d)
         PROVE  Covered'
    BY <1>3 DEF AwaitReady, InBody
  <1>4. ASSUME NEW t \in Threads, NEW c \in Coroutines, NEW d \in Coroutines, NEW p \in {"register", "assert"}, AwaitPending(t, c, d, p)
         PROVE  Covered'
    <2>1. /\ \A u \in Threads : thread'[u].co = thread[u].co /\ (u # t => thread'[u].pc = thread[u].pc)
         /\ thread[t].pc = "body" /\ thread[t].co = c /\ thread'[t].pc = p
      BY <1>4 DEF AwaitPending, Suspended, InBody
    <2>2. \A x \in Coroutines : Way(x) => Way(x)'
      BY <1>4, <2>1 DEF AwaitPending, Suspended
    <2>3. Way(c)'
      BY <2>1
    <2> HIDE DEF Way
    <2>4. QED
      BY <1>4, <2>1, <2>2, <2>3 DEF AwaitPending, Suspended
  <1>5. ASSUME NEW t \in Threads, NEW c \in Coroutines, NEW p \in {"register", "assert"}, NEW kind \in {"executor", "any"}, AwaitOther(t, c, kind, p)
         PROVE  Covered'
    BY <1>5, SMTT(40) DEF AwaitOther, Suspended, InBody
  <1>6. ASSUME NEW t \in Threads, NEW c \in Coroutines, NEW h \in SUBSET handle, HandOver(t, c, h)
         PROVE  Covered'
    BY <1>6 DEF HandOver, InBody
  <1>7. ASSUME NEW t \in Threads, NEW c \in Coroutines, CheckpointPassed(t, c)
         PROVE  Covered'
    BY <1>7, SMTT(40) DEF CheckpointPassed, InBody
  <1>8. ASSUME NEW t \in Threads, NEW c \in Coroutines, CheckpointEnds(t, c)
         PROVE  Covered'
    BY <1>8, SMTT(40) DEF CheckpointEnds, InBody, DestroyFrame
  <1>9. ASSUME NEW t \in Threads, NEW c \in Coroutines, Attached(t, c)
         PROVE  Covered'
    BY <1>9 DEF Attached
  <1>10. ASSUME NEW t \in Threads, NEW c \in Coroutines, Submitted(t, c)
         PROVE  Covered'
    BY <1>10 DEF Submitted
  <1>11. ASSUME NEW t \in Threads, NEW c \in Coroutines, Proxied(t, c)
         PROVE  Covered'
    BY <1>11, SMTT(40) DEF Proxied
  <1>12. ASSUME NEW t \in Threads, NEW c \in Coroutines, NEW h \in {{}, {"state"}}, Taken(t, c, h)
         PROVE  Covered'
    BY <1>12 DEF Taken
  <1>13. ASSUME NEW t \in Threads, NEW c \in Coroutines, NEW h \in {{}, {"state"}}, Fetched(t, c, h)
         PROVE  Covered'
    BY <1>13 DEF Fetched
  <1>14. ASSUME NEW t \in Threads, NEW c \in Coroutines, ForeignResumes(t, c)
         PROVE  Covered'
    BY <1>14 DEF ForeignResumes, In
  <1>15. ASSUME NEW t \in Threads, NEW c \in Coroutines, ReturnsTo(t, c)
         PROVE  Covered'
    <2>1. /\ \A u \in Threads : thread'[u].co = thread[u].co /\ (u # t => thread'[u].pc = thread[u].pc)
         /\ thread'[t].pc = "settle"
      BY <1>15 DEF ReturnsTo
    <2>2. \A x \in Coroutines : Way(x) => Way(x)'
      BY <1>15, <2>1 DEF ReturnsTo
    <2>3. \A x \in Coroutines : Way(x)' => Way(x)
      BY <1>15, <2>1 DEF ReturnsTo
    <2> HIDE DEF Way
    <2>4. QED
      BY <1>15, <2>1, <2>2, <2>3 DEF ReturnsTo
  <1>16. ASSUME NEW t \in Threads, NEW c \in Coroutines, ReturnsToNobody(t, c)
         PROVE  Covered'
    <2>1. /\ \A u \in Threads : thread'[u].co = thread[u].co /\ (u # t => thread'[u].pc = thread[u].pc)
         /\ thread'[t].pc = "final"
      BY <1>16 DEF ReturnsToNobody
    <2>2. \A x \in Coroutines : Way(x) => Way(x)'
      BY <1>16, <2>1 DEF ReturnsToNobody
    <2>3. \A x \in Coroutines : Way(x)' => Way(x)
      BY <1>16, <2>1 DEF ReturnsToNobody
    <2> HIDE DEF Way
    <2>4. QED
      BY <1>16, <2>1, <2>2, <2>3 DEF ReturnsToNobody
  <1>17. ASSUME NEW t \in Threads, NEW c \in Coroutines, Settle(t, c)
         PROVE  Covered'
    <2>1. /\ \A u \in Threads : thread'[u].co = thread[u].co /\ (u # t => thread'[u].pc = thread[u].pc)
         /\ thread'[t].pc = "final"
      BY <1>17 DEF Settle, In
    <2>2. \A x \in Coroutines : Way(x) => Way(x)'
      BY <1>17, <2>1 DEF Settle, In
    <2>3. \A x \in Coroutines : Way(x)' => Way(x)
      BY <1>17, <2>1 DEF Settle, In
    <2> HIDE DEF Way
    <2>4. QED
      BY <1>17, <2>1, <2>2, <2>3 DEF Settle, In
  <1>18. ASSUME NEW t \in Threads, Asserted(t)
         PROVE  Covered'
    BY <1>18 DEF Asserted
  <1>19. ASSUME NEW t \in Threads, Stored(t)
         PROVE  Covered'
    <2>1. /\ \A u \in Threads : thread'[u].co = thread[u].co /\ (u # t => thread'[u].pc = thread[u].pc)
         /\ thread'[t].pc = "stored"
      BY <1>19 DEF Stored
    <2>2. \A x \in Coroutines : Way(x) => Way(x)'
      BY <1>19, <2>1 DEF Stored
    <2>3. \A x \in Coroutines : Way(x)' => Way(x)
      BY <1>19, <2>1 DEF Stored
    <2> HIDE DEF Way
    <2>4. QED
      BY <1>19, <2>1, <2>2, <2>3 DEF Stored
  <1>20. ASSUME NEW t \in Threads, DropTemporary(t)
         PROVE  Covered'
    BY <1>20, SMTT(40) DEF DropTemporary, In
  <1>21. ASSUME NEW t \in Threads, Resume(t)
         PROVE  Covered'
    BY <1>21, SMTT(40) DEF Resume, In, Goto
  <1>22. ASSUME NEW t \in Threads, ProxyWrites(t)
         PROVE  Covered'
    <2>1. /\ \A u \in Threads : thread'[u].co = thread[u].co /\ (u # t => thread'[u].pc = thread[u].pc)
         /\ thread'[t].pc = "post"
      BY <1>22 DEF ProxyWrites, In
    <2>2. \A x \in Coroutines : Way(x) => Way(x)'
      BY <1>22, <2>1 DEF ProxyWrites, In
    <2>3. \A x \in Coroutines : Way(x)' => Way(x)
      BY <1>22, <2>1 DEF ProxyWrites, In
    <2> HIDE DEF Way
    <2>4. QED
      BY <1>22, <2>1, <2>2, <2>3 DEF ProxyWrites, In
  <1>23. ASSUME NEW t \in Threads, ProxySubmits(t)
         PROVE  Covered'
    BY <1>23 DEF ProxySubmits, In, Idle
  <1>24. ASSUME NEW t \in Threads, FinalSuspend(t)
         PROVE  Covered'
    <2>1. /\ \A u \in Threads : thread'[u].co = thread[u].co /\ (u # t => thread'[u].pc = thread[u].pc)
         /\ thread'[t].pc = "return"
      BY <1>24 DEF FinalSuspend, DestroyFrame, In, Goto
    <2>2. \A x \in Coroutines : Way(x) => Way(x)'
      BY <1>24, <2>1 DEF FinalSuspend, DestroyFrame, In, Goto
    <2>3. \A x \in Coroutines : Way(x)' => Way(x)
      BY <1>24, <2>1 DEF FinalSuspend, DestroyFrame, In, Goto
    <2> HIDE DEF Way
    <2>4. QED
      BY <1>24, <2>1, <2>2, <2>3 DEF FinalSuspend, DestroyFrame, In, Goto
  <1>25. ASSUME NEW t \in Threads, GivesFuture(t)
         PROVE  Covered'
    BY <1>25 DEF GivesFuture, Idle
  <1>26. ASSUME NEW t \in Threads, GivesNothing(t)
         PROVE  Covered'
    BY <1>26 DEF GivesNothing, Idle
  <1>27. ASSUME NEW c \in Coroutines, Release(c)
         PROVE  Covered'
    BY <1>27 DEF Release
  <1>28. ASSUME NEW c \in Coroutines, DestroyState(c)
         PROVE  Covered'
    BY <1>28 DEF DestroyState, Alive
  <1>29. ASSUME NEW c \in Coroutines, DestroyBoth(c)
         PROVE  Covered'
    BY <1>29 DEF DestroyBoth, DestroyFrame, Alive
  <1>30. ASSUME NEW c \in Coroutines, TakenInVain(c)
         PROVE  Covered'
    BY <1>30 DEF TakenInVain
  <1>31. ASSUME NEW c \in Coroutines, FetchedInVain(c)
         PROVE  Covered'
    BY <1>31 DEF FetchedInVain
  <1>32. ASSUME NEW c \in Coroutines, DropResumption(c)
         PROVE  Covered'
    BY <1>32 DEF DropResumption
  <1>33. CASE Crash
    BY <1>33 DEF Crash
  <1>34. CASE UNCHANGED vars
    BY <1>34 DEF vars
  <1> HIDE DEF CoroutineAssumption, IInv, TypeOK, Guarded, Blank, Running, Frames, Registered, Awaited, Exclusive, Covered, Has, Passed, Way, Owned, RunPc, SuspendPc, ResumePc
  <1> QED
    BY <1>1, <1>2, <1>3, <1>4, <1>5, <1>6, <1>7, <1>8, <1>9, <1>10, <1>11, <1>12, <1>13, <1>14, <1>15, <1>16, <1>17,
       <1>18, <1>19, <1>20, <1>21, <1>22, <1>23, <1>24, <1>25, <1>26, <1>27, <1>28, <1>29, <1>30, <1>31, <1>32, <1>33, <1>34
       DEF Flat

-----------------------------------------------------------------------------
LEMMA InitInv == Init => IInv
  <1> SUFFICES ASSUME Init PROVE IInv
    OBVIOUS
  <1> USE CoroutineAssumption DEF CoroutineAssumption, Init, Idle
  <1>1. TypeOK
    <2>1. thread \in [Threads -> [co : Coroutines \cup {None},
            pc : {"idle", "resume", "body", "assert", "store", "stored", "register",
                  "settle", "final", "write", "post", "return"},
            holds : SUBSET {"future", "state", "temporary"}]]
      OBVIOUS
    <2>2. awaits \in [Coroutines -> Nat] /\ \A c \in Coroutines : awaits[c] <= MaxAwaits[c]
      OBVIOUS
    <2>3. QED
      BY <2>1, <2>2 DEF TypeOK, Guarded
  <1>2. Blank /\ Running
    BY DEF Blank, Running, RunPc
  <1>3. \A c \in Coroutines : ~Way(c) /\ ~Passed(c)
    BY DEF Way, Passed, SuspendPc, ResumePc
  <1>4. Frames
    BY <1>3 DEF Frames
  <1>5. Registered /\ Awaited
    BY <1>3 DEF Registered, Awaited
  <1>6. Exclusive
    BY <1>3 DEF Exclusive, Has, RunPc, SuspendPc, ResumePc
  <1>7. Covered
    BY DEF Covered
  <1>8. QED
    BY <1>1, <1>2, <1>4, <1>5, <1>6, <1>7 DEF IInv

LEMMA StepInv == IInv /\ [Next]_vars => IInv'
  BY TypeStep, BlankStep, RunningStep, FramesStep, RegisteredStep, AwaitedStep,
     ExclusiveStep, CoveredStep DEF IInv

LEMMA Invariant == Spec => []IInv
  BY InitInv, StepInv, PTL DEF Spec

\* The state of the model is always of its type.
THEOREM Typing == Spec => []TypeOK
  <1>1. IInv => TypeOK
    BY DEF IInv
  <1>2. QED
    BY <1>1, Invariant, PTL

\* An owner that is inside the body of a coroutine holds its shared state, unless
\* _co_handle is cleared.
LEMMA RunnerHolds ==
  ASSUME IInv, NEW c \in Coroutines, Owned(c), ~Alive(c)
  PROVE  frame[c] = "suspended"
  <1>1. frame[c] # "none" /\ frame[c] # "destroyed"
    BY DEF IInv, Blank, Frames, Owned
  <1>2. ASSUME frame[c] = "running" PROVE FALSE
    <2>1. PICK t \in Threads : thread[t].co = c /\ thread[t].pc \in RunPc
      BY <1>2 DEF IInv, Frames
    <2>2. thread[t].holds # {}
      BY <2>1 DEF IInv, Running, RunPc
    <2>3. QED
      BY <2>1, <2>2 DEF Alive
  <1>3. QED
    BY <1>1, <1>2 DEF IInv, TypeOK

\* Whoever resumes a coroutine, or writes into its awaiter, finds it suspended and
\* what it awaited settled; and a shared state that is destroyed destroys a suspended
\* frame only (future.hpp:1997 and 1936, 2024).
THEOREM SafeFrames == Spec => []FramesSafe
  <1>1. ASSUME IInv PROVE FramesSafe
    <2>1. TypeOK
      BY <1>1 DEF IInv
    <2>2. ASSUME NEW t \in Threads, thread[t].pc \in {"resume", "write"}
          PROVE  frame[thread[t].co] = "suspended"
      <3>1. thread[t].co \in Coroutines
        BY <1>1, <2>2, InCoroutine DEF IInv
      <3>2. QED
        BY <1>1, <2>2, <3>1 DEF IInv, Running
    <2>3. ASSUME NEW t \in Threads, In(t, "resume"), input[thread[t].co] # None
          PROVE  input[thread[t].co] \in ready
      <3>1. thread[t].co \in Coroutines
        BY <1>1, <2>3, InCoroutine DEF IInv, In
      <3>2. QED
        BY <1>1, <2>3, <3>1 DEF IInv, Awaited, In
    <2>4. ASSUME NEW c \in handle \ gone, ~Alive(c) PROVE frame[c] = "suspended"
      BY <1>1, <2>4, RunnerHolds DEF IInv, TypeOK, Owned, Guarded
    <2>5. QED
      BY <2>1, <2>2, <2>3, <2>4 DEF FramesSafe
  <1>2. QED
    BY <1>1, Invariant, PTL

\* The number of ways on is 1 for a coroutine that has one, and else 0.
LEMMA OwnersCount ==
  ASSUME IInv, NEW c \in Coroutines
  PROVE  Owners(c) = IF Way(c) THEN 1 ELSE 0
  <1> DEFINE T == {t \in Threads : thread[t].co = c /\ thread[t].pc \in {"resume", "write", "post",
                     "assert", "store", "stored", "register"}}
             D == {d \in Coroutines : c \in then[d]}
             P == {s \in {posted, proxied} : c \in s}
             F == IF at[c] = "foreign" THEN 1 ELSE 0
  <1>1. Owners(c) = Cardinality(T) + Cardinality(D) + Cardinality(P) + F
    BY DEF Owners
  <1>2. \A t \in Threads : t \in T <=> thread[t].co = c /\ thread[t].pc \in SuspendPc \cup ResumePc
    BY DEF SuspendPc, ResumePc
  <1>3. \A t \in T : Has(t, c)
    BY <1>2 DEF Has
  <1>4. T = {} \/ \E t \in T : T = {t}
    BY <1>3 DEF IInv, Exclusive
  <1>5. D = {} \/ \E d \in D : D = {d}
    BY DEF IInv, Exclusive
  <1>6. P = {} \/ \E s \in P : P = {s}
    BY DEF IInv, Exclusive
  <1>7. /\ Cardinality(T) = IF T = {} THEN 0 ELSE 1
        /\ Cardinality(D) = IF D = {} THEN 0 ELSE 1
        /\ Cardinality(P) = IF P = {} THEN 0 ELSE 1
    BY <1>4, <1>5, <1>6, FS_Singleton, FS_EmptySet, ZenonT(60)
  <1>8. Passed(c) <=> D # {} \/ P # {}
    BY DEF Passed
  <1>9. Way(c) <=> T # {} \/ D # {} \/ P # {} \/ F = 1
    BY <1>2, <1>8 DEF Way
  <1>10. T # {} => D = {} /\ P = {} /\ F = 0
    BY <1>3, <1>8 DEF IInv, Exclusive
  <1>11. D # {} \/ P # {} => F = 0
    BY <1>8 DEF IInv, Exclusive
  <1>12. D # {} => P = {}
    BY DEF IInv, Exclusive
  <1>13. F = 0 \/ F = 1
    OBVIOUS
  <1> HIDE DEF T, D, P, F
  <1>14. QED
    BY <1>1, <1>7, <1>9, <1>10, <1>11, <1>12, <1>13

\* A suspended frame is neither lost nor resumed twice: there is exactly one way on,
\* or none when the destructor of its shared state is about to destroy it.
THEOREM OneWay == Spec => []OneWayOn
  <1>1. ASSUME IInv PROVE OneWayOn
    <2> SUFFICES ASSUME ~crashed, NEW c \in Coroutines, frame[c] = "suspended", c \notin lost
                 PROVE  \/ Owners(c) = 1
                        \/ Owners(c) = 0 /\ c \in handle \ gone /\ ~Alive(c)
      BY DEF OneWayOn
    <2>1. Way(c) \/ (Owned(c) /\ ~Alive(c))
      BY <1>1 DEF IInv, Covered
    <2>2. QED
      BY <1>1, <2>1, OwnersCount DEF Owned
  <1>2. QED
    BY <1>1, Invariant, PTL

\* A coroutine whose last future is released while it waits for a future, an executor
\* or another awaitable is not resumed (future.hpp:2021).
THEOREM Released == Spec => NotResumedOnceReleased
  <1>1. ASSUME IInv, [Next]_vars PROVE NotResumed
    <2> SUFFICES ASSUME NEW x \in Coroutines \ plain, frame[x] = "suspended",
                        at[x] \in {"future", "executor", "any"}, ~Alive(x)
                 PROVE  frame'[x] # "running"
      BY DEF NotResumed
    <2>1. Flat
      BY <1>1, Flattened
    <2>2. CASE frame' = frame
      BY <2>2
    <2>3. ASSUME NEW t \in Threads, Resume(t) PROVE frame'[x] # "running"
      <3>1. thread[t].co # x
        BY <1>1, <2>3 DEF Resume, In, IInv, Running, Guarded, Alive
      <3>2. QED
        BY <1>1, <2>3, <3>1 DEF Resume, IInv, TypeOK
    <2>4. ASSUME NEW t \in Threads, NEW c \in Coroutines, CalledGuarded(t, c) \/ CalledPlain(t, c)
          PROVE  frame'[x] # "running"
      <3>1. c # x
        BY <2>4 DEF CalledGuarded, CalledPlain
      <3>2. frame' = [frame EXCEPT ![c] = "running"]
        BY <2>4 DEF CalledGuarded, CalledPlain
      <3>3. QED
        BY <1>1, <3>1, <3>2 DEF IInv, TypeOK
    <2>5. ASSUME NEW c, frame' = [frame EXCEPT ![c] = "suspended"] PROVE frame'[x] # "running"
      BY <1>1, <2>5 DEF IInv, TypeOK
    <2>6. ASSUME NEW c, DestroyFrame(c) PROVE frame'[x] # "running"
      BY <1>1, <2>6 DEF IInv, TypeOK, DestroyFrame
    <2>7. ASSUME NEW t \in Threads, NEW c \in Coroutines, NEW d, NEW h,
                 \/ AwaitReady(t, c, d) \/ CheckpointPassed(t, c) \/ Attached(t, c)
                 \/ Submitted(t, c) \/ Proxied(t, c) \/ Taken(t, c, h) \/ Fetched(t, c, h)
                 \/ ForeignResumes(t, c) \/ ReturnsTo(t, c) \/ ReturnsToNobody(t, c)
                 \/ Settle(t, c)
          PROVE  frame' = frame
      BY <2>7 DEF AwaitReady, CheckpointPassed, Attached, Submitted, Proxied, Taken, Fetched,
                  ForeignResumes, ReturnsTo, ReturnsToNobody, Settle
    <2>8. ASSUME NEW t, NEW c, NEW d, NEW h, NEW p, NEW kind,
                 \/ AwaitPending(t, c, d, p) \/ AwaitOther(t, c, kind, p) \/ HandOver(t, c, h)
          PROVE  frame' = [frame EXCEPT ![c] = "suspended"]
      BY <2>8 DEF AwaitPending, AwaitOther, Suspended, HandOver
    <2>9. ASSUME NEW t, NEW c, CheckpointEnds(t, c) \/ DestroyBoth(c) PROVE DestroyFrame(c)
      BY <2>9 DEF CheckpointEnds, DestroyBoth
    <2>10. ASSUME NEW t, FinalSuspend(t) PROVE DestroyFrame(thread[t].co)
      BY <2>10 DEF FinalSuspend
    <2>11. CASE Crash \/ UNCHANGED vars
      BY <2>11 DEF Crash, vars
    <2>12. ASSUME NEW t \in Threads,
                 \/ Asserted(t) \/ Stored(t) \/ DropTemporary(t)
                 \/ ProxyWrites(t) \/ ProxySubmits(t) \/ GivesFuture(t) \/ GivesNothing(t)
          PROVE  frame' = frame
      BY <2>12 DEF Asserted, Stored, DropTemporary, ProxyWrites, ProxySubmits, GivesFuture,
                   GivesNothing
    <2>13. ASSUME NEW c \in Coroutines,
                 \/ Release(c) \/ DestroyState(c) \/ TakenInVain(c) \/ FetchedInVain(c)
                 \/ DropResumption(c)
          PROVE  frame' = frame
      BY <2>13 DEF Release, DestroyState, TakenInVain, FetchedInVain, DropResumption
    <2>14. QED
      BY <2>1, <2>2, <2>3, <2>4, <2>5, <2>6, <2>7, <2>8, <2>9, <2>10, <2>11, <2>12, <2>13
         DEF Flat
  <1>2. IInv /\ [Next]_vars => [NotResumed]_vars
    BY <1>1
  <1>3. QED
    BY <1>2, Invariant, PTL DEF Spec, NotResumedOnceReleased

=============================================================================
