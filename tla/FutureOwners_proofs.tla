-------------------------- MODULE FutureOwners_proofs --------------------------
(***************************************************************************)
(* Proofs about who keeps a future alive, in Future: what the living states *)
(* are, that none comes back, that a future someone attaches to or reads is *)
(* alive with its value, and that a living one has someone to complete it.  *)
(* The inductive invariant adds to that of Future_proofs who may refer to a *)
(* future, above all to a move-only one.                                   *)
(*                                                                         *)
(* On it rests the proof that Future implements FutureContract, at the end  *)
(* of the module.                                                           *)
(***************************************************************************)
EXTENDS Future_proofs

\* What each member refers to from its creation on.
Origins ==
    /\ \A d \in Futures :
          /\ kind[d] = "none" => result[d] = "none" /\ hold[d] = NoFuture
          /\ kind[d] # "none" => task[d] # "none"
          /\ kind[d] \in {"none", "async", "ready"} <=> at[d] = NoFuture
          /\ kind[d] = "watch" => src[d] = NoFuture
          /\ at[d] # NoFuture => IsFuture(at[d])
          /\ hold[d] # NoFuture =>
                kind[hold[d]] = "hold" /\ into[hold[d]] = d /\ kind[d] # "hold"
          /\ invoke[d] \in {"attach", "call", "keep"} => hold[d] # NoFuture
          /\ invoke[d] = "relay" => kind[d] = "hold"
          /\ kind[d] = "hold" => exec[d] = "immediate" /\ task[d] # "queued"
    /\ \A c \in Clients : \A s \in handles[c] : Visible(s)

\* A call is about to return a future, or a callback, that no other call has.
Returning ==
    /\ \A c \in Clients : op[c].pc \in {"idle", "take"} <=> op[c].d = NoFuture
    /\ \A c \in Clients : op[c].pc = "call" =>
          task[op[c].d] \in {"called", "spent"} /\ kind[op[c].d] # "hold"
    /\ \A b, c \in Clients : op[b].d = op[c].d /\ op[c].d # NoFuture => b = c

\* The future a client attaches to or takes from is in its hand or in the function.
InHand ==
    /\ \A c \in Clients : op[c].pc = "attach" =>
          \/ kind[op[c].d] = "watch" /\ op[c].s \in handles[c]
          \/ src[op[c].d] = op[c].s
    /\ \A c \in Clients : op[c].pc = "take" => op[c].s \in handles[c]

\* A move-only future is referred to by one client, call or function: a client holds it
\* alone; while one does no function has it; while a call is to return it neither a client
\* nor a function has it; one function has it; only the call that attaches to it has done
\* so; and the one inside a reduction is the reduction's.
HeldOnce == \A b, c \in Clients : \A s \in Futures : s \in handles[b] /\ s \in handles[c] => b = c

HeldWhole == \A c \in Clients : \A d \in Futures : at[d] \in handles[c] => kind[d] = "watch"

NotGiven ==
    \A c \in Clients : op[c].d # NoFuture /\ IsFuture(op[c].d) =>
        /\ \A b \in Clients : op[c].d \notin handles[b]
        /\ \A d \in Futures : at[d] # op[c].d

ConsumedOnce ==
    \A d, e \in Futures : at[d] = at[e] /\ at[d] # NoFuture
                             /\ kind[d] # "watch" /\ kind[e] # "watch" => d = e

AttachedOnce ==
    \A c \in Clients : op[c].pc = "attach" => \A d \in Futures : at[d] = op[c].s => d = op[c].d

Inside ==
    \A h \in Futures : kind[h] = "hold" =>
        /\ \A d \in Futures : at[d] = at[h] => d = h
        /\ \A c \in Clients : at[h] \notin handles[c] /\ op[c].d # at[h]

OneOwner ==
    MoveOnly => HeldOnce /\ HeldWhole /\ NotGiven /\ ConsumedOnce /\ AttachedOnce /\ Inside

\* An attached continuation is in a list of the future it waits for.
Listed ==
    \A d \in Futures : task[d] = "attached" =>
        at[d] \in Futures /\ d \in Range(then[at[d]]) \cup Range(todo[at[d]])

\* A settled future has a result, and nobody is left to read a value moved out: the owner
\* of a move-only future still has it, but is not taking from it.
Unread(s) ==
    /\ \A c \in Clients :
          /\ s \in handles[c] => MoveOnly /\ ~(op[c].pc = "take" /\ op[c].s = s)
          /\ op[c].d # s
    /\ \A d \in Live : src[d] = s => invoke[d] \notin {"idle", "run"}

HasResult == \A d \in Futures : ready[d] \/ settle[d] # "idle" => result[d] # "none"

MovedUnread == \A s \in Futures : result[s] = "moved" => ready[s] /\ Unread(s)

\* A client that may move the value out of s is the only one to refer to s.
Alone(c, s) ==
    /\ \A b \in Clients : s \in handles[b] => b = c
    /\ \A b \in Clients : op[b].d # s
    /\ \A d \in Live : src[d] # s

TakesAlone ==
    \A c \in Clients : op[c].pc = "take" /\ op[c].unique => Alone(c, op[c].s)

Results == HasResult /\ MovedUnread /\ TakesAlone

\* A living future whose task is spent is being completed, or waits for its reduction.
Produced ==
    /\ \A d \in Live : IsFuture(d) /\ task[d] = "spent" /\ ~ready[d] =>
          Running(d) \/ hold[d] # NoFuture
    /\ \A h \in Futures : kind[h] = "hold" =>
          /\ invoke[h] = "relay" => settle[into[h]] # "idle"
          /\ settle[h] # "idle" => into[h] \notin Live \/ settle[into[h]] = "done"

LInv == IInv /\ Origins /\ Returning /\ InHand /\ OneOwner /\ Listed /\ Results /\ Produced

-----------------------------------------------------------------------------
(***************************************************************************)
(* The actions of Future with their conditionals resolved.                 *)
(***************************************************************************)
Enters(c, p, s, d, u) ==
    /\ \A b \in Clients : b # c => op'[b] = op[b]
    /\ op'[c].pc = p /\ op'[c].s = s /\ op'[c].d = d /\ op'[c].unique = u

AsyncMade(c, d, e) ==
    /\ op[c].pc = "idle" /\ kind[d] = "none"
    /\ kind' = [kind EXCEPT ![d] = "async"]
    /\ exec' = [exec EXCEPT ![d] = e]
    /\ task' = [task EXCEPT ![d] = "local"]
    /\ Enters(c, "submit", NoFuture, d, FALSE)
    /\ UNCHANGED << at, src, into, hold, then, ready, result, invoke, settle, todo, handles >>

ReadyMade(c, d, r) ==
    /\ op[c].pc = "idle" /\ kind[d] = "none"
    /\ r \in {"value", "error", "broken"}
    /\ kind' = [kind EXCEPT ![d] = "ready"]
    /\ task' = [task EXCEPT ![d] = "spent"]
    /\ ready' = [ready EXCEPT ![d] = TRUE]
    /\ result' = [result EXCEPT ![d] = r]
    /\ handles' = [handles EXCEPT ![c] = @ \cup {d}]
    /\ UNCHANGED << exec, at, src, into, hold, then, invoke, settle, todo, op >>

Watches(c, s, d, e) ==
    /\ op[c].pc = "idle" /\ kind[d] = "none" /\ s \in handles[c] /\ ~SlotUsed(s)
    /\ kind' = [kind EXCEPT ![d] = "watch"]
    /\ exec' = [exec EXCEPT ![d] = e]
    /\ at' = [at EXCEPT ![d] = s]
    /\ task' = [task EXCEPT ![d] = "local"]
    /\ Enters(c, "attach", s, d, FALSE)
    /\ UNCHANGED << src, into, hold, then, ready, result, invoke, settle, todo, handles >>

Chains(c, s, d, k, e, H) ==
    /\ op[c].pc = "idle" /\ kind[d] = "none" /\ s \in handles[c] /\ ~SlotUsed(s) /\ ~Spent(s)
    /\ k \in {"then", "recover", "detach"}
    /\ H \subseteq handles[c] /\ handles[c] \subseteq H \cup {s} /\ (MoveOnly => s \notin H)
    /\ kind' = [kind EXCEPT ![d] = k]
    /\ exec' = [exec EXCEPT ![d] = e]
    /\ at' = [at EXCEPT ![d] = s]
    /\ src' = [src EXCEPT ![d] = s]
    /\ task' = [task EXCEPT ![d] = "local"]
    /\ handles' = [handles EXCEPT ![c] = H]
    /\ Enters(c, "attach", s, d, FALSE)
    /\ UNCHANGED << into, hold, then, ready, result, invoke, settle, todo >>

AttachLate(c) ==
    /\ op[c].pc = "attach" /\ ready[op[c].s]
    /\ op' = [op EXCEPT ![c].pc = "submit"]
    /\ UNCHANGED << kind, exec, at, src, into, hold, task, then, ready, result, invoke, settle,
                    todo, handles >>

\* The future, if the call makes one, that it gives to its client.
Gift(d) == IF IsFuture(d) THEN {d} ELSE {}

AttachFirst(c, s, d) ==
    /\ op[c].pc = "attach" /\ s = op[c].s /\ d = op[c].d /\ ~ready[s]
    /\ then' = [then EXCEPT ![s] = Extended(@, d)]
    /\ task' = [task EXCEPT ![d] = "attached"]
    /\ handles' = [handles EXCEPT ![c] = @ \cup Gift(d)]
    /\ op' = [op EXCEPT ![c] = NoOp]
    /\ UNCHANGED << kind, exec, at, src, into, hold, ready, result, invoke, settle, todo >>

SubmitCalls(c, d) ==
    /\ op[c].pc = "submit" /\ d = op[c].d
    /\ task' = [task EXCEPT ![d] = "called"]
    /\ op' = [op EXCEPT ![c].pc = "call"]
    /\ UNCHANGED << kind, exec, at, src, into, hold, then, ready, result, invoke, settle, todo,
                    handles >>

SubmitQueues(c, d) ==
    /\ op[c].pc = "submit" /\ d = op[c].d
    /\ task' = [task EXCEPT ![d] = "queued"]
    /\ handles' = [handles EXCEPT ![c] = @ \cup Gift(d)]
    /\ op' = [op EXCEPT ![c] = NoOp]
    /\ UNCHANGED << kind, exec, at, src, into, hold, then, ready, result, invoke, settle, todo >>

Returns(c, d) ==
    /\ op[c].pc = "call" /\ d = op[c].d
    /\ handles' = [handles EXCEPT ![c] = @ \cup Gift(d)]
    /\ op' = [op EXCEPT ![c] = NoOp]
    /\ UNCHANGED << kind, exec, at, src, into, hold, task, then, ready, result, invoke, settle,
                    todo >>

Detaches(c, s, d) ==
    /\ op[c].pc = "idle" /\ kind[d] = "none" /\ s \in handles[c] /\ ~SlotUsed(s) /\ ~ready[s]
    /\ kind' = [kind EXCEPT ![d] = "detach"]
    /\ exec' = [exec EXCEPT ![d] = "immediate"]
    /\ at' = [at EXCEPT ![d] = s]
    /\ src' = [src EXCEPT ![d] = s]
    /\ task' = [task EXCEPT ![d] = "attached"]
    /\ then' = [then EXCEPT ![s] = Extended(@, d)]
    /\ handles' = [handles EXCEPT ![c] = @ \ {s}]
    /\ UNCHANGED << into, hold, ready, result, invoke, settle, todo, op >>

Takes(c, s, u) ==
    /\ op[c].pc = "idle" /\ s \in handles[c] /\ ~Spent(s)
    /\ u \in BOOLEAN /\ (u => MoveOnly \/ Unique(s, <<"client", c>>))
    /\ Enters(c, "take", s, NoFuture, u)
    /\ UNCHANGED << kind, exec, at, src, into, hold, task, then, ready, result, invoke, settle,
                    todo, handles >>

TakeMoves(c, s) ==
    /\ op[c].pc = "take" /\ s = op[c].s /\ op[c].unique /\ ready[s] /\ result[s] = "value"
    /\ result' = [result EXCEPT ![s] = "moved"]
    /\ handles' = [handles EXCEPT ![c] = IF MoveOnly THEN @ ELSE @ \ {s}]
    /\ op' = [op EXCEPT ![c] = NoOp]
    /\ UNCHANGED << kind, exec, at, src, into, hold, task, then, ready, invoke, settle, todo >>

TakeCopies(c, H) ==
    /\ op[c].pc = "take" /\ H \subseteq handles[c]
    /\ handles' = [handles EXCEPT ![c] = H]
    /\ op' = [op EXCEPT ![c] = NoOp]
    /\ UNCHANGED << kind, exec, at, src, into, hold, task, then, ready, result, invoke, settle,
                    todo >>

\* A callback runs, or is destroyed.
Called(d) ==
    /\ task[d] \in {"queued", "called"} /\ IsCallback(d)
    /\ task' = [task EXCEPT ![d] = "spent"]
    /\ src' = [src EXCEPT ![d] = NoFuture]
    /\ UNCHANGED << kind, exec, at, into, hold, then, ready, result, invoke, settle, todo,
                    handles, op >>

\* A task finds no state to complete.
Canceled(d) ==
    /\ task[d] \in {"queued", "called"} /\ ~IsCallback(d) /\ d \notin Live
    /\ task' = [task EXCEPT ![d] = "spent"]
    /\ UNCHANGED << kind, exec, at, src, into, hold, then, ready, result, invoke, settle, todo,
                    handles, op >>

Begins(d) ==
    /\ task[d] \in {"queued", "called"} /\ ~IsCallback(d) /\ d \in Live
    /\ task' = [task EXCEPT ![d] = "spent"]
    /\ invoke' = [invoke EXCEPT ![d] = "run"]
    /\ UNCHANGED << kind, exec, at, src, into, hold, then, ready, result, settle, todo,
                    handles, op >>

Breaks(d) ==
    /\ task[d] = "queued" /\ ~IsCallback(d) /\ d \in Live
    /\ task' = [task EXCEPT ![d] = "spent"]
    /\ result' = [result EXCEPT ![d] = "broken"]
    /\ invoke' = [invoke EXCEPT ![d] = "wait"]
    /\ settle' = [settle EXCEPT ![d] = "publish"]
    /\ UNCHANGED << kind, exec, at, src, into, hold, then, ready, todo, handles, op >>

\* What a function leaves of the results when it has taken its argument.
Took(d, res) ==
    \/ res = result
    \/ /\ src[d] # NoFuture /\ result[src[d]] = "value"
       /\ MoveOnly \/ Unique(src[d], <<"function", d>>)
       /\ res = [result EXCEPT ![src[d]] = "moved"]

Runs(d, r, res) ==
    /\ invoke[d] = "run" /\ kind[d] # "hold"
    /\ r \in {"value", "error"} \/ (src[d] # NoFuture /\ r = result[src[d]])
    /\ kind[d] = "then" => result[src[d]] = "value" \/ r = result[src[d]]
    /\ Took(d, res)
    /\ result' = [res EXCEPT ![d] = r]
    /\ invoke' = [invoke EXCEPT ![d] = "wait"]
    /\ settle' = [settle EXCEPT ![d] = "publish"]
    /\ UNCHANGED << kind, exec, at, src, into, hold, task, then, ready, todo, handles, op >>

Reducing(d, q, h) ==
    /\ invoke[d] = "run" /\ kind[d] # "hold" /\ kind[q] = "none" /\ kind[h] = "none" /\ q # h
    /\ Took(d, result')
    /\ kind' = [kind EXCEPT ![q] = "async", ![h] = "hold"]
    /\ exec' = [exec EXCEPT ![h] = "immediate"]
    /\ task' = [task EXCEPT ![q] = "queued", ![h] = "local"]
    /\ at' = [at EXCEPT ![h] = q]
    /\ src' = [src EXCEPT ![h] = q]
    /\ into' = [into EXCEPT ![h] = d]
    /\ hold' = [hold EXCEPT ![d] = h]
    /\ invoke' = [invoke EXCEPT ![d] = "attach"]
    /\ UNCHANGED << then, ready, settle, todo, handles, op >>

HoldCalled(d, h) ==
    /\ invoke[d] = "attach" /\ h = hold[d]
    /\ task' = [task EXCEPT ![h] = "called"]
    /\ invoke' = [invoke EXCEPT ![d] = "call"]
    /\ UNCHANGED << kind, exec, at, src, into, hold, then, ready, result, settle, todo,
                    handles, op >>

HoldAttached(d, h, q) ==
    /\ invoke[d] = "attach" /\ h = hold[d] /\ q = at[h] /\ ~ready[q]
    /\ then' = [then EXCEPT ![q] = Extended(@, h)]
    /\ task' = [task EXCEPT ![h] = "attached"]
    /\ invoke' = [invoke EXCEPT ![d] = "keep"]
    /\ UNCHANGED << kind, exec, at, src, into, hold, ready, result, settle, todo, handles, op >>

Relays(h, res) ==
    /\ invoke[h] = "run" /\ kind[h] = "hold" /\ into[h] \in Live
    /\ Took(h, res)
    /\ result' = [res EXCEPT ![into[h]] = result[src[h]]]
    /\ settle' = [settle EXCEPT ![into[h]] = "publish"]
    /\ invoke' = [invoke EXCEPT ![h] = "relay"]
    /\ UNCHANGED << kind, exec, at, src, into, hold, task, then, ready, todo, handles, op >>

\* The continuation of a reduction completes itself.
Ends(h) ==
    /\ kind[h] = "hold"
    /\ \/ invoke[h] = "run" /\ into[h] \notin Live
       \/ invoke[h] = "relay" /\ settle[into[h]] = "done"
    /\ result' = [result EXCEPT ![h] = "value"]
    /\ settle' = [settle EXCEPT ![h] = "publish"]
    /\ invoke' = [invoke EXCEPT ![h] = "wait"]
    /\ UNCHANGED << kind, exec, at, src, into, hold, task, then, ready, todo, handles, op >>

DispatchCalls(d, e) ==
    /\ settle[d] = "dispatch" /\ todo[d] # <<>> /\ e = Head(todo[d])
    /\ task' = [task EXCEPT ![e] = "called"]
    /\ settle' = [settle EXCEPT ![d] = "call"]
    /\ UNCHANGED << kind, exec, at, src, into, hold, then, ready, result, invoke, todo,
                    handles, op >>

DispatchQueues(d, e) ==
    /\ settle[d] = "dispatch" /\ todo[d] # <<>> /\ e = Head(todo[d]) /\ exec[e] # "immediate"
    /\ task' = [task EXCEPT ![e] = "queued"]
    /\ todo' = [todo EXCEPT ![d] = Tail(@)]
    /\ UNCHANGED << kind, exec, at, src, into, hold, then, ready, result, invoke, settle,
                    handles, op >>

\* The steps of calls that make something, of calls that go on with it, the other steps of
\* clients, and those of tasks.
Makes(c, d) ==
    \/ \E e \in Executors : AsyncMade(c, d, e)
    \/ \E r \in Outcomes \cup {"broken"} : ReadyMade(c, d, r)
    \/ \E s \in Futures, e \in Executors \cup {"immediate"} : Watches(c, s, d, e)
    \/ \E s \in Futures : Detaches(c, s, d)

Continues(c, d) ==
    \E s \in Futures, k \in {"then", "recover", "detach"},
       e \in Executors \cup {"immediate"}, H \in SUBSET handles[c] : Chains(c, s, d, k, e, H)

Gives(c, d) ==
    \/ \E s \in Futures : AttachFirst(c, s, d)
    \/ SubmitCalls(c, d) \/ SubmitQueues(c, d) \/ Returns(c, d)

Uses(c) ==
    \/ AttachLate(c)
    \/ \E s \in Futures : s \in handles[c] /\ Release(c, s)
    \/ \E s \in Futures, u \in BOOLEAN : Takes(c, s, u)
    \/ \E s \in Futures : TakeMoves(c, s)
    \/ \E H \in SUBSET handles[c] : TakeCopies(c, H)
    \/ \E s \in Futures, other \in Clients : Share(c, other, s)

Works(d) ==
    \/ Called(d) \/ Canceled(d) \/ Begins(d) \/ Breaks(d)
    \/ \E r, res : Runs(d, r, res)
    \/ \E q \in Futures, h \in Futures : Reducing(d, q, h)
    \/ \E h \in Futures : HoldCalled(d, h)
    \/ \E h \in Futures, q \in Futures : HoldAttached(d, h, q)
    \/ Finish(d) \/ Ends(d)
    \/ \E res : Relays(d, res)
    \/ Publish(d) \/ DispatchReturn(d) \/ Settled(d)
    \/ \E e \in Futures : DispatchCalls(d, e)
    \/ \E e \in Futures : DispatchQueues(d, e)

\* A step is one of these.
Flat ==
    \/ \E c \in Clients :
          (\E d \in Futures : Makes(c, d) \/ Continues(c, d) \/ Gives(c, d)) \/ Uses(c)
    \/ \E d \in Futures : Works(d)
    \/ UNCHANGED vars

LEMMA Flattened == IInv /\ Origins /\ [Next]_vars => Flat
  <1> SUFFICES ASSUME IInv, Origins, [Next]_vars PROVE Flat
    OBVIOUS
  <1>1. ASSUME NEW c \in Clients, NEW d \in Fresh, NEW e \in Executors, Async(c, d, e)
        PROVE  Flat
    <2>1. d \in Futures /\ kind[d] = "none"
      BY DEF Fresh
    <2>2. Enters(c, "submit", NoFuture, d, FALSE)
      BY <1>1 DEF Async, NoOp, Enters, IInv, TypeOK
    <2>3. AsyncMade(c, d, e)
      BY <1>1, <2>1, <2>2 DEF Async, AsyncMade, Idle
    <2> QED
      BY <2>1, <2>3 DEF Flat, Makes, Continues, Gives, Uses, Works
  <1>2. ASSUME NEW c \in Clients, NEW d \in Fresh, NEW r \in Outcomes \cup {"broken"},
               MakeReady(c, d, r)
        PROVE  Flat
    <2>1. d \in Futures /\ kind[d] = "none" /\ r \in {"value", "error", "broken"}
      BY FutureAssumption DEF Fresh, FutureAssumption
    <2>2. ReadyMade(c, d, r)
      BY <1>2, <2>1 DEF MakeReady, ReadyMade, Idle
    <2> QED
      BY <2>1, <2>2 DEF Flat, Makes, Continues, Gives, Uses, Works
  <1>3. ASSUME NEW c \in Clients, NEW s \in handles[c], NEW d \in Fresh,
               NEW k \in {"then", "recover", "watch", "detach"},
               NEW e \in Executors \cup {"immediate"}, NEW consume \in BOOLEAN,
               Package(c, s, d, k, e, consume)
        PROVE  Flat
    <2>1. d \in Futures /\ kind[d] = "none" /\ s \in Futures /\ handles[c] \subseteq Futures
      BY DEF Fresh, IInv, TypeOK
    <2>2. Enters(c, "attach", s, d, FALSE)
      BY <1>3 DEF Package, NoOp, Enters, IInv, TypeOK
    <2>3. CASE k = "watch"
      <3>1. src' = [src EXCEPT ![d] = NoFuture] /\ handles' = [handles EXCEPT ![c] = handles[c]]
        BY <1>3, <2>3 DEF Package, Captured, Remaining
      <3>2. src[d] = NoFuture
        BY <2>1 DEF IInv, Blank
      <3>3. src' = src /\ handles' = handles
        BY <3>1, <3>2 DEF IInv, TypeOK
      <3>4. Watches(c, s, d, e)
        BY <1>3, <2>1, <2>2, <2>3, <3>3 DEF Package, Watches, Idle
      <3> QED
        BY <2>1, <3>4 DEF Flat, Makes, Continues, Gives, Uses, Works
    <2>4. CASE k # "watch"
      <3> DEFINE H == Remaining(c, s, consume)
      <3>1. /\ H \in SUBSET handles[c] /\ handles[c] \subseteq H \cup {s}
            /\ MoveOnly => s \notin H
        BY <1>3, <2>4 DEF Package, Remaining
      <3>2. src' = [src EXCEPT ![d] = s] /\ handles' = [handles EXCEPT ![c] = H]
        BY <1>3, <2>4 DEF Package, Captured
      <3> HIDE DEF H
      <3>3. Chains(c, s, d, k, e, H)
        BY <1>3, <2>1, <2>2, <2>4, <3>1, <3>2 DEF Package, Chains, Idle
      <3> QED
        BY <2>1, <2>4, <3>1, <3>3 DEF Flat, Makes, Continues, Gives, Uses, Works
    <2> QED
      BY <2>3, <2>4
  <1>4. ASSUME NEW c \in Clients, NEW s \in handles[c], NEW d \in Fresh, Detach(c, s, d)
        PROVE  Flat
    <2>1. d \in Futures /\ kind[d] = "none" /\ s \in Futures
      BY DEF Fresh, IInv, TypeOK
    <2>2. then' = [then EXCEPT ![s] = Extended(@, d)]
      BY <1>4 DEF Detach, Extended
    <2>3. Detaches(c, s, d)
      BY <1>4, <2>1, <2>2 DEF Detach, Detaches, Idle, AlreadyReady
    <2> QED
      BY <2>1, <2>3 DEF Flat, Makes, Continues, Gives, Uses, Works
  <1>5. ASSUME NEW c \in Clients, NEW s \in handles[c], Release(c, s) PROVE Flat
    BY <1>5 DEF Flat, Makes, Continues, Gives, Uses, Works, IInv, TypeOK
  <1>6. ASSUME NEW c \in Clients, NEW s \in handles[c], NEW other \in Clients, Share(c, other, s)
        PROVE  Flat
    BY <1>6 DEF Flat, Makes, Continues, Gives, Uses, Works, IInv, TypeOK
  <1>7. ASSUME NEW c \in Clients, NEW s \in handles[c], Take(c, s) PROVE Flat
    <2> DEFINE u == MoveOnly \/ Unique(s, <<"client", c>>)
    <2>1. s \in Futures
      BY DEF IInv, TypeOK
    <2>2. u \in BOOLEAN
      BY FutureAssumption DEF FutureAssumption, Unique
    <2>3. Enters(c, "take", s, NoFuture, u)
      BY <1>7 DEF Take, MayMove, NoOp, Enters, IInv, TypeOK
    <2>4. u => MoveOnly \/ Unique(s, <<"client", c>>)
      OBVIOUS
    <2> HIDE DEF u
    <2>5. Takes(c, s, u)
      BY <1>7, <2>2, <2>3, <2>4 DEF Take, MayMove, Takes, Idle
    <2> QED
      BY <2>1, <2>2, <2>5 DEF Flat, Makes, Continues, Gives, Uses, Works
  <1>8. ASSUME NEW c \in Clients, Attach(c) PROVE Flat
    <2> DEFINE s == op[c].s
               d == op[c].d
    <2>1. s \in Futures /\ d \in Futures
      BY <1>8 DEF Attach, IInv, Calls
    <2>2. CASE ready[s]
      <3>1. AttachLate(c)
        BY <1>8, <2>2 DEF Attach, AlreadyReady, AttachLate
      <3> QED
        BY <3>1 DEF Flat, Makes, Continues, Gives, Uses, Works
    <2>3. CASE ~ready[s]
      <3>1. /\ then' = [then EXCEPT ![s] = Extended(@, d)]
            /\ task' = [task EXCEPT ![d] = "attached"]
            /\ handles' = [handles EXCEPT ![c] = IF IsFuture(d) THEN @ \cup {d} ELSE @]
            /\ op' = [op EXCEPT ![c] = NoOp]
        BY <1>8, <2>3 DEF Attach, AlreadyReady, Extended
      <3>2. handles' = [handles EXCEPT ![c] = @ \cup Gift(d)]
        BY <3>1 DEF Gift
      <3>3. AttachFirst(c, s, d)
        BY <1>8, <2>3, <3>1, <3>2 DEF Attach, AttachFirst
      <3> QED
        BY <2>1, <3>3 DEF Flat, Makes, Continues, Gives, Uses, Works
    <2> QED
      BY <2>2, <2>3
  <1>9. ASSUME NEW c \in Clients, Submit(c) PROVE Flat
    <2> DEFINE d == op[c].d
    <2>1. d \in Futures
      BY <1>9 DEF Submit, IInv, Calls
    <2>2. CASE exec[d] = "immediate"
      <3>1. SubmitCalls(c, d)
        BY <1>9, <2>2 DEF Submit, Submitted, SubmitCalls
      <3> QED
        BY <2>1, <3>1 DEF Flat, Makes, Continues, Gives, Uses, Works
    <2>3. CASE exec[d] # "immediate"
      <3>1. task' = [task EXCEPT ![d] = "queued"] /\ Give(c, d)
        BY <1>9, <2>3 DEF Submit, Submitted
      <3>2. handles' = [handles EXCEPT ![c] = @ \cup Gift(d)] /\ op' = [op EXCEPT ![c] = NoOp]
        BY <3>1 DEF Give, Gift
      <3>3. SubmitQueues(c, d)
        BY <1>9, <3>1, <3>2 DEF Submit, SubmitQueues
      <3> QED
        BY <2>1, <3>3 DEF Flat, Makes, Continues, Gives, Uses, Works
    <2> QED
      BY <2>2, <2>3
  <1>10. ASSUME NEW c \in Clients, Return(c) PROVE Flat
    <2> DEFINE d == op[c].d
    <2>1. d \in Futures
      BY <1>10 DEF Return, IInv, Calls
    <2>2. handles' = [handles EXCEPT ![c] = @ \cup Gift(d)] /\ op' = [op EXCEPT ![c] = NoOp]
      BY <1>10 DEF Return, Give, Gift
    <2>3. Returns(c, d)
      BY <1>10, <2>2 DEF Return, Returns
    <2> QED
      BY <2>1, <2>3 DEF Flat, Makes, Continues, Gives, Uses, Works
  <1>11. ASSUME NEW c \in Clients, TakeLocked(c) PROVE Flat
    <2> DEFINE s == op[c].s
    <2>1. s \in Futures
      BY <1>11 DEF TakeLocked, HandlesLeft, IInv, Calls
    <2>2. CASE ready[s] /\ op[c].unique /\ result[s] = "value"
      <3>1. TakeMoves(c, s)
        BY <1>11, <2>2 DEF TakeLocked, HandlesLeft, Extract, TakeMoves
      <3> QED
        BY <2>1, <3>1 DEF Flat, Makes, Continues, Gives, Uses, Works
    <2>3. CASE ready[s] /\ ~(op[c].unique /\ result[s] = "value")
      <3> DEFINE H == IF MoveOnly THEN handles[c] ELSE handles[c] \ {s}
      <3>1. result' = result /\ handles' = [handles EXCEPT ![c] = H]
        BY <1>11, <2>3 DEF TakeLocked, HandlesLeft, Extract
      <3>2. H \in SUBSET handles[c]
        OBVIOUS
      <3> HIDE DEF H
      <3>3. TakeCopies(c, H)
        BY <1>11, <3>1, <3>2 DEF TakeLocked, HandlesLeft, TakeCopies
      <3> QED
        BY <3>2, <3>3 DEF Flat, Makes, Continues, Gives, Uses, Works
    <2>4. CASE ~ready[s]
      <3>1. result' = result /\ handles' = handles
        BY <1>11, <2>4 DEF TakeLocked, HandlesLeft
      <3>2. handles' = [handles EXCEPT ![c] = handles[c]]
        BY <3>1 DEF IInv, TypeOK
      <3>3. TakeCopies(c, handles[c])
        BY <1>11, <3>1, <3>2 DEF TakeLocked, HandlesLeft, TakeCopies
      <3> QED
        BY <3>3 DEF Flat, Makes, Continues, Gives, Uses, Works
    <2> QED
      BY <2>2, <2>3, <2>4
  <1>12. ASSUME NEW d \in Futures, Begin(d) PROVE Flat
    <2>1. CASE IsCallback(d)
      <3>1. Called(d)
        BY <1>12, <2>1 DEF Begin, Called
      <3> QED
        BY <3>1 DEF Flat, Makes, Continues, Gives, Uses, Works
    <2>2. CASE ~IsCallback(d) /\ d \in Live
      <3>1. Begins(d)
        BY <1>12, <2>2 DEF Begin, Begins, Wanted
      <3> QED
        BY <3>1 DEF Flat, Makes, Continues, Gives, Uses, Works
    <2>3. CASE ~IsCallback(d) /\ d \notin Live
      <3>1. Canceled(d)
        BY <1>12, <2>3 DEF Begin, Canceled, Wanted
      <3> QED
        BY <3>1 DEF Flat, Makes, Continues, Gives, Uses, Works
    <2> QED
      BY <2>1, <2>2, <2>3
  <1>13. ASSUME NEW d \in Futures, Drop(d) PROVE Flat
    <2>1. CASE IsCallback(d)
      <3>1. Called(d)
        BY <1>13, <2>1 DEF Drop, Droppable, Called
      <3> QED
        BY <3>1 DEF Flat, Makes, Continues, Gives, Uses, Works
    <2>2. CASE ~IsCallback(d) /\ d \in Live
      <3>1. Breaks(d)
        BY <1>13, <2>2 DEF Drop, Droppable, Breaks, Wanted
      <3> QED
        BY <3>1 DEF Flat, Makes, Continues, Gives, Uses, Works
    <2>3. CASE ~IsCallback(d) /\ d \notin Live
      <3>1. Canceled(d)
        BY <1>13, <2>3 DEF Drop, Droppable, Canceled, Wanted
      <3> QED
        BY <3>1 DEF Flat, Makes, Continues, Gives, Uses, Works
    <2> QED
      BY <2>1, <2>2, <2>3
  <1>14. ASSUME NEW d \in Futures, NEW res \in Arguments(d) PROVE Took(d, res)
    <2>1. CASE src[d] = NoFuture
      BY <1>14, <2>1 DEF Arguments, Took
    <2>2. CASE src[d] # NoFuture /\ res # result
      <3>1. res = Extract(src[d], MoveOnly \/ Unique(src[d], <<"function", d>>))
        BY <1>14, <2>2 DEF Arguments
      <3> QED
        BY <2>2, <3>1 DEF Extract, Took
    <2> QED
      BY <2>1, <2>2 DEF Took
  <1>15. ASSUME NEW d \in Futures, Run(d) PROVE Flat
    <2>1. PICK r \in MayReturn(d), res \in Arguments(d) : result' = [res EXCEPT ![d] = r]
      BY <1>15 DEF Run
    <2>2. /\ r \in {"value", "error"} \/ (src[d] # NoFuture /\ r = result[src[d]])
          /\ kind[d] = "then" => result[src[d]] = "value" \/ r = result[src[d]]
      <3>1. CASE FunctionCalled(d)
        BY <2>1, <3>1, FutureAssumption DEF MayReturn, FunctionCalled, FutureAssumption
      <3>2. CASE ~FunctionCalled(d)
        <4>1. kind[d] = "then" /\ r = result[src[d]]
          BY <2>1, <3>2 DEF MayReturn, FunctionCalled
        <4>2. src[d] # NoFuture
          BY <1>15, <4>1 DEF Run, IInv, Known
        <4> QED
          BY <4>1, <4>2
      <3> QED
        BY <3>1, <3>2
    <2>3. Took(d, res)
      BY <1>14
    <2>4. Runs(d, r, res)
      BY <1>15, <2>1, <2>2, <2>3 DEF Run, Runs
    <2> QED
      BY <2>4 DEF Flat, Makes, Continues, Gives, Uses, Works
  <1>16. ASSUME NEW d \in Futures, NEW q \in Fresh, NEW h \in Fresh \ {q}, RunReducing(d, q, h)
         PROVE  Flat
    <2>1. q \in Futures /\ h \in Futures /\ kind[q] = "none" /\ kind[h] = "none" /\ q # h
      BY DEF Fresh
    <2>2. result' \in Arguments(d)
      BY <1>16 DEF RunReducing
    <2>3. Took(d, result')
      BY <1>14, <2>2
    <2>4. Reducing(d, q, h)
      BY <1>16, <2>1, <2>3 DEF RunReducing, Reducing
    <2> QED
      BY <2>1, <2>4 DEF Flat, Makes, Continues, Gives, Uses, Works
  <1>17. ASSUME NEW d \in Futures, AttachHold(d) PROVE Flat
    <2> DEFINE h == hold[d]
               q == at[h]
    <2>1. h \in Futures /\ q \in Futures
      BY <1>17 DEF AttachHold, IInv, Reductions, Known
    <2>2. CASE ready[q]
      <3>1. HoldCalled(d, h)
        BY <1>17, <2>2 DEF AttachHold, AlreadyReady, HoldCalled
      <3> QED
        BY <2>1, <3>1 DEF Flat, Makes, Continues, Gives, Uses, Works
    <2>3. CASE ~ready[q]
      <3>1. /\ then' = [then EXCEPT ![q] = Extended(@, h)]
            /\ task' = [task EXCEPT ![h] = "attached"]
            /\ invoke' = [invoke EXCEPT ![d] = "keep"]
        BY <1>17, <2>3 DEF AttachHold, AlreadyReady, Extended
      <3>2. HoldAttached(d, h, q)
        BY <1>17, <2>3, <3>1 DEF AttachHold, HoldAttached
      <3> QED
        BY <2>1, <3>2 DEF Flat, Makes, Continues, Gives, Uses, Works
    <2> QED
      BY <2>2, <2>3
  <1>18. ASSUME NEW h \in Futures, RunHold(h) PROVE Flat
    <2>1. CASE into[h] \in Live
      <3>1. PICK res \in Arguments(h) : result' = [res EXCEPT ![into[h]] = result[src[h]]]
        BY <1>18, <2>1 DEF RunHold, Wanted
      <3>2. Took(h, res)
        BY <1>14
      <3>3. Relays(h, res)
        BY <1>18, <2>1, <3>1, <3>2 DEF RunHold, Relays, Wanted
      <3> QED
        BY <3>3 DEF Flat, Makes, Continues, Gives, Uses, Works
    <2>2. CASE into[h] \notin Live
      <3>1. Ends(h)
        BY <1>18, <2>2 DEF RunHold, Ends, Wanted
      <3> QED
        BY <3>1 DEF Flat, Makes, Continues, Gives, Uses, Works
    <2> QED
      BY <2>1, <2>2
  <1>19. ASSUME NEW h \in Futures, Relay(h) PROVE Flat
    <2>1. kind[h] = "hold"
      BY <1>19 DEF Relay, Origins
    <2>2. Ends(h)
      BY <1>19, <2>1 DEF Relay, Ends
    <2> QED
      BY <2>2 DEF Flat, Makes, Continues, Gives, Uses, Works
  <1>20. ASSUME NEW d \in Futures, Dispatch(d) PROVE Flat
    <2> DEFINE e == Head(todo[d])
    <2>1. e \in Futures
      BY <1>20, Shortening DEF Dispatch, IInv, TypeOK, Lists, ListsOf
    <2>2. CASE exec[e] = "immediate"
      <3>1. DispatchCalls(d, e)
        BY <1>20, <2>2 DEF Dispatch, Submitted, DispatchCalls
      <3> QED
        BY <2>1, <3>1 DEF Flat, Makes, Continues, Gives, Uses, Works
    <2>3. CASE exec[e] # "immediate"
      <3>1. task' = [task EXCEPT ![e] = "queued"] /\ todo' = [todo EXCEPT ![d] = Tail(@)]
        BY <1>20, <2>3 DEF Dispatch, Submitted, Rest
      <3>2. settle' = settle
        BY <1>20, <2>3 DEF Dispatch
      <3>3. DispatchQueues(d, e)
        BY <1>20, <2>3, <3>1, <3>2 DEF Dispatch, DispatchQueues
      <3> QED
        BY <2>1, <3>3 DEF Flat, Makes, Continues, Gives, Uses, Works
    <2> QED
      BY <2>2, <2>3
  <1>21. ASSUME NEW d \in Futures,
                Finish(d) \/ Publish(d) \/ DispatchReturn(d) \/ Settled(d)
         PROVE  Flat
    BY <1>21 DEF Flat, Makes, Continues, Gives, Uses, Works
  <1>22. CASE UNCHANGED vars
    BY <1>22 DEF Flat, Makes, Continues, Gives, Uses, Works
  <1> QED
    BY <1>1, <1>2, <1>3, <1>4, <1>5, <1>6, <1>7, <1>8, <1>9, <1>10, <1>11, <1>12, <1>13,
       <1>15, <1>16, <1>17, <1>18, <1>19, <1>20, <1>21, <1>22
       DEF Next, Call, Continue, Frame

\* What the invariant says of one task, one function and one call.
LEMMA Busy ==
  ASSUME IInv, NEW d \in Futures, invoke[d] # "idle"
  PROVE  task[d] = "spent" /\ kind[d] # "none"
  BY DEF IInv, Phases, Blank

LEMMA SourceKnown ==
  ASSUME IInv, NEW d \in Futures, src[d] # NoFuture
  PROVE  src[d] = at[d] /\ src[d] \in Futures /\ kind[src[d]] # "none"
  BY DEF IInv, Known, Created

LEMMA CallKnown ==
  ASSUME IInv, Returning, NEW c \in Clients, op[c].d # NoFuture
  PROVE  /\ op[c].d \in Futures /\ kind[op[c].d] # "none"
         /\ op[c].pc \in {"attach", "submit", "call"}
  <1>1. op[c].pc \in OpPc
    BY DEF IInv, TypeOK
  <1> QED
    BY <1>1 DEF IInv, Calls, Returning, Created, OpPc

LEMMA HandleKnown ==
  ASSUME IInv, NEW c \in Clients, NEW s \in handles[c]
  PROVE  s \in Futures /\ kind[s] # "none"
  BY DEF IInv, TypeOK, Known, Created

-----------------------------------------------------------------------------
(***************************************************************************)
(* The living states: the least set with the roots in it that has, with a  *)
(* state, the states its function and _hold own.  What a frame refers to   *)
(* until it sets _hold belongs to that frame's own state here: the states  *)
(* that live are the same, a frame that runs being a root.                 *)
(***************************************************************************)
Anchors == {d \in Futures : \/ Running(d) \/ Pending(d)
                            \/ \E c \in Clients : d \in handles[c] \/ op[c].d = d}

Owns(d) == {src[d], hold[d]} \ {NoFuture}

LEMMA Rooted ==
  /\ Anchors \subseteq Roots
  /\ \A d \in Futures : Owned(d) \subseteq Owns(d) /\ Owns(d) \subseteq Owned(d) \cup {hold[d]}
  /\ \A d \in Futures : hold[d] \in Futures => hold[d] \in Owned(d) \cup Roots
  /\ \A d \in Roots \ Anchors : \E r \in Anchors : d \in Owns(r)
  <1>1. \A r \in Futures : InRecover(r) => r \in Anchors
    BY DEF InRecover, Anchors, Running
  <1>2. \A d \in Futures : d # NoFuture
    BY FutureAssumption DEF FutureAssumption
  <1>3. \A d \in Futures : hold[d] \in Futures => hold[d] \in Owned(d) \cup Roots
    BY <1>2 DEF Owned, Holds, Roots
  <1>4. \A d \in Futures : Owned(d) \subseteq Owns(d) /\ Owns(d) \subseteq Owned(d) \cup {hold[d]}
    BY DEF Owned, Holds, Owns
  <1> QED
    BY <1>1, <1>2, <1>3, <1>4 DEF Roots, Anchors, Owns

LEMMA LiveRoots == Anchors \subseteq Live /\ Live \subseteq Futures
  BY Rooted DEF Live, Anchors, Roots

LEMMA LiveOwned ==
  ASSUME NEW d \in Live, NEW x \in Owns(d), x \in Futures
  PROVE  x \in Live
  <1>1. d \in Futures /\ Roots \subseteq Live
    BY DEF Live, Roots
  <1>2. CASE x \in Roots
    BY <1>1, <1>2
  <1>3. CASE x \in Owned(d)
    BY <1>3 DEF Live, Closed
  <1> QED
    BY <1>1, <1>2, <1>3, Rooted

LEMMA LiveLeast ==
  ASSUME NEW K \in SUBSET Futures, Anchors \subseteq K, \A d \in K : Owns(d) \subseteq K
  PROVE  Live \subseteq K
  <1>1. Roots \subseteq K /\ Closed(K)
    BY Rooted DEF Closed
  <1>2. K \ Roots \in SUBSET (Futures \ Roots) /\ Roots \cup (K \ Roots) = K
    BY <1>1
  <1> QED
    BY <1>1, <1>2 DEF Live

\* The same after a step.
LEMMA RootedNext ==
  (/\ Anchors \subseteq Roots
   /\ \A d \in Futures : Owned(d) \subseteq Owns(d) /\ Owns(d) \subseteq Owned(d) \cup {hold[d]}
   /\ \A d \in Roots \ Anchors : \E r \in Anchors : d \in Owns(r))'
  BY Rooted, PTL

LEMMA LiveRootsNext == Anchors' \subseteq Live'
  <1>1. (Anchors \subseteq Live /\ Live \subseteq Futures)'
    BY LiveRoots, PTL
  <1> QED
    BY <1>1

LEMMA LiveLeastNext ==
  ASSUME NEW K \in SUBSET Futures, Anchors' \subseteq K, \A d \in K : Owns(d)' \subseteq K
  PROVE  Live' \subseteq K
  <1>1. Roots' \subseteq K /\ Closed(K)'
    BY RootedNext DEF Closed
  <1>2. K \ Roots' \in SUBSET (Futures \ Roots') /\ Roots' \cup (K \ Roots') = K
    BY <1>1
  <1> QED
    BY <1>1, <1>2 DEF Live

\* A state whose function or _hold owns x keeps x alive.
LEMMA Keeps ==
  ASSUME TypeOK, NEW d \in Live
  PROVE  /\ src[d] # NoFuture => src[d] \in Live
         /\ hold[d] # NoFuture => hold[d] \in Live
  BY LiveOwned, LiveRoots DEF TypeOK, Owns

\* A step that makes a root of, or an owner for, none but living or new states brings no
\* state back.
LEMMA LiveFrom ==
  ASSUME IInv, Origins,
         \A x \in Futures : x \in Anchors' => x \in Live \/ kind[x] = "none",
         \A x \in Futures : x \in Live \/ kind[x] = "none" =>
            /\ src'[x] \in {src[x], NoFuture} \cup Live \cup Fresh
            /\ hold'[x] \in {hold[x], NoFuture} \cup Live \cup Fresh
  PROVE  Live' \subseteq Live \cup Fresh
  <1> DEFINE K == Live \cup Fresh
  <1>1. K \in SUBSET Futures
    BY LiveRoots DEF Fresh
  <1>2. Anchors' \subseteq K
    <2>1. Anchors' \subseteq Futures
      BY DEF Anchors
    <2> QED
      BY <2>1 DEF Fresh
  <1>3. \A x \in K : (src[x] \in K \cup {NoFuture}) /\ (hold[x] \in K \cup {NoFuture})
    <2> SUFFICES ASSUME NEW x \in K
                 PROVE  src[x] \in K \cup {NoFuture} /\ hold[x] \in K \cup {NoFuture}
      OBVIOUS
    <2>1. CASE x \in Live
      BY <2>1, Keeps DEF IInv
    <2>2. CASE x \in Fresh
      BY <2>2 DEF IInv, Blank, Origins, Fresh
    <2> QED
      BY <2>1, <2>2
  <1>4. \A x \in K : Owns(x)' \subseteq K
    <2>1. \A x \in K : src'[x] \in K \cup {NoFuture} /\ hold'[x] \in K \cup {NoFuture}
      BY <1>1, <1>3 DEF Fresh
    <2> QED
      BY <2>1 DEF Owns
  <1> QED
    BY <1>1, <1>2, <1>4, LiveLeastNext

\* No step brings a state back: what becomes a root is new or alive.
LEMMA RootsStep ==
  ASSUME LInv, [Next]_vars
  PROVE  \A x \in Futures : x \in Anchors' => x \in Live \/ kind[x] = "none"
  <1> SUFFICES ASSUME NEW x \in Futures, x \in Anchors', kind[x] # "none"
               PROVE  x \in Live
    OBVIOUS
  <1>0. IInv /\ Origins /\ Flat /\ Returning
    BY Flattened DEF LInv
  <1> SUFFICES ASSUME x \notin Anchors PROVE x \in Live
    BY LiveRoots
  <1> USE DEF FutureAssumption, IInv, TypeOK, Kinds, Callback, IsCallback, IsFuture,
          Origins, Returning, Anchors, Running, Pending
  <1>1. ASSUME NEW c \in Clients, NEW d \in Futures,
               NEW e \in Executors, AsyncMade(c, d, e)
         PROVE  x \in Live
    <2>1. \A b \in Clients : b = c \/ op'[b] = op[b]
      BY <1>1 DEF AsyncMade, Enters
    <2>2. op'[c].d = d /\ op[c].d = NoFuture
      BY <1>1, <1>0 DEF AsyncMade, Enters
    <2>3. \A b \in Clients : x # d => (op'[b].d = x <=> op[b].d = x)
      BY <2>1, <2>2, FutureAssumption
    <2> QED
      BY <1>1, <1>0, <2>3, FutureAssumption DEF AsyncMade
  <1>2. ASSUME NEW c \in Clients, NEW d \in Futures,
               NEW r \in Outcomes \cup {"broken"}, ReadyMade(c, d, r)
         PROVE  x \in Live
    BY <1>2, <1>0, FutureAssumption DEF ReadyMade
  <1>3. ASSUME NEW c \in Clients, NEW s \in Futures, NEW d \in Futures,
               NEW e \in Executors \cup {"immediate"}, Watches(c, s, d, e)
         PROVE  x \in Live
    <2>1. \A b \in Clients : b = c \/ op'[b] = op[b]
      BY <1>3 DEF Watches, Enters
    <2>2. op'[c].d = d /\ op[c].d = NoFuture
      BY <1>3, <1>0 DEF Watches, Enters
    <2>3. \A b \in Clients : x # d => (op'[b].d = x <=> op[b].d = x)
      BY <2>1, <2>2, FutureAssumption
    <2> QED
      BY <1>3, <1>0, <2>3, FutureAssumption DEF Watches
  <1>4. ASSUME NEW c \in Clients, NEW s \in Futures, NEW d \in Futures,
               NEW k \in {"then", "recover", "detach"},
               NEW e \in Executors \cup {"immediate"},
               NEW H \in SUBSET handles[c], Chains(c, s, d, k, e, H)
         PROVE  x \in Live
    BY <1>4, <1>0, FutureAssumption DEF Chains, Enters
  <1>5. ASSUME NEW c \in Clients, NEW s \in Futures,
               NEW d \in Futures, Detaches(c, s, d)
         PROVE  x \in Live
    BY <1>5, <1>0, FutureAssumption DEF Detaches
  <1>6. ASSUME NEW c \in Clients, NEW s \in Futures,
               NEW d \in Futures, AttachFirst(c, s, d)
         PROVE  x \in Live
    BY <1>6, <1>0, FutureAssumption DEF AttachFirst, NoOp, Gift, Calls
  <1>7. ASSUME NEW c \in Clients, NEW d \in Futures, SubmitCalls(c, d)
         PROVE  x \in Live
    BY <1>7, <1>0, FutureAssumption DEF SubmitCalls, Gift, Calls
  <1>8. ASSUME NEW c \in Clients, NEW d \in Futures, SubmitQueues(c, d)
         PROVE  x \in Live
    BY <1>8, <1>0, FutureAssumption DEF SubmitQueues, NoOp, Gift, Calls
  <1>9. ASSUME NEW c \in Clients, NEW d \in Futures, Returns(c, d)
         PROVE  x \in Live
    BY <1>9, <1>0, FutureAssumption DEF Returns, NoOp, Gift, Calls
  <1>10. ASSUME NEW c \in Clients, AttachLate(c)
         PROVE  x \in Live
    BY <1>10, <1>0, FutureAssumption DEF AttachLate
  <1>11. ASSUME NEW c \in Clients, NEW s \in Futures, Release(c, s)
         PROVE  x \in Live
    BY <1>11, <1>0, FutureAssumption DEF Release, Idle
  <1>12. ASSUME NEW c \in Clients, NEW s \in Futures,
               NEW u \in BOOLEAN, Takes(c, s, u)
         PROVE  x \in Live
    <2>1. \A b \in Clients : b = c \/ op'[b] = op[b]
      BY <1>12 DEF Takes, Enters
    <2>2. op'[c].d = NoFuture /\ op[c].d = NoFuture
      BY <1>12, <1>0 DEF Takes, Enters
    <2>3. \A b \in Clients : x # NoFuture => (op'[b].d = x <=> op[b].d = x)
      BY <2>1, <2>2, FutureAssumption
    <2> QED
      BY <1>12, <1>0, <2>3, FutureAssumption DEF Takes
  <1>13. ASSUME NEW c \in Clients, NEW s \in Futures, TakeMoves(c, s)
         PROVE  x \in Live
    BY <1>13, <1>0, FutureAssumption DEF TakeMoves, NoOp
  <1>14. ASSUME NEW c \in Clients, NEW H \in SUBSET handles[c], TakeCopies(c, H)
         PROVE  x \in Live
    BY <1>14, <1>0, FutureAssumption DEF TakeCopies, NoOp
  <1>15. ASSUME NEW c \in Clients, NEW s \in Futures,
               NEW other \in Clients, Share(c, other, s)
         PROVE  x \in Live
    BY <1>15, <1>0, FutureAssumption DEF Share, Idle
  <1>16. ASSUME NEW d \in Futures, Called(d)
         PROVE  x \in Live
    BY <1>16, <1>0, FutureAssumption DEF Called
  <1>17. ASSUME NEW d \in Futures, Canceled(d)
         PROVE  x \in Live
    BY <1>17, <1>0, FutureAssumption DEF Canceled
  <1>18. ASSUME NEW d \in Futures, Begins(d)
         PROVE  x \in Live
    BY <1>18, <1>0, FutureAssumption DEF Begins
  <1>19. ASSUME NEW d \in Futures, Breaks(d)
         PROVE  x \in Live
    BY <1>19, <1>0, FutureAssumption DEF Breaks
  <1>20. ASSUME NEW d \in Futures, NEW r, NEW res, Runs(d, r, res)
         PROVE  x \in Live
    BY <1>20, <1>0, FutureAssumption DEF Runs
  <1>21. ASSUME NEW d \in Futures, NEW q \in Futures,
               NEW h \in Futures, Reducing(d, q, h)
         PROVE  x \in Live
    BY <1>21, <1>0, FutureAssumption DEF Reducing
  <1>22. ASSUME NEW d \in Futures, NEW h \in Futures, HoldCalled(d, h)
         PROVE  x \in Live
    BY <1>22, <1>0, FutureAssumption DEF HoldCalled, Reductions
  <1>23. ASSUME NEW d \in Futures, NEW h \in Futures,
               NEW q \in Futures, HoldAttached(d, h, q)
         PROVE  x \in Live
    BY <1>23, <1>0, FutureAssumption DEF HoldAttached, Reductions
  <1>24. ASSUME NEW d \in Futures, Finish(d)
         PROVE  x \in Live
    BY <1>24, <1>0, FutureAssumption DEF Finish, Phases
  <1>25. ASSUME NEW d \in Futures, Ends(d)
         PROVE  x \in Live
    BY <1>25, <1>0, FutureAssumption DEF Ends
  <1>26. ASSUME NEW d \in Futures, NEW res, Relays(d, res)
         PROVE  x \in Live
    BY <1>26, <1>0, FutureAssumption DEF Relays, Reductions, Phases
  <1>27. ASSUME NEW d \in Futures, Publish(d)
         PROVE  x \in Live
    BY <1>27, <1>0, FutureAssumption DEF Publish, MovedFrom, Phases
  <1>28. ASSUME NEW d \in Futures, DispatchReturn(d)
         PROVE  x \in Live
    BY <1>28, <1>0, FutureAssumption DEF DispatchReturn, Rest, Phases
  <1>29. ASSUME NEW d \in Futures, Settled(d)
         PROVE  x \in Live
    BY <1>29, <1>0, FutureAssumption DEF Settled, Phases
  <1>30. ASSUME NEW d \in Futures, NEW e \in Futures, DispatchCalls(d, e)
         PROVE  x \in Live
    <2>1. e \in Range(todo[d]) /\ settle[d] = "dispatch"
      BY <1>30, <1>0, Shortening DEF DispatchCalls, Lists, ListsOf
    <2>2. task[e] = "attached"
      BY <1>30, <1>0, <2>1 DEF Lists, ListsOf
    <2> QED
      BY <1>30, <1>0, <2>1, <2>2 DEF DispatchCalls
  <1>31. ASSUME NEW d \in Futures, NEW e \in Futures, DispatchQueues(d, e)
         PROVE  x \in Live
    <2>1. e \in Range(todo[d]) /\ settle[d] = "dispatch"
      BY <1>31, <1>0, Shortening DEF DispatchQueues, Lists, ListsOf
    <2>2. task[e] = "attached"
      BY <1>31, <1>0, <2>1 DEF Lists, ListsOf
    <2> QED
      BY <1>31, <1>0, <2>1, <2>2 DEF DispatchQueues
  <1>32. CASE UNCHANGED vars
    BY <1>32, <1>0, FutureAssumption DEF vars
  <1> HIDE DEF FutureAssumption, IInv, TypeOK, Kinds, Callback, IsCallback, IsFuture,
          Origins, Returning, Anchors, Running, Pending
  <1>33. ASSUME NEW c \in Clients, NEW d \in Futures, Makes(c, d)
         PROVE  x \in Live
    BY <1>33, <1>1, <1>2, <1>3, <1>5 DEF Makes
  <1>34. ASSUME NEW c \in Clients, NEW d \in Futures, Continues(c, d)
         PROVE  x \in Live
    BY <1>34, <1>4 DEF Continues
  <1>35. ASSUME NEW c \in Clients, NEW d \in Futures, Gives(c, d)
         PROVE  x \in Live
    BY <1>35, <1>6, <1>7, <1>8, <1>9 DEF Gives
  <1>36. ASSUME NEW c \in Clients, Uses(c)
         PROVE  x \in Live
    BY <1>36, <1>10, <1>11, <1>12, <1>13, <1>14, <1>15 DEF Uses
  <1>37. ASSUME NEW d \in Futures, Works(d)
         PROVE  x \in Live
    BY <1>37, <1>16, <1>17, <1>18, <1>19, <1>20, <1>21, <1>22, <1>23, <1>24, <1>25, <1>26,
       <1>27, <1>28, <1>29, <1>30, <1>31 DEF Works
  <1> QED
    BY <1>0, <1>32, <1>33, <1>34, <1>35, <1>36, <1>37 DEF Flat

\* An owner of a state that a step makes finds it new or alive.
LEMMA OwnersStep ==
  ASSUME LInv, [Next]_vars
  PROVE  \A x \in Futures : /\ src'[x] \in {src[x], NoFuture} \cup Live \cup Fresh
                            /\ hold'[x] \in {hold[x], NoFuture} \cup Live \cup Fresh
  <1> DEFINE Has(x) == /\ src'[x] \in {src[x], NoFuture} \cup Live \cup Fresh
                         /\ hold'[x] \in {hold[x], NoFuture} \cup Live \cup Fresh
  <1> SUFFICES ASSUME NEW x \in Futures
               PROVE  Has(x)
    OBVIOUS
  <1>0. TypeOK /\ Flat /\ Anchors \subseteq Live
    BY Flattened, LiveRoots DEF LInv, IInv
  <1> USE DEF TypeOK
  <1>1. ASSUME NEW c \in Clients, NEW d \in Futures,
               NEW e \in Executors, AsyncMade(c, d, e)
         PROVE  Has(x)
    BY <1>1, <1>0 DEF AsyncMade, Enters
  <1>2. ASSUME NEW c \in Clients, NEW d \in Futures,
               NEW r \in Outcomes \cup {"broken"}, ReadyMade(c, d, r)
         PROVE  Has(x)
    BY <1>2, <1>0 DEF ReadyMade
  <1>3. ASSUME NEW c \in Clients, NEW s \in Futures, NEW d \in Futures,
               NEW e \in Executors \cup {"immediate"}, Watches(c, s, d, e)
         PROVE  Has(x)
    BY <1>3, <1>0 DEF Watches, Enters
  <1>4. ASSUME NEW c \in Clients, NEW s \in Futures, NEW d \in Futures,
               NEW k \in {"then", "recover", "detach"},
               NEW e \in Executors \cup {"immediate"},
               NEW H \in SUBSET handles[c], Chains(c, s, d, k, e, H)
         PROVE  Has(x)
    BY <1>4, <1>0 DEF Chains, Enters, Anchors, Fresh
  <1>5. ASSUME NEW c \in Clients, NEW s \in Futures,
               NEW d \in Futures, Detaches(c, s, d)
         PROVE  Has(x)
    BY <1>5, <1>0 DEF Detaches, Anchors, Fresh
  <1>6. ASSUME NEW c \in Clients, NEW s \in Futures,
               NEW d \in Futures, AttachFirst(c, s, d)
         PROVE  Has(x)
    BY <1>6, <1>0 DEF AttachFirst, NoOp
  <1>7. ASSUME NEW c \in Clients, NEW d \in Futures, SubmitCalls(c, d)
         PROVE  Has(x)
    BY <1>7, <1>0 DEF SubmitCalls
  <1>8. ASSUME NEW c \in Clients, NEW d \in Futures, SubmitQueues(c, d)
         PROVE  Has(x)
    BY <1>8, <1>0 DEF SubmitQueues, NoOp
  <1>9. ASSUME NEW c \in Clients, NEW d \in Futures, Returns(c, d)
         PROVE  Has(x)
    BY <1>9, <1>0 DEF Returns, NoOp
  <1>10. ASSUME NEW c \in Clients, AttachLate(c)
         PROVE  Has(x)
    BY <1>10, <1>0 DEF AttachLate
  <1>11. ASSUME NEW c \in Clients, NEW s \in Futures, Release(c, s)
         PROVE  Has(x)
    BY <1>11, <1>0 DEF Release, Idle
  <1>12. ASSUME NEW c \in Clients, NEW s \in Futures,
               NEW u \in BOOLEAN, Takes(c, s, u)
         PROVE  Has(x)
    BY <1>12, <1>0 DEF Takes, Enters
  <1>13. ASSUME NEW c \in Clients, NEW s \in Futures, TakeMoves(c, s)
         PROVE  Has(x)
    BY <1>13, <1>0 DEF TakeMoves, NoOp
  <1>14. ASSUME NEW c \in Clients, NEW H \in SUBSET handles[c], TakeCopies(c, H)
         PROVE  Has(x)
    BY <1>14, <1>0 DEF TakeCopies, NoOp
  <1>15. ASSUME NEW c \in Clients, NEW s \in Futures,
               NEW other \in Clients, Share(c, other, s)
         PROVE  Has(x)
    BY <1>15, <1>0 DEF Share, Idle
  <1>16. ASSUME NEW d \in Futures, Called(d)
         PROVE  Has(x)
    BY <1>16, <1>0 DEF Called
  <1>17. ASSUME NEW d \in Futures, Canceled(d)
         PROVE  Has(x)
    BY <1>17, <1>0 DEF Canceled
  <1>18. ASSUME NEW d \in Futures, Begins(d)
         PROVE  Has(x)
    BY <1>18, <1>0 DEF Begins
  <1>19. ASSUME NEW d \in Futures, Breaks(d)
         PROVE  Has(x)
    BY <1>19, <1>0 DEF Breaks
  <1>20. ASSUME NEW d \in Futures, NEW r, NEW res, Runs(d, r, res)
         PROVE  Has(x)
    BY <1>20, <1>0 DEF Runs
  <1>21. ASSUME NEW d \in Futures, NEW q \in Futures,
               NEW h \in Futures, Reducing(d, q, h)
         PROVE  Has(x)
    BY <1>21, <1>0 DEF Reducing, Anchors, Fresh
  <1>22. ASSUME NEW d \in Futures, NEW h \in Futures, HoldCalled(d, h)
         PROVE  Has(x)
    BY <1>22, <1>0 DEF HoldCalled
  <1>23. ASSUME NEW d \in Futures, NEW h \in Futures,
               NEW q \in Futures, HoldAttached(d, h, q)
         PROVE  Has(x)
    BY <1>23, <1>0 DEF HoldAttached
  <1>24. ASSUME NEW d \in Futures, Finish(d)
         PROVE  Has(x)
    BY <1>24, <1>0 DEF Finish
  <1>25. ASSUME NEW d \in Futures, Ends(d)
         PROVE  Has(x)
    BY <1>25, <1>0 DEF Ends
  <1>26. ASSUME NEW d \in Futures, NEW res, Relays(d, res)
         PROVE  Has(x)
    BY <1>26, <1>0 DEF Relays
  <1>27. ASSUME NEW d \in Futures, Publish(d)
         PROVE  Has(x)
    BY <1>27, <1>0 DEF Publish, MovedFrom
  <1>28. ASSUME NEW d \in Futures, DispatchReturn(d)
         PROVE  Has(x)
    BY <1>28, <1>0 DEF DispatchReturn, Rest
  <1>29. ASSUME NEW d \in Futures, Settled(d)
         PROVE  Has(x)
    BY <1>29, <1>0 DEF Settled
  <1>30. ASSUME NEW d \in Futures, NEW e \in Futures, DispatchCalls(d, e)
         PROVE  Has(x)
    BY <1>30, <1>0 DEF DispatchCalls
  <1>31. ASSUME NEW d \in Futures, NEW e \in Futures, DispatchQueues(d, e)
         PROVE  Has(x)
    BY <1>31, <1>0 DEF DispatchQueues
  <1>32. CASE UNCHANGED vars
    BY <1>32, <1>0 DEF vars
  <1> HIDE DEF TypeOK
  <1>33. ASSUME NEW c \in Clients, NEW d \in Futures, Makes(c, d)
         PROVE  Has(x)
    BY <1>33, <1>1, <1>2, <1>3, <1>5 DEF Makes
  <1>34. ASSUME NEW c \in Clients, NEW d \in Futures, Continues(c, d)
         PROVE  Has(x)
    BY <1>34, <1>4 DEF Continues
  <1>35. ASSUME NEW c \in Clients, NEW d \in Futures, Gives(c, d)
         PROVE  Has(x)
    BY <1>35, <1>6, <1>7, <1>8, <1>9 DEF Gives
  <1>36. ASSUME NEW c \in Clients, Uses(c)
         PROVE  Has(x)
    BY <1>36, <1>10, <1>11, <1>12, <1>13, <1>14, <1>15 DEF Uses
  <1>37. ASSUME NEW d \in Futures, Works(d)
         PROVE  Has(x)
    BY <1>37, <1>16, <1>17, <1>18, <1>19, <1>20, <1>21, <1>22, <1>23, <1>24, <1>25, <1>26,
       <1>27, <1>28, <1>29, <1>30, <1>31 DEF Works
  <1> QED
    BY <1>0, <1>32, <1>33, <1>34, <1>35, <1>36, <1>37 DEF Flat

\* No step brings a state back.
LEMMA LiveStep == LInv /\ [Next]_vars => Live' \subseteq Live \cup Fresh
  BY RootsStep, OwnersStep, LiveFrom DEF LInv

LEMMA OriginsStep == LInv /\ [Next]_vars => Origins'
  <1> SUFFICES ASSUME LInv, [Next]_vars PROVE Origins'
    OBVIOUS
  <1>0. /\ IInv /\ TypeOK /\ Blank /\ Known /\ Phases /\ Reductions
        /\ Calls /\ Returning /\ Origins /\ Flat
    BY Flattened, StepInv DEF LInv, IInv, Results
  <1> USE FutureAssumption DEF FutureAssumption, TypeOK, Blank, Known, Created, Reductions,
          Origins, IsFuture, Visible, Callback, Kinds
  <1>1. ASSUME NEW c \in Clients, NEW d \in Futures,
               NEW e \in Executors, AsyncMade(c, d, e)
         PROVE  Origins'
    BY <1>1, <1>0 DEF AsyncMade, Enters
  <1>2. ASSUME NEW c \in Clients, NEW d \in Futures,
               NEW r \in Outcomes \cup {"broken"}, ReadyMade(c, d, r)
         PROVE  Origins'
    BY <1>2, <1>0 DEF ReadyMade
  <1>3. ASSUME NEW c \in Clients, NEW s \in Futures, NEW d \in Futures,
               NEW e \in Executors \cup {"immediate"}, Watches(c, s, d, e)
         PROVE  Origins'
    BY <1>3, <1>0 DEF Watches, Enters
  <1>4. ASSUME NEW c \in Clients, NEW s \in Futures, NEW d \in Futures,
               NEW k \in {"then", "recover", "detach"},
               NEW e \in Executors \cup {"immediate"},
               NEW H \in SUBSET handles[c], Chains(c, s, d, k, e, H)
         PROVE  Origins'
    <2>1. IsFuture(s) /\ s # d /\ s \in Futures
      BY <1>4, <1>0 DEF Chains
    <2>2. /\ kind' = [kind EXCEPT ![d] = k] /\ at' = [at EXCEPT ![d] = s]
          /\ src' = [src EXCEPT ![d] = s] /\ task' = [task EXCEPT ![d] = "local"]
          /\ handles' = [handles EXCEPT ![c] = H]
          /\ UNCHANGED << into, hold, result, invoke >>
          /\ exec' = [exec EXCEPT ![d] = e] /\ kind[d] = "none"
      BY <1>4 DEF Chains
    <2> QED
      BY <1>0, <2>1, <2>2
  <1>5. ASSUME NEW c \in Clients, NEW s \in Futures,
               NEW d \in Futures, Detaches(c, s, d)
         PROVE  Origins'
    <2>1. IsFuture(s) /\ s # d /\ s \in Futures
      BY <1>5, <1>0 DEF Detaches
    <2>2. /\ kind' = [kind EXCEPT ![d] = "detach"] /\ at' = [at EXCEPT ![d] = s]
          /\ src' = [src EXCEPT ![d] = s] /\ task' = [task EXCEPT ![d] = "attached"]
          /\ handles' = [handles EXCEPT ![c] = @ \ {s}]
          /\ UNCHANGED << into, hold, result, invoke >>
          /\ exec' = [exec EXCEPT ![d] = "immediate"] /\ kind[d] = "none"
      BY <1>5 DEF Detaches
    <2> QED
      BY <1>0, <2>1, <2>2
  <1>6. ASSUME NEW c \in Clients, NEW s \in Futures,
               NEW d \in Futures, AttachFirst(c, s, d)
         PROVE  Origins'
    BY <1>6, <1>0 DEF AttachFirst, NoOp, Gift, Calls, Returning
  <1>7. ASSUME NEW c \in Clients, NEW d \in Futures, SubmitCalls(c, d)
         PROVE  Origins'
    BY <1>7, <1>0 DEF SubmitCalls, Gift, Calls, Returning
  <1>8. ASSUME NEW c \in Clients, NEW d \in Futures, SubmitQueues(c, d)
         PROVE  Origins'
    BY <1>8, <1>0 DEF SubmitQueues, NoOp, Gift, Calls, Returning
  <1>9. ASSUME NEW c \in Clients, NEW d \in Futures, Returns(c, d)
         PROVE  Origins'
    BY <1>9, <1>0 DEF Returns, NoOp, Gift, Calls, Returning
  <1>10. ASSUME NEW c \in Clients, AttachLate(c)
         PROVE  Origins'
    BY <1>10, <1>0 DEF AttachLate
  <1>11. ASSUME NEW c \in Clients, NEW s \in Futures, Release(c, s)
         PROVE  Origins'
    BY <1>11, <1>0 DEF Release, Idle
  <1>12. ASSUME NEW c \in Clients, NEW s \in Futures,
               NEW u \in BOOLEAN, Takes(c, s, u)
         PROVE  Origins'
    BY <1>12, <1>0 DEF Takes, Enters
  <1>13. ASSUME NEW c \in Clients, NEW s \in Futures, TakeMoves(c, s)
         PROVE  Origins'
    BY <1>13, <1>0 DEF TakeMoves, NoOp
  <1>14. ASSUME NEW c \in Clients, NEW H \in SUBSET handles[c], TakeCopies(c, H)
         PROVE  Origins'
    BY <1>14, <1>0 DEF TakeCopies, NoOp
  <1>15. ASSUME NEW c \in Clients, NEW s \in Futures,
               NEW other \in Clients, Share(c, other, s)
         PROVE  Origins'
    BY <1>15, <1>0 DEF Share, Idle
  <1>16. ASSUME NEW d \in Futures, Called(d)
         PROVE  Origins'
    BY <1>16, <1>0 DEF Called
  <1>17. ASSUME NEW d \in Futures, Canceled(d)
         PROVE  Origins'
    BY <1>17, <1>0 DEF Canceled
  <1>18. ASSUME NEW d \in Futures, Begins(d)
         PROVE  Origins'
    BY <1>18, <1>0 DEF Begins
  <1>19. ASSUME NEW d \in Futures, Breaks(d)
         PROVE  Origins'
    BY <1>19, <1>0 DEF Breaks
  <1>20. ASSUME NEW d \in Futures, NEW r, NEW res, Runs(d, r, res)
         PROVE  Origins'
    <2>1. kind[d] # "none" /\ (src[d] # NoFuture => src[d] \in Futures /\ kind[src[d]] # "none")
      BY <1>20, <1>0, Busy, SourceKnown DEF Runs
    <2>2. \A x \in Futures : kind[x] = "none" => result'[x] = "none"
      BY <1>20, <1>0, <2>1 DEF Runs, Took
    <2> QED
      BY <1>20, <1>0, <2>1, <2>2 DEF Runs
  <1>21. ASSUME NEW d \in Futures, NEW q \in Futures,
               NEW h \in Futures, Reducing(d, q, h)
         PROVE  Origins'
    <2>1. kind[d] # "none" /\ (src[d] # NoFuture => src[d] \in Futures /\ kind[src[d]] # "none")
      BY <1>21, <1>0, Busy, SourceKnown DEF Reducing
    <2>2. \A x \in Futures : kind[x] = "none" => result'[x] = "none"
      BY <1>21, <1>0, <2>1 DEF Reducing, Took
    <2>3. /\ q # d /\ h # d /\ h # q /\ kind[h] = "none" /\ kind[q] = "none"
          /\ kind'[q] = "async" /\ kind'[h] = "hold" /\ at'[h] = q
          /\ \A x \in Futures : x # q /\ x # h => kind'[x] = kind[x]
          /\ \A x \in Futures : x # h => at'[x] = at[x]
      BY <1>21, <1>0, <2>1 DEF Reducing
    <2>6. /\ \A x \in Futures : kind[x] \in {"none", "async", "ready"} <=> at[x] = NoFuture
          /\ \A x \in Futures : at[x] # NoFuture => kind[at[x]] \notin {"none", "watch", "detach"}
      BY <1>0
    <2>4. \A x \in Futures : kind'[x] \in {"none", "async", "ready"} <=> at'[x] = NoFuture
      BY <2>3, <2>6
    <2>5. \A x \in Futures : at'[x] # NoFuture => kind'[at'[x]] \notin {"none", "watch", "detach"}
      <3>1. \A x \in Futures : at[x] # NoFuture => at[x] \in Futures
        BY <1>0
      <3> QED
        BY <2>3, <2>6, <3>1
    <2> QED
      BY <1>21, <1>0, <2>1, <2>2, <2>3, <2>4, <2>5 DEF Reducing
  <1>22. ASSUME NEW d \in Futures, NEW h \in Futures, HoldCalled(d, h)
         PROVE  Origins'
    BY <1>22, <1>0 DEF HoldCalled
  <1>23. ASSUME NEW d \in Futures, NEW h \in Futures,
               NEW q \in Futures, HoldAttached(d, h, q)
         PROVE  Origins'
    BY <1>23, <1>0 DEF HoldAttached
  <1>24. ASSUME NEW d \in Futures, Finish(d)
         PROVE  Origins'
    BY <1>24, <1>0 DEF Finish
  <1>25. ASSUME NEW d \in Futures, Ends(d)
         PROVE  Origins'
    BY <1>25, <1>0 DEF Ends
  <1>26. ASSUME NEW d \in Futures, NEW res, Relays(d, res)
         PROVE  Origins'
    BY <1>26, <1>0 DEF Relays, Took, Phases
  <1>27. ASSUME NEW d \in Futures, Publish(d)
         PROVE  Origins'
    BY <1>27, <1>0 DEF Publish, MovedFrom
  <1>28. ASSUME NEW d \in Futures, DispatchReturn(d)
         PROVE  Origins'
    BY <1>28, <1>0 DEF DispatchReturn, Rest
  <1>29. ASSUME NEW d \in Futures, Settled(d)
         PROVE  Origins'
    BY <1>29, <1>0 DEF Settled
  <1>30. ASSUME NEW d \in Futures, NEW e \in Futures, DispatchCalls(d, e)
         PROVE  Origins'
    BY <1>30, <1>0 DEF DispatchCalls
  <1>31. ASSUME NEW d \in Futures, NEW e \in Futures, DispatchQueues(d, e)
         PROVE  Origins'
    BY <1>31, <1>0 DEF DispatchQueues
  <1>32. CASE UNCHANGED vars
    BY <1>32, <1>0 DEF vars
  <1> HIDE DEF TypeOK, Blank, Known, Created, Reductions, Origins, IsFuture, Visible,
          Callback, Kinds
  <1>33. ASSUME NEW c \in Clients, NEW d \in Futures, Makes(c, d)
         PROVE  Origins'
    BY <1>33, <1>1, <1>2, <1>3, <1>5 DEF Makes
  <1>34. ASSUME NEW c \in Clients, NEW d \in Futures, Continues(c, d)
         PROVE  Origins'
    BY <1>34, <1>4 DEF Continues
  <1>35. ASSUME NEW c \in Clients, NEW d \in Futures, Gives(c, d)
         PROVE  Origins'
    BY <1>35, <1>6, <1>7, <1>8, <1>9 DEF Gives
  <1>36. ASSUME NEW c \in Clients, Uses(c)
         PROVE  Origins'
    BY <1>36, <1>10, <1>11, <1>12, <1>13, <1>14, <1>15 DEF Uses
  <1>37. ASSUME NEW d \in Futures, Works(d)
         PROVE  Origins'
    BY <1>37, <1>16, <1>17, <1>18, <1>19, <1>20, <1>21, <1>22, <1>23, <1>24, <1>25, <1>26,
       <1>27, <1>28, <1>29, <1>30, <1>31 DEF Works
  <1> QED
    BY <1>0, <1>32, <1>33, <1>34, <1>35, <1>36, <1>37 DEF Flat

LEMMA ReturningStep == LInv /\ [Next]_vars => Returning'
  <1> SUFFICES ASSUME LInv, [Next]_vars PROVE Returning'
    OBVIOUS
  <1>0. /\ IInv /\ TypeOK /\ Lists /\ Blank /\ Known /\ Phases
        /\ Reductions /\ Calls /\ Returning /\ Origins /\ Flat
    BY Flattened, StepInv DEF LInv, IInv, Results
  <1> USE FutureAssumption DEF FutureAssumption, TypeOK, Blank, Known, Created, Calls,
          Returning, OpPc
  <1>1. ASSUME NEW c \in Clients, NEW d \in Futures,
               NEW e \in Executors, AsyncMade(c, d, e)
         PROVE  Returning'
    <2>1. op'[c].pc = "submit" /\ op'[c].d = d
      BY <1>1 DEF AsyncMade, Enters
    <2>2. \A b \in Clients : b # c => op'[b].pc = op[b].pc /\ op'[b].d = op[b].d
      BY <1>1 DEF AsyncMade, Enters
    <2>3. \A b \in Clients : op[b].d # d
      BY <1>1, <1>0, CallKnown DEF AsyncMade
    <2>4. \A b \in Clients : op[b].pc = "call" =>
             task'[op[b].d] = task[op[b].d] /\ kind'[op[b].d] = kind[op[b].d]
      BY <1>1, <1>0 DEF AsyncMade
    <2>5. Returning
      BY <1>0
    <2> QED
      BY <2>1, <2>2, <2>3, <2>4, <2>5, <1>1
  <1>2. ASSUME NEW c \in Clients, NEW d \in Futures,
               NEW r \in Outcomes \cup {"broken"}, ReadyMade(c, d, r)
         PROVE  Returning'
    BY <1>2, <1>0 DEF ReadyMade
  <1>3. ASSUME NEW c \in Clients, NEW s \in Futures, NEW d \in Futures,
               NEW e \in Executors \cup {"immediate"}, Watches(c, s, d, e)
         PROVE  Returning'
    <2>1. op'[c].pc = "attach" /\ op'[c].d = d
      BY <1>3 DEF Watches, Enters
    <2>2. \A b \in Clients : b # c => op'[b].pc = op[b].pc /\ op'[b].d = op[b].d
      BY <1>3 DEF Watches, Enters
    <2>3. \A b \in Clients : op[b].d # d
      BY <1>3, <1>0, CallKnown DEF Watches
    <2>4. \A b \in Clients : op[b].pc = "call" =>
             task'[op[b].d] = task[op[b].d] /\ kind'[op[b].d] = kind[op[b].d]
      BY <1>3, <1>0 DEF Watches
    <2>5. Returning
      BY <1>0
    <2> QED
      BY <2>1, <2>2, <2>3, <2>4, <2>5, <1>3
  <1>4. ASSUME NEW c \in Clients, NEW s \in Futures, NEW d \in Futures,
               NEW k \in {"then", "recover", "detach"},
               NEW e \in Executors \cup {"immediate"},
               NEW H \in SUBSET handles[c], Chains(c, s, d, k, e, H)
         PROVE  Returning'
    <2>1. op'[c].pc = "attach" /\ op'[c].d = d
      BY <1>4 DEF Chains, Enters
    <2>2. \A b \in Clients : b # c => op'[b].pc = op[b].pc /\ op'[b].d = op[b].d
      BY <1>4 DEF Chains, Enters
    <2>3. \A b \in Clients : op[b].d # d
      BY <1>4, <1>0, CallKnown DEF Chains
    <2>4. \A b \in Clients : op[b].pc = "call" =>
             task'[op[b].d] = task[op[b].d] /\ kind'[op[b].d] = kind[op[b].d]
      BY <1>4, <1>0 DEF Chains
    <2>5. Returning
      BY <1>0
    <2> QED
      BY <2>1, <2>2, <2>3, <2>4, <2>5, <1>4
  <1>5. ASSUME NEW c \in Clients, NEW s \in Futures,
               NEW d \in Futures, Detaches(c, s, d)
         PROVE  Returning'
    BY <1>5, <1>0 DEF Detaches
  <1>6. ASSUME NEW c \in Clients, NEW s \in Futures,
               NEW d \in Futures, AttachFirst(c, s, d)
         PROVE  Returning'
    BY <1>6, <1>0 DEF AttachFirst, NoOp
  <1>7. ASSUME NEW c \in Clients, NEW d \in Futures, SubmitCalls(c, d)
         PROVE  Returning'
    BY <1>7, <1>0 DEF SubmitCalls
  <1>8. ASSUME NEW c \in Clients, NEW d \in Futures, SubmitQueues(c, d)
         PROVE  Returning'
    BY <1>8, <1>0 DEF SubmitQueues, NoOp
  <1>9. ASSUME NEW c \in Clients, NEW d \in Futures, Returns(c, d)
         PROVE  Returning'
    BY <1>9, <1>0 DEF Returns, NoOp
  <1>10. ASSUME NEW c \in Clients, AttachLate(c)
         PROVE  Returning'
    BY <1>10, <1>0 DEF AttachLate
  <1>11. ASSUME NEW c \in Clients, NEW s \in Futures, Release(c, s)
         PROVE  Returning'
    BY <1>11, <1>0 DEF Release, Idle
  <1>12. ASSUME NEW c \in Clients, NEW s \in Futures,
               NEW u \in BOOLEAN, Takes(c, s, u)
         PROVE  Returning'
    <2>1. op'[c].pc = "take" /\ op'[c].d = NoFuture
      BY <1>12 DEF Takes, Enters
    <2>2. \A b \in Clients : b # c => op'[b].pc = op[b].pc /\ op'[b].d = op[b].d
      BY <1>12 DEF Takes, Enters
    <2>4. \A b \in Clients : op[b].pc = "call" =>
             task'[op[b].d] = task[op[b].d] /\ kind'[op[b].d] = kind[op[b].d]
      BY <1>12, <1>0 DEF Takes
    <2>5. Returning
      BY <1>0
    <2> QED
      BY <2>1, <2>2, <2>4, <2>5
  <1>13. ASSUME NEW c \in Clients, NEW s \in Futures, TakeMoves(c, s)
         PROVE  Returning'
    BY <1>13, <1>0 DEF TakeMoves, NoOp
  <1>14. ASSUME NEW c \in Clients, NEW H \in SUBSET handles[c], TakeCopies(c, H)
         PROVE  Returning'
    BY <1>14, <1>0 DEF TakeCopies, NoOp
  <1>15. ASSUME NEW c \in Clients, NEW s \in Futures,
               NEW other \in Clients, Share(c, other, s)
         PROVE  Returning'
    BY <1>15, <1>0 DEF Share, Idle
  <1>16. ASSUME NEW d \in Futures, Called(d)
         PROVE  Returning'
    BY <1>16, <1>0 DEF Called
  <1>17. ASSUME NEW d \in Futures, Canceled(d)
         PROVE  Returning'
    BY <1>17, <1>0 DEF Canceled
  <1>18. ASSUME NEW d \in Futures, Begins(d)
         PROVE  Returning'
    BY <1>18, <1>0 DEF Begins
  <1>19. ASSUME NEW d \in Futures, Breaks(d)
         PROVE  Returning'
    BY <1>19, <1>0 DEF Breaks
  <1>20. ASSUME NEW d \in Futures, NEW r, NEW res, Runs(d, r, res)
         PROVE  Returning'
    BY <1>20, <1>0 DEF Runs
  <1>21. ASSUME NEW d \in Futures, NEW q \in Futures,
               NEW h \in Futures, Reducing(d, q, h)
         PROVE  Returning'
    <2>1. \A b \in Clients : op[b].pc = "call" =>
             task'[op[b].d] = task[op[b].d] /\ kind'[op[b].d] = kind[op[b].d]
      BY <1>21, <1>0 DEF Reducing
    <2>2. Returning /\ op' = op
      BY <1>21, <1>0 DEF Reducing
    <2> QED
      BY <2>1, <2>2
  <1>22. ASSUME NEW d \in Futures, NEW h \in Futures, HoldCalled(d, h)
         PROVE  Returning'
    BY <1>22, <1>0 DEF HoldCalled
  <1>23. ASSUME NEW d \in Futures, NEW h \in Futures,
               NEW q \in Futures, HoldAttached(d, h, q)
         PROVE  Returning'
    BY <1>23, <1>0 DEF HoldAttached, Reductions
  <1>24. ASSUME NEW d \in Futures, Finish(d)
         PROVE  Returning'
    BY <1>24, <1>0 DEF Finish
  <1>25. ASSUME NEW d \in Futures, Ends(d)
         PROVE  Returning'
    BY <1>25, <1>0 DEF Ends
  <1>26. ASSUME NEW d \in Futures, NEW res, Relays(d, res)
         PROVE  Returning'
    BY <1>26, <1>0 DEF Relays
  <1>27. ASSUME NEW d \in Futures, Publish(d)
         PROVE  Returning'
    BY <1>27, <1>0 DEF Publish, MovedFrom
  <1>28. ASSUME NEW d \in Futures, DispatchReturn(d)
         PROVE  Returning'
    BY <1>28, <1>0 DEF DispatchReturn, Rest
  <1>29. ASSUME NEW d \in Futures, Settled(d)
         PROVE  Returning'
    BY <1>29, <1>0 DEF Settled
  <1>30. ASSUME NEW d \in Futures, NEW e \in Futures, DispatchCalls(d, e)
         PROVE  Returning'
    BY <1>30, <1>0 DEF DispatchCalls
  <1>31. ASSUME NEW d \in Futures, NEW e \in Futures, DispatchQueues(d, e)
         PROVE  Returning'
    <2>1. task[e] = "attached"
      BY <1>31, <1>0, Shortening DEF DispatchQueues, Lists, ListsOf
    <2> QED
      BY <1>31, <1>0, <2>1 DEF DispatchQueues
  <1>32. CASE UNCHANGED vars
    BY <1>32, <1>0 DEF vars
  <1> HIDE DEF TypeOK, Blank, Known, Created, Calls, Returning, OpPc
  <1>33. ASSUME NEW c \in Clients, NEW d \in Futures, Makes(c, d)
         PROVE  Returning'
    BY <1>33, <1>1, <1>2, <1>3, <1>5 DEF Makes
  <1>34. ASSUME NEW c \in Clients, NEW d \in Futures, Continues(c, d)
         PROVE  Returning'
    BY <1>34, <1>4 DEF Continues
  <1>35. ASSUME NEW c \in Clients, NEW d \in Futures, Gives(c, d)
         PROVE  Returning'
    BY <1>35, <1>6, <1>7, <1>8, <1>9 DEF Gives
  <1>36. ASSUME NEW c \in Clients, Uses(c)
         PROVE  Returning'
    BY <1>36, <1>10, <1>11, <1>12, <1>13, <1>14, <1>15 DEF Uses
  <1>37. ASSUME NEW d \in Futures, Works(d)
         PROVE  Returning'
    BY <1>37, <1>16, <1>17, <1>18, <1>19, <1>20, <1>21, <1>22, <1>23, <1>24, <1>25, <1>26,
       <1>27, <1>28, <1>29, <1>30, <1>31 DEF Works
  <1> QED
    BY <1>0, <1>32, <1>33, <1>34, <1>35, <1>36, <1>37 DEF Flat

LEMMA InHandStep == LInv /\ [Next]_vars => InHand'
  <1> SUFFICES ASSUME LInv, [Next]_vars PROVE InHand'
    OBVIOUS
  <1>0. IInv /\ TypeOK /\ Blank /\ Known /\ Calls /\ Returning /\ InHand /\ Flat
    BY Flattened, StepInv DEF LInv, IInv, Results
  <1> USE FutureAssumption DEF FutureAssumption, TypeOK, Blank, Known, Created, Calls,
          Returning, InHand, OpPc
  <1>1. ASSUME NEW c \in Clients, NEW d \in Futures,
               NEW e \in Executors, AsyncMade(c, d, e)
         PROVE  InHand'
    <2>1. op'[c].pc = "submit"
      BY <1>1 DEF AsyncMade, Enters
    <2>2. \A b \in Clients : b # c => op'[b] = op[b]
      BY <1>1 DEF AsyncMade, Enters
    <2>3. \A b \in Clients : op[b].pc = "attach" =>
             kind'[op[b].d] = kind[op[b].d] /\ src'[op[b].d] = src[op[b].d]
      BY <1>1, <1>0 DEF AsyncMade, Calls
    <2>4. InHand
      BY <1>0
    <2> QED
      BY <1>1, <2>1, <2>2, <2>3, <2>4 DEF AsyncMade
  <1>2. ASSUME NEW c \in Clients, NEW d \in Futures,
               NEW r \in Outcomes \cup {"broken"}, ReadyMade(c, d, r)
         PROVE  InHand'
    BY <1>2, <1>0 DEF ReadyMade
  <1>3. ASSUME NEW c \in Clients, NEW s \in Futures, NEW d \in Futures,
               NEW e \in Executors \cup {"immediate"}, Watches(c, s, d, e)
         PROVE  InHand'
    <2>1. op'[c].pc = "attach" /\ op'[c].s = s /\ op'[c].d = d
      BY <1>3 DEF Watches, Enters
    <2>2. \A b \in Clients : b # c => op'[b] = op[b]
      BY <1>3 DEF Watches, Enters
    <2>3. \A b \in Clients : op[b].pc = "attach" =>
             kind'[op[b].d] = kind[op[b].d] /\ src'[op[b].d] = src[op[b].d]
      BY <1>3, <1>0 DEF Watches, Calls
    <2>4. InHand
      BY <1>0
    <2>5. op'[c].s \in handles'[c] /\ kind'[op'[c].d] = "watch"
      BY <1>3, <1>0, <2>1 DEF Watches
    <2>6. handles' = handles
      BY <1>3 DEF Watches
    <2>7. \A b \in Clients : op[b].pc = "attach" =>
             \/ b = c \/ (kind'[op'[b].d] = "watch" /\ op'[b].s \in handles'[b])
             \/ src'[op'[b].d] = op'[b].s
      BY <2>2, <2>3, <2>4, <2>6
    <2> QED
      BY <2>1, <2>2, <2>4, <2>5, <2>6, <2>7
  <1>4. ASSUME NEW c \in Clients, NEW s \in Futures, NEW d \in Futures,
               NEW k \in {"then", "recover", "detach"},
               NEW e \in Executors \cup {"immediate"},
               NEW H \in SUBSET handles[c], Chains(c, s, d, k, e, H)
         PROVE  InHand'
    BY <1>4, <1>0 DEF Chains, Enters
  <1>5. ASSUME NEW c \in Clients, NEW s \in Futures,
               NEW d \in Futures, Detaches(c, s, d)
         PROVE  InHand'
    BY <1>5, <1>0 DEF Detaches
  <1>6. ASSUME NEW c \in Clients, NEW s \in Futures,
               NEW d \in Futures, AttachFirst(c, s, d)
         PROVE  InHand'
    BY <1>6, <1>0 DEF AttachFirst, NoOp
  <1>7. ASSUME NEW c \in Clients, NEW d \in Futures, SubmitCalls(c, d)
         PROVE  InHand'
    BY <1>7, <1>0 DEF SubmitCalls
  <1>8. ASSUME NEW c \in Clients, NEW d \in Futures, SubmitQueues(c, d)
         PROVE  InHand'
    BY <1>8, <1>0 DEF SubmitQueues, NoOp
  <1>9. ASSUME NEW c \in Clients, NEW d \in Futures, Returns(c, d)
         PROVE  InHand'
    BY <1>9, <1>0 DEF Returns, NoOp
  <1>10. ASSUME NEW c \in Clients, AttachLate(c)
         PROVE  InHand'
    BY <1>10, <1>0 DEF AttachLate
  <1>11. ASSUME NEW c \in Clients, NEW s \in Futures, Release(c, s)
         PROVE  InHand'
    BY <1>11, <1>0 DEF Release, Idle
  <1>12. ASSUME NEW c \in Clients, NEW s \in Futures,
               NEW u \in BOOLEAN, Takes(c, s, u)
         PROVE  InHand'
    <2>1. op'[c].pc = "take" /\ op'[c].s = s /\ op'[c].d = NoFuture
      BY <1>12 DEF Takes, Enters
    <2>2. \A b \in Clients : b # c => op'[b] = op[b]
      BY <1>12 DEF Takes, Enters
    <2>3. \A b \in Clients : op[b].pc = "attach" =>
             kind'[op[b].d] = kind[op[b].d] /\ src'[op[b].d] = src[op[b].d]
      BY <1>12, <1>0 DEF Takes, Calls
    <2>4. InHand
      BY <1>0
    <2> QED
      BY <1>12, <2>1, <2>2, <2>3, <2>4 DEF Takes
  <1>13. ASSUME NEW c \in Clients, NEW s \in Futures, TakeMoves(c, s)
         PROVE  InHand'
    BY <1>13, <1>0 DEF TakeMoves, NoOp
  <1>14. ASSUME NEW c \in Clients, NEW H \in SUBSET handles[c], TakeCopies(c, H)
         PROVE  InHand'
    BY <1>14, <1>0 DEF TakeCopies, NoOp
  <1>15. ASSUME NEW c \in Clients, NEW s \in Futures,
               NEW other \in Clients, Share(c, other, s)
         PROVE  InHand'
    BY <1>15, <1>0 DEF Share, Idle
  <1>16. ASSUME NEW d \in Futures, Called(d)
         PROVE  InHand'
    BY <1>16, <1>0 DEF Called
  <1>17. ASSUME NEW d \in Futures, Canceled(d)
         PROVE  InHand'
    BY <1>17, <1>0 DEF Canceled
  <1>18. ASSUME NEW d \in Futures, Begins(d)
         PROVE  InHand'
    BY <1>18, <1>0 DEF Begins
  <1>19. ASSUME NEW d \in Futures, Breaks(d)
         PROVE  InHand'
    BY <1>19, <1>0 DEF Breaks
  <1>20. ASSUME NEW d \in Futures, NEW r, NEW res, Runs(d, r, res)
         PROVE  InHand'
    BY <1>20, <1>0 DEF Runs
  <1>21. ASSUME NEW d \in Futures, NEW q \in Futures,
               NEW h \in Futures, Reducing(d, q, h)
         PROVE  InHand'
    BY <1>21, <1>0 DEF Reducing
  <1>22. ASSUME NEW d \in Futures, NEW h \in Futures, HoldCalled(d, h)
         PROVE  InHand'
    BY <1>22, <1>0 DEF HoldCalled
  <1>23. ASSUME NEW d \in Futures, NEW h \in Futures,
               NEW q \in Futures, HoldAttached(d, h, q)
         PROVE  InHand'
    <2>1. \A b \in Clients : op[b].pc = "attach" => op[b].d # d
      BY <1>23, <1>0, Busy DEF HoldAttached, Calls
    <2> QED
      BY <1>23, <1>0, <2>1 DEF HoldAttached
  <1>24. ASSUME NEW d \in Futures, Finish(d)
         PROVE  InHand'
    <2>1. \A b \in Clients : op[b].pc = "attach" => op[b].d # d
      BY <1>24, <1>0, Busy DEF Finish, Calls
    <2> QED
      BY <1>24, <1>0, <2>1 DEF Finish
  <1>25. ASSUME NEW d \in Futures, Ends(d)
         PROVE  InHand'
    BY <1>25, <1>0 DEF Ends
  <1>26. ASSUME NEW d \in Futures, NEW res, Relays(d, res)
         PROVE  InHand'
    BY <1>26, <1>0 DEF Relays
  <1>27. ASSUME NEW d \in Futures, Publish(d)
         PROVE  InHand'
    BY <1>27, <1>0 DEF Publish, MovedFrom
  <1>28. ASSUME NEW d \in Futures, DispatchReturn(d)
         PROVE  InHand'
    BY <1>28, <1>0 DEF DispatchReturn, Rest
  <1>29. ASSUME NEW d \in Futures, Settled(d)
         PROVE  InHand'
    BY <1>29, <1>0 DEF Settled
  <1>30. ASSUME NEW d \in Futures, NEW e \in Futures, DispatchCalls(d, e)
         PROVE  InHand'
    BY <1>30, <1>0 DEF DispatchCalls
  <1>31. ASSUME NEW d \in Futures, NEW e \in Futures, DispatchQueues(d, e)
         PROVE  InHand'
    BY <1>31, <1>0 DEF DispatchQueues
  <1>32. CASE UNCHANGED vars
    BY <1>32, <1>0 DEF vars
  <1> HIDE DEF TypeOK, Blank, Known, Created, Calls, Returning, InHand, OpPc
  <1>33. ASSUME NEW c \in Clients, NEW d \in Futures, Makes(c, d)
         PROVE  InHand'
    BY <1>33, <1>1, <1>2, <1>3, <1>5 DEF Makes
  <1>34. ASSUME NEW c \in Clients, NEW d \in Futures, Continues(c, d)
         PROVE  InHand'
    BY <1>34, <1>4 DEF Continues
  <1>35. ASSUME NEW c \in Clients, NEW d \in Futures, Gives(c, d)
         PROVE  InHand'
    BY <1>35, <1>6, <1>7, <1>8, <1>9 DEF Gives
  <1>36. ASSUME NEW c \in Clients, Uses(c)
         PROVE  InHand'
    BY <1>36, <1>10, <1>11, <1>12, <1>13, <1>14, <1>15 DEF Uses
  <1>37. ASSUME NEW d \in Futures, Works(d)
         PROVE  InHand'
    BY <1>37, <1>16, <1>17, <1>18, <1>19, <1>20, <1>21, <1>22, <1>23, <1>24, <1>25, <1>26,
       <1>27, <1>28, <1>29, <1>30, <1>31 DEF Works
  <1> QED
    BY <1>0, <1>32, <1>33, <1>34, <1>35, <1>36, <1>37 DEF Flat

\* Handles and calls that come to an end leave the owners as they are.
LEMMA OwnersFewer ==
  ASSUME OneOwner, at' = at, kind' = kind,
         \A c \in Clients : handles'[c] \subseteq handles[c],
         \A c \in Clients : op'[c].d \in {op[c].d, NoFuture},
         \A c \in Clients : op'[c].pc = "attach" =>
            op[c].pc = "attach" /\ op'[c].s = op[c].s /\ op'[c].d = op[c].d,
         \A h \in Futures : kind[h] = "hold" => at[h] # NoFuture
  PROVE  OneOwner'
  <1> SUFFICES ASSUME MoveOnly
               PROVE  (HeldOnce /\ HeldWhole /\ NotGiven /\ ConsumedOnce /\ AttachedOnce /\ Inside)'
    BY DEF OneOwner
  <1>0. HeldOnce /\ HeldWhole /\ NotGiven /\ ConsumedOnce /\ AttachedOnce /\ Inside
    BY DEF OneOwner
  <1>1. HeldOnce'
    BY <1>0 DEF HeldOnce
  <1>2. HeldWhole'
    BY <1>0 DEF HeldWhole
  <1>3. NotGiven'
    <2> SUFFICES ASSUME NEW c \in Clients, (op[c].d # NoFuture)', IsFuture(op[c].d)'
                 PROVE  /\ \A b \in Clients : op'[c].d \notin handles'[b]
                        /\ \A d \in Futures : at'[d] # op'[c].d
      BY DEF NotGiven
    <2>1. op'[c].d = op[c].d /\ IsFuture(op[c].d)
      BY DEF IsFuture
    <2> QED
      BY <1>0, <2>1 DEF NotGiven
  <1>4. ConsumedOnce' /\ AttachedOnce'
    BY <1>0 DEF ConsumedOnce, AttachedOnce
  <1>5. Inside'
    BY <1>0 DEF Inside
  <1> QED
    BY <1>1, <1>2, <1>3, <1>4, <1>5

\* So does a call that returns its future to its client.
LEMMA OwnersGiven ==
  ASSUME OneOwner, TypeOK, Returning, at' = at, kind' = kind,
         NEW c \in Clients, NEW d, d = op[c].d, d \in Futures,
         handles' = [handles EXCEPT ![c] = @ \cup Gift(d)],
         op' = [op EXCEPT ![c] = NoOp],
         \A h \in Futures : kind[h] = "hold" => at[h] # NoFuture
  PROVE  OneOwner'
  <1> SUFFICES ASSUME MoveOnly
               PROVE  (HeldOnce /\ HeldWhole /\ NotGiven /\ ConsumedOnce /\ AttachedOnce /\ Inside)'
    BY DEF OneOwner
  <1>0. HeldOnce /\ HeldWhole /\ NotGiven /\ ConsumedOnce /\ AttachedOnce /\ Inside
    BY DEF OneOwner
  <1>1. /\ handles'[c] = handles[c] \cup Gift(d)
        /\ \A b \in Clients : b # c => handles'[b] = handles[b] /\ op'[b] = op[b]
        /\ op'[c].d = NoFuture /\ op'[c].pc = "idle"
    BY DEF TypeOK, NoOp
  <1>2. \A s \in Gift(d) : /\ s = d /\ d # NoFuture /\ IsFuture(d)
                           /\ \A b \in Clients : d \notin handles[b]
                           /\ \A x \in Futures : at[x] # d
    BY <1>0, FutureAssumption DEF Gift, NotGiven, FutureAssumption
  <1>3. HeldOnce'
    BY <1>0, <1>1, <1>2 DEF HeldOnce
  <1>4. HeldWhole'
    BY <1>0, <1>1, <1>2 DEF HeldWhole
  <1>5. NotGiven'
    <2> SUFFICES ASSUME NEW b \in Clients, (op[b].d # NoFuture)', IsFuture(op[b].d)'
                 PROVE  /\ \A a \in Clients : op'[b].d \notin handles'[a]
                        /\ \A x \in Futures : at'[x] # op'[b].d
      BY DEF NotGiven
    <2>1. b # c /\ op'[b] = op[b] /\ IsFuture(op[b].d)
      BY <1>1 DEF IsFuture
    <2>2. op[b].d # d
      BY <2>1 DEF Returning
    <2> QED
      BY <1>0, <1>1, <1>2, <2>1, <2>2 DEF NotGiven
  <1>6. ConsumedOnce' /\ AttachedOnce'
    BY <1>0, <1>1 DEF ConsumedOnce, AttachedOnce
  <1>7. Inside'
    BY <1>0, <1>1, <1>2 DEF Inside
  <1> QED
    BY <1>3, <1>4, <1>5, <1>6, <1>7

\* Every continuation, and the one in a reduction above all, was attached to a future.
LEMMA HoldsSource ==
  ASSUME IInv, Origins, NEW h \in Futures, kind[h] = "hold"
  PROVE  at[h] # NoFuture /\ at[h] \in Futures /\ kind[at[h]] # "none"
  <1> QED
    BY DEF IInv, Known, Origins, Created

\* Nothing refers to a member that is still to be created.
LEMMA FreshUnused ==
  ASSUME IInv, Origins, Returning, NEW d \in Futures, kind[d] = "none"
  PROVE  /\ \A c \in Clients : d \notin handles[c] /\ op[c].d # d
         /\ \A c \in Clients : op[c].pc = "attach" => op[c].s # d
         /\ \A x \in Futures : at[x] # d
         /\ at[d] = NoFuture /\ d # NoFuture
  <1>1. d # NoFuture /\ at[d] = NoFuture /\ \A x \in Futures : at[x] # d
    BY FutureAssumption DEF FutureAssumption, IInv, Blank, Known, Created
  <1>2. \A c \in Clients : d \notin handles[c] /\ op[c].d # d
    BY <1>1, HandleKnown, CallKnown
  <1>3. \A c \in Clients : op[c].pc = "attach" => op[c].s # d
    BY <1>1 DEF IInv, Calls
  <1> QED
    BY <1>1, <1>2, <1>3

\* A move-only future whose continuation slot is free, and that a client holds, has no
\* continuation.
LEMMA NoContinuation ==
  ASSUME IInv, OneOwner, MoveOnly, NEW c \in Clients, NEW s \in handles[c], ~SlotUsed(s)
  PROVE  /\ \A x \in Futures : at[x] # s
         /\ \A b \in Clients : op[b].pc = "attach" => op[b].s # s
  <1>1. \A x \in Futures : at[x] # s
    BY DEF OneOwner, HeldWhole, SlotUsed
  <1> QED
    BY <1>1 DEF IInv, Calls

LEMMA OneOwnerStep == LInv /\ [Next]_vars => OneOwner'
  <1> SUFFICES ASSUME LInv, [Next]_vars PROVE OneOwner'
    OBVIOUS
  <1>0. IInv /\ TypeOK /\ Returning /\ Origins /\ OneOwner /\ Flat
    BY Flattened, StepInv DEF LInv, IInv, Results
  <1>live. \A h \in Futures : kind[h] = "hold" => at[h] # NoFuture
    BY <1>0 DEF Origins
  <1> USE FutureAssumption DEF FutureAssumption, TypeOK
  <1>1. ASSUME NEW c \in Clients, NEW d \in Futures,
               NEW e \in Executors, AsyncMade(c, d, e)
         PROVE  OneOwner'
    <2> SUFFICES ASSUME MoveOnly
                 PROVE  (HeldOnce /\ HeldWhole /\ NotGiven /\ ConsumedOnce
                            /\ AttachedOnce /\ Inside)'
      BY DEF OneOwner
    <2>0. HeldOnce /\ HeldWhole /\ NotGiven /\ ConsumedOnce /\ AttachedOnce /\ Inside
      BY <1>0 DEF OneOwner
    <2>1. /\ d # NoFuture /\ at[d] = NoFuture
          /\ \A b \in Clients : d \notin handles[b] /\ op[b].d # d
          /\ \A b \in Clients : op[b].pc = "attach" => op[b].s # d
          /\ \A x \in Futures : at[x] # d
          /\ \A x \in Futures : x # d => kind'[x] = kind[x]
          /\ \A b \in Clients : NoFuture \notin handles[b] /\ op[b].d \in Futures \cup {NoFuture}
          /\ handles' = handles
          /\ \A b \in Clients : b # c => op'[b] = op[b]
          /\ at' = at
          /\ kind'[d] = "async" /\ op'[c].d = d /\ op'[c].pc = "submit" 
      BY <1>1, <1>0, FreshUnused, NoContinuation DEF AsyncMade, Enters
    <2>2. HeldOnce'
      BY <2>0, <2>1 DEF HeldOnce
    <2>3. HeldWhole'
      BY <2>0, <2>1 DEF HeldWhole, HeldOnce
    <2>4. NotGiven'
      BY <2>0, <2>1 DEF NotGiven, IsFuture
    <2>5. ConsumedOnce'
      BY <2>0, <2>1 DEF ConsumedOnce
    <2>6. AttachedOnce'
      BY <2>0, <2>1 DEF AttachedOnce
    <2>7. Inside'
      BY <2>0, <2>1 DEF Inside
    <2> QED
      BY <2>2, <2>3, <2>4, <2>5, <2>6, <2>7
  <1>2. ASSUME NEW c \in Clients, NEW d \in Futures,
               NEW r \in Outcomes \cup {"broken"}, ReadyMade(c, d, r)
         PROVE  OneOwner'
    <2> SUFFICES ASSUME MoveOnly
                 PROVE  (HeldOnce /\ HeldWhole /\ NotGiven /\ ConsumedOnce
                            /\ AttachedOnce /\ Inside)'
      BY DEF OneOwner
    <2>0. HeldOnce /\ HeldWhole /\ NotGiven /\ ConsumedOnce /\ AttachedOnce /\ Inside
      BY <1>0 DEF OneOwner
    <2>1. /\ d # NoFuture /\ at[d] = NoFuture
          /\ \A b \in Clients : d \notin handles[b] /\ op[b].d # d
          /\ \A b \in Clients : op[b].pc = "attach" => op[b].s # d
          /\ \A x \in Futures : at[x] # d
          /\ \A x \in Futures : x # d => kind'[x] = kind[x]
          /\ \A b \in Clients : NoFuture \notin handles[b] /\ op[b].d \in Futures \cup {NoFuture}
          /\ op' = op
          /\ at' = at
          /\ kind'[d] = "ready" /\ handles'[c] = handles[c] \cup {d}
          /\ \A b \in Clients : b # c => handles'[b] = handles[b]
      BY <1>2, <1>0, FreshUnused, NoContinuation DEF ReadyMade, Enters
    <2>2. HeldOnce'
      BY <2>0, <2>1 DEF HeldOnce
    <2>3. HeldWhole'
      BY <2>0, <2>1 DEF HeldWhole, HeldOnce
    <2>4. NotGiven'
      BY <2>0, <2>1 DEF NotGiven, IsFuture
    <2>5. ConsumedOnce'
      BY <2>0, <2>1 DEF ConsumedOnce
    <2>6. AttachedOnce'
      BY <2>0, <2>1 DEF AttachedOnce
    <2>7. Inside'
      BY <2>0, <2>1 DEF Inside
    <2> QED
      BY <2>2, <2>3, <2>4, <2>5, <2>6, <2>7
  <1>3. ASSUME NEW c \in Clients, NEW s \in Futures, NEW d \in Futures,
               NEW e \in Executors \cup {"immediate"}, Watches(c, s, d, e)
         PROVE  OneOwner'
    <2> SUFFICES ASSUME MoveOnly
                 PROVE  (HeldOnce /\ HeldWhole /\ NotGiven /\ ConsumedOnce
                            /\ AttachedOnce /\ Inside)'
      BY DEF OneOwner
    <2>0. HeldOnce /\ HeldWhole /\ NotGiven /\ ConsumedOnce /\ AttachedOnce /\ Inside
      BY <1>0 DEF OneOwner
    <2>1. /\ d # NoFuture /\ at[d] = NoFuture
          /\ \A b \in Clients : d \notin handles[b] /\ op[b].d # d
          /\ \A b \in Clients : op[b].pc = "attach" => op[b].s # d
          /\ \A x \in Futures : at[x] # d
          /\ \A x \in Futures : x # d => kind'[x] = kind[x]
          /\ \A b \in Clients : NoFuture \notin handles[b] /\ op[b].d \in Futures \cup {NoFuture}
          /\ handles' = handles
          /\ \A b \in Clients : b # c => op'[b] = op[b]
          /\ \A x \in Futures : x # d => at'[x] = at[x]
          /\ at'[d] = s /\ s # d /\ s # NoFuture /\ s \in Futures /\ s \in handles[c]
          /\ \A x \in Futures : at[x] # s
          /\ \A b \in Clients : op[b].pc = "attach" => op[b].s # s
          /\ kind'[d] = "watch" /\ op'[c].d = d /\ op'[c].s = s
      BY <1>3, <1>0, FreshUnused, NoContinuation, HandleKnown DEF Watches, Enters
    <2>2. HeldOnce'
      BY <2>0, <2>1 DEF HeldOnce
    <2>3. HeldWhole'
      BY <2>0, <2>1 DEF HeldWhole, HeldOnce
    <2>4. NotGiven'
      BY <2>0, <2>1 DEF NotGiven, IsFuture
    <2>5. ConsumedOnce'
      BY <2>0, <2>1 DEF ConsumedOnce
    <2>6. AttachedOnce'
      BY <2>0, <2>1 DEF AttachedOnce
    <2>7. Inside'
      BY <2>0, <2>1 DEF Inside
    <2> QED
      BY <2>2, <2>3, <2>4, <2>5, <2>6, <2>7
  <1>4. ASSUME NEW c \in Clients, NEW s \in Futures, NEW d \in Futures,
               NEW k \in {"then", "recover", "detach"},
               NEW e \in Executors \cup {"immediate"},
               NEW H \in SUBSET handles[c], Chains(c, s, d, k, e, H)
         PROVE  OneOwner'
    <2> SUFFICES ASSUME MoveOnly
                 PROVE  (HeldOnce /\ HeldWhole /\ NotGiven /\ ConsumedOnce
                            /\ AttachedOnce /\ Inside)'
      BY DEF OneOwner
    <2>0. HeldOnce /\ HeldWhole /\ NotGiven /\ ConsumedOnce /\ AttachedOnce /\ Inside
      BY <1>0 DEF OneOwner
    <2>1. /\ d # NoFuture /\ at[d] = NoFuture
          /\ \A b \in Clients : d \notin handles[b] /\ op[b].d # d
          /\ \A b \in Clients : op[b].pc = "attach" => op[b].s # d
          /\ \A x \in Futures : at[x] # d
          /\ \A x \in Futures : x # d => kind'[x] = kind[x]
          /\ \A b \in Clients : NoFuture \notin handles[b] /\ op[b].d \in Futures \cup {NoFuture}
          /\ \A b \in Clients : b # c => op'[b] = op[b]
          /\ \A x \in Futures : x # d => at'[x] = at[x]
          /\ at'[d] = s /\ s # d /\ s # NoFuture /\ s \in Futures /\ s \in handles[c]
          /\ \A x \in Futures : at[x] # s
          /\ \A b \in Clients : op[b].pc = "attach" => op[b].s # s
          /\ kind'[d] \notin {"watch", "none", "hold"} /\ op'[c].d = d /\ op'[c].s = s
          /\ handles'[c] \subseteq handles[c] \ {s}
          /\ \A b \in Clients : b # c => handles'[b] = handles[b]
      BY <1>4, <1>0, FreshUnused, NoContinuation, HandleKnown DEF Chains, Enters
    <2>2. HeldOnce'
      BY <2>0, <2>1 DEF HeldOnce
    <2>3. HeldWhole'
      BY <2>0, <2>1 DEF HeldWhole, HeldOnce
    <2>4. NotGiven'
      BY <2>0, <2>1 DEF NotGiven, IsFuture
    <2>5. ConsumedOnce'
      BY <2>0, <2>1 DEF ConsumedOnce
    <2>6. AttachedOnce'
      BY <2>0, <2>1 DEF AttachedOnce
    <2>7. Inside'
      BY <2>0, <2>1 DEF Inside
    <2> QED
      BY <2>2, <2>3, <2>4, <2>5, <2>6, <2>7
  <1>5. ASSUME NEW c \in Clients, NEW s \in Futures,
               NEW d \in Futures, Detaches(c, s, d)
         PROVE  OneOwner'
    <2> SUFFICES ASSUME MoveOnly
                 PROVE  (HeldOnce /\ HeldWhole /\ NotGiven /\ ConsumedOnce
                            /\ AttachedOnce /\ Inside)'
      BY DEF OneOwner
    <2>0. HeldOnce /\ HeldWhole /\ NotGiven /\ ConsumedOnce /\ AttachedOnce /\ Inside
      BY <1>0 DEF OneOwner
    <2>1. /\ d # NoFuture /\ at[d] = NoFuture
          /\ \A b \in Clients : d \notin handles[b] /\ op[b].d # d
          /\ \A b \in Clients : op[b].pc = "attach" => op[b].s # d
          /\ \A x \in Futures : at[x] # d
          /\ \A x \in Futures : x # d => kind'[x] = kind[x]
          /\ \A b \in Clients : NoFuture \notin handles[b] /\ op[b].d \in Futures \cup {NoFuture}
          /\ op' = op
          /\ \A x \in Futures : x # d => at'[x] = at[x]
          /\ at'[d] = s /\ s # d /\ s # NoFuture /\ s \in Futures /\ s \in handles[c]
          /\ \A x \in Futures : at[x] # s
          /\ \A b \in Clients : op[b].pc = "attach" => op[b].s # s
          /\ kind'[d] \notin {"watch", "none", "hold"}
          /\ handles'[c] \subseteq handles[c] \ {s}
          /\ \A b \in Clients : b # c => handles'[b] = handles[b]
      BY <1>5, <1>0, FreshUnused, NoContinuation, HandleKnown DEF Detaches, Enters
    <2>2. HeldOnce'
      BY <2>0, <2>1 DEF HeldOnce
    <2>3. HeldWhole'
      BY <2>0, <2>1 DEF HeldWhole, HeldOnce
    <2>4. NotGiven'
      BY <2>0, <2>1 DEF NotGiven, IsFuture
    <2>5. ConsumedOnce'
      BY <2>0, <2>1 DEF ConsumedOnce
    <2>6. AttachedOnce'
      BY <2>0, <2>1 DEF AttachedOnce
    <2>7. Inside'
      BY <2>0, <2>1 DEF Inside
    <2> QED
      BY <2>2, <2>3, <2>4, <2>5, <2>6, <2>7
  <1>6. ASSUME NEW c \in Clients, NEW s \in Futures,
               NEW d \in Futures, AttachFirst(c, s, d)
         PROVE  OneOwner'
    <2>1. d \in Futures /\ d = op[c].d
      BY <1>6, <1>0 DEF AttachFirst, Calls, Returning
    <2>2. handles' = [handles EXCEPT ![c] = @ \cup Gift(d)] /\ op' = [op EXCEPT ![c] = NoOp]
      BY <1>6 DEF AttachFirst
    <2>3. at' = at /\ kind' = kind
      BY <1>6 DEF AttachFirst
    <2> QED
      BY <1>0, <1>live, <2>1, <2>2, <2>3, OwnersGiven
  <1>7. ASSUME NEW c \in Clients, NEW d \in Futures, SubmitCalls(c, d)
         PROVE  OneOwner'
    BY <1>7, <1>0, <1>live, OwnersFewer DEF SubmitCalls, OpPc
  <1>8. ASSUME NEW c \in Clients, NEW d \in Futures, SubmitQueues(c, d)
         PROVE  OneOwner'
    <2>1. d \in Futures /\ d = op[c].d
      BY <1>8, <1>0 DEF SubmitQueues, Calls, Returning
    <2>2. handles' = [handles EXCEPT ![c] = @ \cup Gift(d)] /\ op' = [op EXCEPT ![c] = NoOp]
      BY <1>8 DEF SubmitQueues
    <2>3. at' = at /\ kind' = kind
      BY <1>8 DEF SubmitQueues
    <2> QED
      BY <1>0, <1>live, <2>1, <2>2, <2>3, OwnersGiven
  <1>9. ASSUME NEW c \in Clients, NEW d \in Futures, Returns(c, d)
         PROVE  OneOwner'
    <2>1. d \in Futures /\ d = op[c].d
      BY <1>9, <1>0 DEF Returns, Calls, Returning
    <2>2. handles' = [handles EXCEPT ![c] = @ \cup Gift(d)] /\ op' = [op EXCEPT ![c] = NoOp]
      BY <1>9 DEF Returns
    <2>3. at' = at /\ kind' = kind
      BY <1>9 DEF Returns
    <2> QED
      BY <1>0, <1>live, <2>1, <2>2, <2>3, OwnersGiven
  <1>10. ASSUME NEW c \in Clients, AttachLate(c)
         PROVE  OneOwner'
    BY <1>10, <1>0, <1>live, OwnersFewer DEF AttachLate, OpPc
  <1>11. ASSUME NEW c \in Clients, NEW s \in Futures, Release(c, s)
         PROVE  OneOwner'
    BY <1>11, <1>0, <1>live, OwnersFewer DEF Release, OpPc, Idle
  <1>12. ASSUME NEW c \in Clients, NEW s \in Futures,
               NEW u \in BOOLEAN, Takes(c, s, u)
         PROVE  OneOwner'
    BY <1>12, <1>0, <1>live, OwnersFewer DEF Takes, OpPc, Enters
  <1>13. ASSUME NEW c \in Clients, NEW s \in Futures, TakeMoves(c, s)
         PROVE  OneOwner'
    BY <1>13, <1>0, <1>live, OwnersFewer DEF TakeMoves, OpPc, NoOp
  <1>14. ASSUME NEW c \in Clients, NEW H \in SUBSET handles[c], TakeCopies(c, H)
         PROVE  OneOwner'
    BY <1>14, <1>0, <1>live, OwnersFewer DEF TakeCopies, OpPc, NoOp
  <1>15. ASSUME NEW c \in Clients, NEW s \in Futures,
               NEW other \in Clients, Share(c, other, s)
         PROVE  OneOwner'
    BY <1>15, <1>0 DEF Share, OneOwner
  <1>16. ASSUME NEW d \in Futures, Called(d)
         PROVE  OneOwner'
    BY <1>16, <1>0, <1>live, OwnersFewer DEF Called, OpPc
  <1>17. ASSUME NEW d \in Futures, Canceled(d)
         PROVE  OneOwner'
    BY <1>17, <1>0, <1>live, OwnersFewer DEF Canceled, OpPc
  <1>18. ASSUME NEW d \in Futures, Begins(d)
         PROVE  OneOwner'
    BY <1>18, <1>0, <1>live, OwnersFewer DEF Begins, OpPc
  <1>19. ASSUME NEW d \in Futures, Breaks(d)
         PROVE  OneOwner'
    BY <1>19, <1>0, <1>live, OwnersFewer DEF Breaks, OpPc
  <1>20. ASSUME NEW d \in Futures, NEW r, NEW res, Runs(d, r, res)
         PROVE  OneOwner'
    BY <1>20, <1>0, <1>live, OwnersFewer DEF Runs, OpPc
  <1>21. ASSUME NEW d \in Futures, NEW q \in Futures,
               NEW h \in Futures, Reducing(d, q, h)
         PROVE  OneOwner'
    <2> SUFFICES ASSUME MoveOnly
                 PROVE  (HeldOnce /\ HeldWhole /\ NotGiven /\ ConsumedOnce
                            /\ AttachedOnce /\ Inside)'
      BY DEF OneOwner
    <2>0. HeldOnce /\ HeldWhole /\ NotGiven /\ ConsumedOnce /\ AttachedOnce /\ Inside
      BY <1>0 DEF OneOwner
    <2>1. /\ q # NoFuture /\ h # NoFuture /\ at[q] = NoFuture /\ at[h] = NoFuture /\ q # h
          /\ \A b \in Clients : /\ q \notin handles[b] /\ op[b].d # q
                                /\ h \notin handles[b] /\ op[b].d # h
                                /\ op[b].pc = "attach" => op[b].s # q
          /\ \A x \in Futures : at[x] # q /\ at[x] # h
          /\ \A b \in Clients : NoFuture \notin handles[b] /\ op[b].d \in Futures \cup {NoFuture}
          /\ \A x \in Futures : x # h => at'[x] = at[x]
          /\ \A x \in Futures : x # h /\ x # q => kind'[x] = kind[x]
          /\ kind'[h] = "hold" /\ kind'[q] = "async" /\ at'[h] = q
          /\ handles' = handles /\ op' = op
      BY <1>21, <1>0, FreshUnused, NoContinuation DEF Reducing, Enters
    <2>2. HeldOnce'
      BY <2>0, <2>1 DEF HeldOnce
    <2>3. HeldWhole'
      BY <2>0, <2>1 DEF HeldWhole, HeldOnce
    <2>4. NotGiven'
      BY <2>0, <2>1 DEF NotGiven, IsFuture
    <2>5. ConsumedOnce'
      BY <2>0, <2>1 DEF ConsumedOnce
    <2>6. AttachedOnce'
      BY <2>0, <2>1 DEF AttachedOnce
    <2>7. Inside'
      BY <2>0, <2>1 DEF Inside
    <2> QED
      BY <2>2, <2>3, <2>4, <2>5, <2>6, <2>7
  <1>22. ASSUME NEW d \in Futures, NEW h \in Futures, HoldCalled(d, h)
         PROVE  OneOwner'
    BY <1>22, <1>0, <1>live, OwnersFewer DEF HoldCalled, OpPc
  <1>23. ASSUME NEW d \in Futures, NEW h \in Futures,
               NEW q \in Futures, HoldAttached(d, h, q)
         PROVE  OneOwner'
    BY <1>23, <1>0, <1>live, OwnersFewer DEF HoldAttached, OpPc
  <1>24. ASSUME NEW d \in Futures, Finish(d)
         PROVE  OneOwner'
    BY <1>24, <1>0, <1>live, OwnersFewer DEF Finish, OpPc
  <1>25. ASSUME NEW d \in Futures, Ends(d)
         PROVE  OneOwner'
    BY <1>25, <1>0, <1>live, OwnersFewer DEF Ends, OpPc
  <1>26. ASSUME NEW d \in Futures, NEW res, Relays(d, res)
         PROVE  OneOwner'
    BY <1>26, <1>0, <1>live, OwnersFewer DEF Relays, OpPc
  <1>27. ASSUME NEW d \in Futures, Publish(d)
         PROVE  OneOwner'
    BY <1>27, <1>0, <1>live, OwnersFewer DEF Publish, OpPc, MovedFrom
  <1>28. ASSUME NEW d \in Futures, DispatchReturn(d)
         PROVE  OneOwner'
    BY <1>28, <1>0, <1>live, OwnersFewer DEF DispatchReturn, OpPc, Rest
  <1>29. ASSUME NEW d \in Futures, Settled(d)
         PROVE  OneOwner'
    BY <1>29, <1>0, <1>live, OwnersFewer DEF Settled, OpPc
  <1>30. ASSUME NEW d \in Futures, NEW e \in Futures, DispatchCalls(d, e)
         PROVE  OneOwner'
    BY <1>30, <1>0, <1>live, OwnersFewer DEF DispatchCalls, OpPc
  <1>31. ASSUME NEW d \in Futures, NEW e \in Futures, DispatchQueues(d, e)
         PROVE  OneOwner'
    BY <1>31, <1>0, <1>live, OwnersFewer DEF DispatchQueues, OpPc
  <1>32. CASE UNCHANGED vars
    BY <1>32, <1>0, <1>live, OwnersFewer DEF vars
  <1> HIDE DEF TypeOK
  <1>33. ASSUME NEW c \in Clients, NEW d \in Futures, Makes(c, d)
         PROVE  OneOwner'
    BY <1>33, <1>1, <1>2, <1>3, <1>5 DEF Makes
  <1>34. ASSUME NEW c \in Clients, NEW d \in Futures, Continues(c, d)
         PROVE  OneOwner'
    BY <1>34, <1>4 DEF Continues
  <1>35. ASSUME NEW c \in Clients, NEW d \in Futures, Gives(c, d)
         PROVE  OneOwner'
    BY <1>35, <1>6, <1>7, <1>8, <1>9 DEF Gives
  <1>36. ASSUME NEW c \in Clients, Uses(c)
         PROVE  OneOwner'
    BY <1>36, <1>10, <1>11, <1>12, <1>13, <1>14, <1>15 DEF Uses
  <1>37. ASSUME NEW d \in Futures, Works(d)
         PROVE  OneOwner'
    BY <1>37, <1>16, <1>17, <1>18, <1>19, <1>20, <1>21, <1>22, <1>23, <1>24, <1>25, <1>26,
       <1>27, <1>28, <1>29, <1>30, <1>31 DEF Works
  <1> QED
    BY <1>0, <1>32, <1>33, <1>34, <1>35, <1>36, <1>37 DEF Flat

\* A list has what was attached to it, and what is left of it all but the first.
LEMMA ExtendedHas ==
  ASSUME NEW q \in Seq(Futures), NEW d \in Futures
  PROVE  /\ d \in Range(Extended(q, d))
         /\ ~MoveOnly => Range(q) \subseteq Range(Extended(q, d))
  <1>1. CASE MoveOnly
    <2>1. DOMAIN << d >> = {1} /\ << d >>[1] = d
      OBVIOUS
    <2> QED
      BY <1>1, <2>1 DEF Extended, Range
  <1>2. CASE ~MoveOnly
    <2>1. /\ DOMAIN Append(q, d) = 1 .. Len(q) + 1
          /\ DOMAIN q = 1 .. Len(q) /\ Len(q) \in Nat
          /\ \A i \in 1 .. Len(q) : Append(q, d)[i] = q[i]
          /\ Append(q, d)[Len(q) + 1] = d
      BY AppendProperties
    <2> QED
      BY <1>2, <2>1 DEF Extended, Range
  <1> QED
    BY <1>1, <1>2

LEMMA TailHas ==
  ASSUME NEW q \in Seq(Futures), q # <<>>
  PROVE  Range(q) \subseteq Range(Tail(q)) \cup {Head(q)}
  <1>1. /\ DOMAIN Tail(q) = 1 .. Len(q) - 1 /\ DOMAIN q = 1 .. Len(q)
        /\ Len(q) \in Nat \ {0}
        /\ Head(q) = q[1]
        /\ \A i \in 1 .. Len(q) - 1 : Tail(q)[i] = q[i + 1]
    BY HeadTailProperties
  <1> SUFFICES ASSUME NEW i \in 1 .. Len(q), q[i] # Head(q)
               PROVE  q[i] \in Range(Tail(q))
    BY <1>1 DEF Range
  <1>2. i - 1 \in 1 .. Len(q) - 1 /\ Tail(q)[i - 1] = q[i]
    BY <1>1
  <1> QED
    BY <1>1, <1>2 DEF Range

\* A step that attaches nothing and leaves the lists alone.
LEMMA ListedKept ==
  ASSUME Listed, then' = then, todo' = todo,
         \A x \in Futures : task'[x] = "attached" => task[x] = "attached" /\ at'[x] = at[x]
  PROVE  Listed'
  BY DEF Listed

LEMMA ListedStep == LInv /\ [Next]_vars => Listed'
  <1> SUFFICES ASSUME LInv, [Next]_vars PROVE Listed'
    OBVIOUS
  <1>0. /\ IInv /\ TypeOK /\ Blank /\ Known /\ Phases /\ Calls
        /\ Reductions /\ Lists /\ OneOwner /\ Listed /\ Flat
    BY Flattened, StepInv DEF LInv, IInv, Results
  <1> USE FutureAssumption DEF FutureAssumption, TypeOK, Blank
  <1>1. ASSUME NEW c \in Clients, NEW d \in Futures,
               NEW e \in Executors, AsyncMade(c, d, e)
         PROVE  Listed'
    BY <1>1, <1>0, ListedKept DEF AsyncMade, Enters
  <1>2. ASSUME NEW c \in Clients, NEW d \in Futures,
               NEW r \in Outcomes \cup {"broken"}, ReadyMade(c, d, r)
         PROVE  Listed'
    BY <1>2, <1>0, ListedKept DEF ReadyMade
  <1>3. ASSUME NEW c \in Clients, NEW s \in Futures, NEW d \in Futures,
               NEW e \in Executors \cup {"immediate"}, Watches(c, s, d, e)
         PROVE  Listed'
    BY <1>3, <1>0, ListedKept DEF Watches, Enters
  <1>4. ASSUME NEW c \in Clients, NEW s \in Futures, NEW d \in Futures,
               NEW k \in {"then", "recover", "detach"},
               NEW e \in Executors \cup {"immediate"},
               NEW H \in SUBSET handles[c], Chains(c, s, d, k, e, H)
         PROVE  Listed'
    BY <1>4, <1>0, ListedKept DEF Chains, Enters
  <1>5. ASSUME NEW c \in Clients, NEW s \in Futures,
               NEW d \in Futures, Detaches(c, s, d)
         PROVE  Listed'
    <2>1. s \in Futures /\ d \in Futures /\ at'[d] = s /\ then[s] \in Seq(Futures)
      BY <1>5, <1>0, HandleKnown DEF Detaches
    <2>2. MoveOnly => \A x \in Futures : task[x] = "attached" => at[x] # s
      BY <1>5, <1>0, NoContinuation DEF Detaches
    <2>3. /\ d \in Range(Extended(then[s], d))
          /\ ~MoveOnly => Range(then[s]) \subseteq Range(Extended(then[s], d))
      BY <2>1, ExtendedHas
    <2>4. /\ then'[s] = Extended(then[s], d) /\ todo' = todo
          /\ \A x \in Futures : x # s => then'[x] = then[x]
          /\ \A x \in Futures : x # d => task'[x] = task[x] /\ at'[x] = at[x]
          /\ s # NoFuture
      BY <1>5, <1>0, <2>1 DEF Detaches
    <2>5. Listed
      BY <1>0
    <2> QED
      BY <2>1, <2>2, <2>3, <2>4, <2>5 DEF Listed
  <1>6. ASSUME NEW c \in Clients, NEW s \in Futures,
               NEW d \in Futures, AttachFirst(c, s, d)
         PROVE  Listed'
    <2>1. s \in Futures /\ d \in Futures /\ at'[d] = s /\ then[s] \in Seq(Futures)
      BY <1>6, <1>0 DEF AttachFirst, Calls
    <2>2. MoveOnly => \A x \in Futures : task[x] = "attached" => at[x] # s
      BY <1>6, <1>0 DEF AttachFirst, OneOwner, AttachedOnce, Calls
    <2>3. /\ d \in Range(Extended(then[s], d))
          /\ ~MoveOnly => Range(then[s]) \subseteq Range(Extended(then[s], d))
      BY <2>1, ExtendedHas
    <2>4. /\ then'[s] = Extended(then[s], d) /\ todo' = todo
          /\ \A x \in Futures : x # s => then'[x] = then[x]
          /\ \A x \in Futures : x # d => task'[x] = task[x] /\ at'[x] = at[x]
          /\ s # NoFuture
      BY <1>6, <1>0, <2>1 DEF AttachFirst
    <2>5. Listed
      BY <1>0
    <2> QED
      BY <2>1, <2>2, <2>3, <2>4, <2>5 DEF Listed
  <1>7. ASSUME NEW c \in Clients, NEW d \in Futures, SubmitCalls(c, d)
         PROVE  Listed'
    BY <1>7, <1>0, ListedKept DEF SubmitCalls
  <1>8. ASSUME NEW c \in Clients, NEW d \in Futures, SubmitQueues(c, d)
         PROVE  Listed'
    BY <1>8, <1>0, ListedKept DEF SubmitQueues, NoOp
  <1>9. ASSUME NEW c \in Clients, NEW d \in Futures, Returns(c, d)
         PROVE  Listed'
    BY <1>9, <1>0, ListedKept DEF Returns, NoOp
  <1>10. ASSUME NEW c \in Clients, AttachLate(c)
         PROVE  Listed'
    BY <1>10, <1>0, ListedKept DEF AttachLate
  <1>11. ASSUME NEW c \in Clients, NEW s \in Futures, Release(c, s)
         PROVE  Listed'
    BY <1>11, <1>0, ListedKept DEF Release, Idle
  <1>12. ASSUME NEW c \in Clients, NEW s \in Futures,
               NEW u \in BOOLEAN, Takes(c, s, u)
         PROVE  Listed'
    BY <1>12, <1>0, ListedKept DEF Takes, Enters
  <1>13. ASSUME NEW c \in Clients, NEW s \in Futures, TakeMoves(c, s)
         PROVE  Listed'
    BY <1>13, <1>0, ListedKept DEF TakeMoves, NoOp
  <1>14. ASSUME NEW c \in Clients, NEW H \in SUBSET handles[c], TakeCopies(c, H)
         PROVE  Listed'
    BY <1>14, <1>0, ListedKept DEF TakeCopies, NoOp
  <1>15. ASSUME NEW c \in Clients, NEW s \in Futures,
               NEW other \in Clients, Share(c, other, s)
         PROVE  Listed'
    BY <1>15, <1>0, ListedKept DEF Share, Idle
  <1>16. ASSUME NEW d \in Futures, Called(d)
         PROVE  Listed'
    BY <1>16, <1>0, ListedKept DEF Called
  <1>17. ASSUME NEW d \in Futures, Canceled(d)
         PROVE  Listed'
    BY <1>17, <1>0, ListedKept DEF Canceled
  <1>18. ASSUME NEW d \in Futures, Begins(d)
         PROVE  Listed'
    BY <1>18, <1>0, ListedKept DEF Begins
  <1>19. ASSUME NEW d \in Futures, Breaks(d)
         PROVE  Listed'
    BY <1>19, <1>0, ListedKept DEF Breaks
  <1>20. ASSUME NEW d \in Futures, NEW r, NEW res, Runs(d, r, res)
         PROVE  Listed'
    BY <1>20, <1>0, ListedKept DEF Runs
  <1>21. ASSUME NEW d \in Futures, NEW q \in Futures,
               NEW h \in Futures, Reducing(d, q, h)
         PROVE  Listed'
    BY <1>21, <1>0, ListedKept DEF Reducing
  <1>22. ASSUME NEW d \in Futures, NEW h \in Futures, HoldCalled(d, h)
         PROVE  Listed'
    BY <1>22, <1>0, ListedKept DEF HoldCalled
  <1>23. ASSUME NEW d \in Futures, NEW h \in Futures,
               NEW q \in Futures, HoldAttached(d, h, q)
         PROVE  Listed'
    <2>1. q \in Futures /\ h \in Futures /\ at'[h] = q /\ then[q] \in Seq(Futures)
      BY <1>23, <1>0 DEF HoldAttached, Reductions, Known
    <2>2. MoveOnly => \A x \in Futures : task[x] = "attached" => at[x] # q
      <3>1. kind[h] = "hold" /\ task[h] = "local"
        BY <1>23, <1>0 DEF HoldAttached, Reductions
      <3> QED
        BY <1>23, <1>0, <3>1, <2>1 DEF HoldAttached, OneOwner, Inside
    <2>3. /\ h \in Range(Extended(then[q], h))
          /\ ~MoveOnly => Range(then[q]) \subseteq Range(Extended(then[q], h))
      BY <2>1, ExtendedHas
    <2>4. /\ then'[q] = Extended(then[q], h) /\ todo' = todo
          /\ \A x \in Futures : x # q => then'[x] = then[x]
          /\ \A x \in Futures : x # h => task'[x] = task[x] /\ at'[x] = at[x]
          /\ q # NoFuture
      BY <1>23, <1>0, <2>1 DEF HoldAttached
    <2>5. Listed
      BY <1>0
    <2> QED
      BY <2>1, <2>2, <2>3, <2>4, <2>5 DEF Listed
  <1>24. ASSUME NEW d \in Futures, Finish(d)
         PROVE  Listed'
    BY <1>24, <1>0, ListedKept DEF Finish
  <1>25. ASSUME NEW d \in Futures, Ends(d)
         PROVE  Listed'
    BY <1>25, <1>0, ListedKept DEF Ends
  <1>26. ASSUME NEW d \in Futures, NEW res, Relays(d, res)
         PROVE  Listed'
    BY <1>26, <1>0, ListedKept DEF Relays
  <1>27. ASSUME NEW d \in Futures, Publish(d)
         PROVE  Listed'
    <2>4. ListsOf(d)
      BY <1>0 DEF Lists
    <2>1. todo[d] = <<>> /\ todo'[d] = then[d]
      BY <1>27, <2>4, <1>0 DEF Publish, ListsOf
    <2>2. /\ \A x \in Futures : x # d => then'[x] = then[x] /\ todo'[x] = todo[x]
          /\ task' = task /\ at' = at
      BY <1>27, <1>0 DEF Publish
    <2>3. Listed
      BY <1>0
    <2> QED
      BY <2>1, <2>2, <2>3, Empty DEF Listed
  <1>28. ASSUME NEW d \in Futures, DispatchReturn(d)
         PROVE  Listed'
    <2>1. todo[d] \in Seq(Futures) /\ todo[d] # <<>>
      BY <1>28, <1>0 DEF DispatchReturn, Lists, ListsOf
    <2>2. Range(todo[d]) \subseteq Range(Tail(todo[d])) \cup {Head(todo[d])}
      BY <2>1, TailHas
    <2>3. /\ \A x \in Futures : x # d => todo'[x] = todo[x]
          /\ todo'[d] = Tail(todo[d]) /\ then' = then /\ at' = at
      BY <1>28, <1>0 DEF DispatchReturn, Rest
    <2>4. \A x \in Futures : task'[x] = "attached" => task[x] = "attached" /\ x # Head(todo[d])
      BY <1>28, <1>0 DEF DispatchReturn, Returned
    <2>5. Listed
      BY <1>0
    <2> QED
      BY <2>2, <2>3, <2>4, <2>5 DEF Listed
  <1>29. ASSUME NEW d \in Futures, Settled(d)
         PROVE  Listed'
    BY <1>29, <1>0, ListedKept DEF Settled
  <1>30. ASSUME NEW d \in Futures, NEW e \in Futures, DispatchCalls(d, e)
         PROVE  Listed'
    BY <1>30, <1>0, ListedKept DEF DispatchCalls
  <1>31. ASSUME NEW d \in Futures, NEW e \in Futures, DispatchQueues(d, e)
         PROVE  Listed'
    <2>1. todo[d] \in Seq(Futures) /\ todo[d] # <<>>
      BY <1>31, <1>0 DEF DispatchQueues, Lists, ListsOf
    <2>2. Range(todo[d]) \subseteq Range(Tail(todo[d])) \cup {Head(todo[d])}
      BY <2>1, TailHas
    <2>3. /\ \A x \in Futures : x # d => todo'[x] = todo[x]
          /\ todo'[d] = Tail(todo[d]) /\ then' = then /\ at' = at
      BY <1>31, <1>0 DEF DispatchQueues, Rest
    <2>4. \A x \in Futures : task'[x] = "attached" => task[x] = "attached" /\ x # Head(todo[d])
      BY <1>31, <1>0 DEF DispatchQueues, Returned
    <2>5. Listed
      BY <1>0
    <2> QED
      BY <2>2, <2>3, <2>4, <2>5 DEF Listed
  <1>32. CASE UNCHANGED vars
    BY <1>32, <1>0, ListedKept DEF vars
  <1> HIDE DEF TypeOK, Blank
  <1>33. ASSUME NEW c \in Clients, NEW d \in Futures, Makes(c, d)
         PROVE  Listed'
    BY <1>33, <1>1, <1>2, <1>3, <1>5 DEF Makes
  <1>34. ASSUME NEW c \in Clients, NEW d \in Futures, Continues(c, d)
         PROVE  Listed'
    BY <1>34, <1>4 DEF Continues
  <1>35. ASSUME NEW c \in Clients, NEW d \in Futures, Gives(c, d)
         PROVE  Listed'
    BY <1>35, <1>6, <1>7, <1>8, <1>9 DEF Gives
  <1>36. ASSUME NEW c \in Clients, Uses(c)
         PROVE  Listed'
    BY <1>36, <1>10, <1>11, <1>12, <1>13, <1>14, <1>15 DEF Uses
  <1>37. ASSUME NEW d \in Futures, Works(d)
         PROVE  Listed'
    BY <1>37, <1>16, <1>17, <1>18, <1>19, <1>20, <1>21, <1>22, <1>23, <1>24, <1>25, <1>26,
       <1>27, <1>28, <1>29, <1>30, <1>31 DEF Works
  <1> QED
    BY <1>0, <1>32, <1>33, <1>34, <1>35, <1>36, <1>37 DEF Flat

-----------------------------------------------------------------------------
(***************************************************************************)
(* Results are there when they are read, and a value is moved out by its    *)
(* last reader.                                                            *)
(***************************************************************************)
\* A function about to run finds the future it owns settled, and its value there.
LEMMA Argument ==
  ASSUME IInv, HasResult, MovedUnread, NEW d \in Futures, invoke[d] = "run", src[d] # NoFuture
  PROVE  /\ src[d] \in Futures /\ ready[src[d]]
         /\ result[src[d]] \notin {"none", "moved"}
  <1>1. task[d] = "spent" /\ src[d] = at[d] /\ src[d] \in Futures
    BY Busy, SourceKnown
  <1>2. ready[src[d]]
    BY <1>1 DEF IInv, SourceReady
  <1>3. result[src[d]] # "none"
    BY <1>1, <1>2 DEF HasResult
  <1>4. d \in Live
    BY LiveRoots DEF Anchors, Running
  <1>5. result[src[d]] # "moved"
    BY <1>1, <1>4 DEF MovedUnread, Unread
  <1> QED
    BY <1>1, <1>2, <1>3, <1>5

\* A function that may move the value out of the future it owns is the only one to refer to it.
LEMMA OnlyReader ==
  ASSUME IInv, Origins, OneOwner, NEW d \in Futures, src[d] # NoFuture,
         MoveOnly \/ Unique(src[d], <<"function", d>>)
  PROVE  /\ \A c \in Clients : src[d] \notin handles[c] /\ op[c].d # src[d]
         /\ \A x \in Live : src[x] = src[d] => x = d
  <1>1. src[d] = at[d] /\ kind[d] # "watch" /\ IsFuture(src[d])
    BY SourceKnown DEF Origins
  <1>2. CASE MoveOnly
    <2>1. HeldWhole /\ NotGiven /\ ConsumedOnce
      BY <1>2 DEF OneOwner
    <2>2. \A c \in Clients : src[d] \notin handles[c]
      BY <1>1, <2>1 DEF HeldWhole
    <2>3. \A c \in Clients : op[c].d # src[d]
      BY <1>1, <2>1 DEF NotGiven
    <2>4. \A x \in Futures : src[x] = src[d] => x = d
      <3> SUFFICES ASSUME NEW x \in Futures, src[x] = src[d]
                   PROVE  x = d
        OBVIOUS
      <3>1. src[x] = at[x] /\ kind[x] # "watch"
        BY SourceKnown DEF Origins
      <3> QED
        BY <1>1, <2>1, <3>1 DEF ConsumedOnce
    <2> QED
      BY <2>2, <2>3, <2>4, LiveRoots
  <1>3. CASE Refs(src[d]) = {<<"function", d>>}
    <2>1. \A r \in Refs(src[d]) : r[1] = "function" /\ r[2] = d
      BY <1>3
    <2>2. \A c \in Clients : src[d] \in handles[c] => <<"client", c>> \in Refs(src[d])
      BY DEF Refs
    <2>3. \A c \in Clients : op[c].d = src[d] => <<"return", c>> \in Refs(src[d])
      BY DEF Refs
    <2>4. \A x \in Live : src[x] = src[d] => <<"function", x>> \in Refs(src[d])
      BY DEF Refs
    <2> QED
      BY <2>1, <2>2, <2>3, <2>4
  <1> QED
    BY <1>2, <1>3 DEF Unique

\* So is a client that holds it with no other reference left.
LEMMA OnlyHandle ==
  ASSUME NEW c \in Clients, NEW s \in Futures, Unique(s, <<"client", c>>)
  PROVE  Alone(c, s)
  <1>1. \A r \in Refs(s) : r[1] = "client" /\ r[2] = c
    BY DEF Unique
  <1>2. \A b \in Clients : s \in handles[b] => <<"client", b>> \in Refs(s)
    BY DEF Refs
  <1>3. \A b \in Clients : op[b].d = s => <<"return", b>> \in Refs(s)
    BY DEF Refs
  <1>4. \A x \in Live : src[x] = s => <<"function", x>> \in Refs(s)
    BY DEF Refs
  <1> QED
    BY <1>1, <1>2, <1>3, <1>4 DEF Alone

\* Of a move-only future a client that takes the value is always the only one to refer to it.
LEMMA MoveOnlyAlone == IInv /\ Origins /\ InHand /\ OneOwner /\ MoveOnly => TakesAlone
  <1> SUFFICES ASSUME IInv, Origins, InHand, OneOwner, MoveOnly,
                      NEW c \in Clients, op[c].pc = "take"
               PROVE  Alone(c, op[c].s)
    BY DEF TakesAlone
  <1> DEFINE s == op[c].s
  <1>1. s \in handles[c] /\ s \in Futures /\ IsFuture(s) /\ s # NoFuture
    <2>1. s \in handles[c]
      BY DEF InHand
    <2> QED
      BY <2>1, HandleKnown, FutureAssumption DEF Origins, Visible, FutureAssumption
  <1>2. \A b \in Clients : s \in handles[b] => b = c
    BY <1>1 DEF OneOwner, HeldOnce
  <1>3. \A b \in Clients : op[b].d # s
    BY <1>1 DEF OneOwner, NotGiven
  <1>4. \A d \in Futures : src[d] # s
    <2> SUFFICES ASSUME NEW d \in Futures, src[d] = s
                 PROVE  FALSE
      OBVIOUS
    <2>1. src[d] = at[d] /\ kind[d] # "watch"
      BY <1>1, SourceKnown DEF Origins
    <2> QED
      BY <1>1, <2>1 DEF OneOwner, HeldWhole
  <1> QED
    BY <1>2, <1>3, <1>4, LiveRoots DEF Alone

LEMMA HasResultStep == LInv /\ [Next]_vars => HasResult'
  <1> SUFFICES ASSUME LInv, [Next]_vars PROVE HasResult'
    OBVIOUS
  <1>0. IInv /\ TypeOK /\ Known /\ Phases /\ HasResult /\ MovedUnread /\ Origins /\ Flat
    BY Flattened, StepInv DEF LInv, IInv, Results
  <1> USE FutureAssumption DEF FutureAssumption, TypeOK, HasResult, Results
  <1>1. ASSUME NEW c \in Clients, NEW d \in Futures,
               NEW e \in Executors, AsyncMade(c, d, e)
         PROVE  HasResult'
    BY <1>1, <1>0 DEF AsyncMade, Enters
  <1>2. ASSUME NEW c \in Clients, NEW d \in Futures,
               NEW r \in Outcomes \cup {"broken"}, ReadyMade(c, d, r)
         PROVE  HasResult'
    BY <1>2, <1>0 DEF ReadyMade
  <1>3. ASSUME NEW c \in Clients, NEW s \in Futures, NEW d \in Futures,
               NEW e \in Executors \cup {"immediate"}, Watches(c, s, d, e)
         PROVE  HasResult'
    BY <1>3, <1>0 DEF Watches, Enters
  <1>4. ASSUME NEW c \in Clients, NEW s \in Futures, NEW d \in Futures,
               NEW k \in {"then", "recover", "detach"},
               NEW e \in Executors \cup {"immediate"},
               NEW H \in SUBSET handles[c], Chains(c, s, d, k, e, H)
         PROVE  HasResult'
    BY <1>4, <1>0 DEF Chains, Enters
  <1>5. ASSUME NEW c \in Clients, NEW s \in Futures,
               NEW d \in Futures, Detaches(c, s, d)
         PROVE  HasResult'
    BY <1>5, <1>0 DEF Detaches
  <1>6. ASSUME NEW c \in Clients, NEW s \in Futures,
               NEW d \in Futures, AttachFirst(c, s, d)
         PROVE  HasResult'
    BY <1>6, <1>0 DEF AttachFirst, NoOp
  <1>7. ASSUME NEW c \in Clients, NEW d \in Futures, SubmitCalls(c, d)
         PROVE  HasResult'
    BY <1>7, <1>0 DEF SubmitCalls
  <1>8. ASSUME NEW c \in Clients, NEW d \in Futures, SubmitQueues(c, d)
         PROVE  HasResult'
    BY <1>8, <1>0 DEF SubmitQueues, NoOp
  <1>9. ASSUME NEW c \in Clients, NEW d \in Futures, Returns(c, d)
         PROVE  HasResult'
    BY <1>9, <1>0 DEF Returns, NoOp
  <1>10. ASSUME NEW c \in Clients, AttachLate(c)
         PROVE  HasResult'
    BY <1>10, <1>0 DEF AttachLate
  <1>11. ASSUME NEW c \in Clients, NEW s \in Futures, Release(c, s)
         PROVE  HasResult'
    BY <1>11, <1>0 DEF Release, Idle
  <1>12. ASSUME NEW c \in Clients, NEW s \in Futures,
               NEW u \in BOOLEAN, Takes(c, s, u)
         PROVE  HasResult'
    BY <1>12, <1>0 DEF Takes, Enters
  <1>13. ASSUME NEW c \in Clients, NEW s \in Futures, TakeMoves(c, s)
         PROVE  HasResult'
    BY <1>13, <1>0 DEF TakeMoves, NoOp
  <1>14. ASSUME NEW c \in Clients, NEW H \in SUBSET handles[c], TakeCopies(c, H)
         PROVE  HasResult'
    BY <1>14, <1>0 DEF TakeCopies, NoOp
  <1>15. ASSUME NEW c \in Clients, NEW s \in Futures,
               NEW other \in Clients, Share(c, other, s)
         PROVE  HasResult'
    BY <1>15, <1>0 DEF Share, Idle
  <1>16. ASSUME NEW d \in Futures, Called(d)
         PROVE  HasResult'
    BY <1>16, <1>0 DEF Called
  <1>17. ASSUME NEW d \in Futures, Canceled(d)
         PROVE  HasResult'
    BY <1>17, <1>0 DEF Canceled
  <1>18. ASSUME NEW d \in Futures, Begins(d)
         PROVE  HasResult'
    BY <1>18, <1>0 DEF Begins
  <1>19. ASSUME NEW d \in Futures, Breaks(d)
         PROVE  HasResult'
    BY <1>19, <1>0 DEF Breaks
  <1>20. ASSUME NEW d \in Futures, NEW r, NEW res, Runs(d, r, res)
         PROVE  HasResult'
    <2>1. src[d] # NoFuture => src[d] \in Futures /\ result[src[d]] \notin {"none", "moved"}
      BY <1>20, <1>0, Argument DEF Runs
    <2> QED
      BY <1>20, <1>0, <2>1 DEF Runs, Took
  <1>21. ASSUME NEW d \in Futures, NEW q \in Futures,
               NEW h \in Futures, Reducing(d, q, h)
         PROVE  HasResult'
    <2>1. src[d] # NoFuture => src[d] \in Futures /\ result[src[d]] \notin {"none", "moved"}
      BY <1>21, <1>0, Argument DEF Reducing
    <2> QED
      BY <1>21, <1>0, <2>1 DEF Reducing, Took
  <1>22. ASSUME NEW d \in Futures, NEW h \in Futures, HoldCalled(d, h)
         PROVE  HasResult'
    BY <1>22, <1>0 DEF HoldCalled
  <1>23. ASSUME NEW d \in Futures, NEW h \in Futures,
               NEW q \in Futures, HoldAttached(d, h, q)
         PROVE  HasResult'
    BY <1>23, <1>0 DEF HoldAttached
  <1>24. ASSUME NEW d \in Futures, Finish(d)
         PROVE  HasResult'
    BY <1>24, <1>0 DEF Finish
  <1>25. ASSUME NEW d \in Futures, Ends(d)
         PROVE  HasResult'
    BY <1>25, <1>0 DEF Ends
  <1>26. ASSUME NEW d \in Futures, NEW res, Relays(d, res)
         PROVE  HasResult'
    <2>1. src[d] # NoFuture => src[d] \in Futures /\ result[src[d]] \notin {"none", "moved"}
      BY <1>26, <1>0, Argument DEF Relays
    <2>2. src[d] # NoFuture
      BY <1>26, <1>0, Busy DEF Relays, Known
    <2> QED
      BY <1>26, <1>0, <2>1, <2>2 DEF Relays, Took
  <1>27. ASSUME NEW d \in Futures, Publish(d)
         PROVE  HasResult'
    BY <1>27, <1>0 DEF Publish, MovedFrom, Phases
  <1>28. ASSUME NEW d \in Futures, DispatchReturn(d)
         PROVE  HasResult'
    BY <1>28, <1>0 DEF DispatchReturn, Rest
  <1>29. ASSUME NEW d \in Futures, Settled(d)
         PROVE  HasResult'
    BY <1>29, <1>0 DEF Settled
  <1>30. ASSUME NEW d \in Futures, NEW e \in Futures, DispatchCalls(d, e)
         PROVE  HasResult'
    BY <1>30, <1>0 DEF DispatchCalls
  <1>31. ASSUME NEW d \in Futures, NEW e \in Futures, DispatchQueues(d, e)
         PROVE  HasResult'
    BY <1>31, <1>0 DEF DispatchQueues
  <1>32. CASE UNCHANGED vars
    BY <1>32, <1>0 DEF vars
  <1> HIDE DEF TypeOK, HasResult, Results
  <1>33. ASSUME NEW c \in Clients, NEW d \in Futures, Makes(c, d)
         PROVE  HasResult'
    BY <1>33, <1>1, <1>2, <1>3, <1>5 DEF Makes
  <1>34. ASSUME NEW c \in Clients, NEW d \in Futures, Continues(c, d)
         PROVE  HasResult'
    BY <1>34, <1>4 DEF Continues
  <1>35. ASSUME NEW c \in Clients, NEW d \in Futures, Gives(c, d)
         PROVE  HasResult'
    BY <1>35, <1>6, <1>7, <1>8, <1>9 DEF Gives
  <1>36. ASSUME NEW c \in Clients, Uses(c)
         PROVE  HasResult'
    BY <1>36, <1>10, <1>11, <1>12, <1>13, <1>14, <1>15 DEF Uses
  <1>37. ASSUME NEW d \in Futures, Works(d)
         PROVE  HasResult'
    BY <1>37, <1>16, <1>17, <1>18, <1>19, <1>20, <1>21, <1>22, <1>23, <1>24, <1>25, <1>26,
       <1>27, <1>28, <1>29, <1>30, <1>31 DEF Works
  <1> QED
    BY <1>0, <1>32, <1>33, <1>34, <1>35, <1>36, <1>37 DEF Flat

\* A future with no reader left gets none.
LEMMA UnreadStep ==
  ASSUME LInv, [Next]_vars, NEW f \in Futures, kind[f] # "none", result[f] = "moved", ready[f], Unread(f)
  PROVE  Unread(f)'
  <1>0. IInv /\ TypeOK /\ Blank /\ Phases /\ Returning /\ Flat
    BY Flattened DEF LInv, IInv
  <1>live. \A x \in Live' : x \in Live \/ x \in Fresh
    BY LiveStep
  <1> USE FutureAssumption DEF FutureAssumption, TypeOK, Blank, Unread, Fresh
  <1>1. ASSUME NEW c \in Clients, NEW d \in Futures,
               NEW e \in Executors, AsyncMade(c, d, e)
         PROVE  Unread(f)'
    <2>1. \A b \in Clients : op'[b].d # f
      <3>1. op'[c].d # f
        BY <1>1, <1>0 DEF AsyncMade, Enters
      <3>2. \A b \in Clients : b # c => op'[b] = op[b]
        BY <1>1 DEF AsyncMade, Enters
      <3> QED
        BY <3>1, <3>2
    <2>2. /\ handles' = handles /\ invoke' = invoke
          /\ \A x \in Futures : src'[x] = f => src[x] = f
      BY <1>1, <1>0 DEF AsyncMade
    <2>3. \A b \in Clients : op'[b].pc = "take" => op'[b] = op[b]
      BY <1>1 DEF AsyncMade, Enters
    <2> QED
      BY <1>0, <1>live, <2>1, <2>2, <2>3, LiveRoots
  <1>2. ASSUME NEW c \in Clients, NEW d \in Futures,
               NEW r \in Outcomes \cup {"broken"}, ReadyMade(c, d, r)
         PROVE  Unread(f)'
    BY <1>2, <1>0, <1>live DEF ReadyMade
  <1>3. ASSUME NEW c \in Clients, NEW s \in Futures, NEW d \in Futures,
               NEW e \in Executors \cup {"immediate"}, Watches(c, s, d, e)
         PROVE  Unread(f)'
    <2>1. \A b \in Clients : op'[b].d # f
      <3>1. op'[c].d # f
        BY <1>3, <1>0 DEF Watches, Enters
      <3>2. \A b \in Clients : b # c => op'[b] = op[b]
        BY <1>3 DEF Watches, Enters
      <3> QED
        BY <3>1, <3>2
    <2>2. /\ handles' = handles /\ invoke' = invoke
          /\ \A x \in Futures : src'[x] = f => src[x] = f
      BY <1>3, <1>0 DEF Watches
    <2>3. \A b \in Clients : op'[b].pc = "take" => op'[b] = op[b]
      BY <1>3 DEF Watches, Enters
    <2> QED
      BY <1>0, <1>live, <2>1, <2>2, <2>3, LiveRoots
  <1>4. ASSUME NEW c \in Clients, NEW s \in Futures, NEW d \in Futures,
               NEW k \in {"then", "recover", "detach"},
               NEW e \in Executors \cup {"immediate"},
               NEW H \in SUBSET handles[c], Chains(c, s, d, k, e, H)
         PROVE  Unread(f)'
    BY <1>4, <1>0, <1>live DEF Chains, Enters, Spent
  <1>5. ASSUME NEW c \in Clients, NEW s \in Futures,
               NEW d \in Futures, Detaches(c, s, d)
         PROVE  Unread(f)'
    BY <1>5, <1>0, <1>live DEF Detaches
  <1>6. ASSUME NEW c \in Clients, NEW s \in Futures,
               NEW d \in Futures, AttachFirst(c, s, d)
         PROVE  Unread(f)'
    BY <1>6, <1>0, <1>live DEF AttachFirst, NoOp, Gift, Calls
  <1>7. ASSUME NEW c \in Clients, NEW d \in Futures, SubmitCalls(c, d)
         PROVE  Unread(f)'
    BY <1>7, <1>0, <1>live DEF SubmitCalls
  <1>8. ASSUME NEW c \in Clients, NEW d \in Futures, SubmitQueues(c, d)
         PROVE  Unread(f)'
    BY <1>8, <1>0, <1>live DEF SubmitQueues, NoOp, Gift, Calls
  <1>9. ASSUME NEW c \in Clients, NEW d \in Futures, Returns(c, d)
         PROVE  Unread(f)'
    BY <1>9, <1>0, <1>live DEF Returns, NoOp, Gift, Calls
  <1>10. ASSUME NEW c \in Clients, AttachLate(c)
         PROVE  Unread(f)'
    BY <1>10, <1>0, <1>live DEF AttachLate
  <1>11. ASSUME NEW c \in Clients, NEW s \in Futures, Release(c, s)
         PROVE  Unread(f)'
    BY <1>11, <1>0, <1>live DEF Release, Idle
  <1>12. ASSUME NEW c \in Clients, NEW s \in Futures,
               NEW u \in BOOLEAN, Takes(c, s, u)
         PROVE  Unread(f)'
    <2>1. \A b \in Clients : op'[b].d # f
      <3>1. op'[c].d # f
        BY <1>12, <1>0 DEF Takes, Enters
      <3>2. \A b \in Clients : b # c => op'[b] = op[b]
        BY <1>12 DEF Takes, Enters
      <3> QED
        BY <3>1, <3>2
    <2>2. /\ handles' = handles /\ invoke' = invoke
          /\ \A x \in Futures : src'[x] = f => src[x] = f
      BY <1>12, <1>0 DEF Takes
    <2>3. s # f
      BY <1>12 DEF Takes, Spent
    <2>4. \A b \in Clients : f \in handles'[b] => ~(op'[b].pc = "take" /\ op'[b].s = f)
      BY <1>12, <2>2, <2>3 DEF Takes, Enters
    <2> QED
      BY <1>0, <1>live, <2>1, <2>2, <2>4, LiveRoots
  <1>13. ASSUME NEW c \in Clients, NEW s \in Futures, TakeMoves(c, s)
         PROVE  Unread(f)'
    BY <1>13, <1>0, <1>live DEF TakeMoves, NoOp
  <1>14. ASSUME NEW c \in Clients, NEW H \in SUBSET handles[c], TakeCopies(c, H)
         PROVE  Unread(f)'
    BY <1>14, <1>0, <1>live DEF TakeCopies, NoOp
  <1>15. ASSUME NEW c \in Clients, NEW s \in Futures,
               NEW other \in Clients, Share(c, other, s)
         PROVE  Unread(f)'
    BY <1>15, <1>0, <1>live DEF Share, Idle
  <1>16. ASSUME NEW d \in Futures, Called(d)
         PROVE  Unread(f)'
    BY <1>16, <1>0, <1>live DEF Called
  <1>17. ASSUME NEW d \in Futures, Canceled(d)
         PROVE  Unread(f)'
    BY <1>17, <1>0, <1>live DEF Canceled
  <1>18. ASSUME NEW d \in Futures, Begins(d)
         PROVE  Unread(f)'
    BY <1>18, <1>0, <1>live DEF Begins, Phases
  <1>19. ASSUME NEW d \in Futures, Breaks(d)
         PROVE  Unread(f)'
    BY <1>19, <1>0, <1>live DEF Breaks
  <1>20. ASSUME NEW d \in Futures, NEW r, NEW res, Runs(d, r, res)
         PROVE  Unread(f)'
    BY <1>20, <1>0, <1>live DEF Runs
  <1>21. ASSUME NEW d \in Futures, NEW q \in Futures,
               NEW h \in Futures, Reducing(d, q, h)
         PROVE  Unread(f)'
    BY <1>21, <1>0, <1>live DEF Reducing
  <1>22. ASSUME NEW d \in Futures, NEW h \in Futures, HoldCalled(d, h)
         PROVE  Unread(f)'
    BY <1>22, <1>0, <1>live DEF HoldCalled
  <1>23. ASSUME NEW d \in Futures, NEW h \in Futures,
               NEW q \in Futures, HoldAttached(d, h, q)
         PROVE  Unread(f)'
    BY <1>23, <1>0, <1>live DEF HoldAttached
  <1>24. ASSUME NEW d \in Futures, Finish(d)
         PROVE  Unread(f)'
    BY <1>24, <1>0, <1>live DEF Finish
  <1>25. ASSUME NEW d \in Futures, Ends(d)
         PROVE  Unread(f)'
    BY <1>25, <1>0, <1>live DEF Ends
  <1>26. ASSUME NEW d \in Futures, NEW res, Relays(d, res)
         PROVE  Unread(f)'
    BY <1>26, <1>0, <1>live DEF Relays
  <1>27. ASSUME NEW d \in Futures, Publish(d)
         PROVE  Unread(f)'
    BY <1>27, <1>0, <1>live DEF Publish, MovedFrom
  <1>28. ASSUME NEW d \in Futures, DispatchReturn(d)
         PROVE  Unread(f)'
    BY <1>28, <1>0, <1>live DEF DispatchReturn, Rest
  <1>29. ASSUME NEW d \in Futures, Settled(d)
         PROVE  Unread(f)'
    BY <1>29, <1>0, <1>live DEF Settled
  <1>30. ASSUME NEW d \in Futures, NEW e \in Futures, DispatchCalls(d, e)
         PROVE  Unread(f)'
    BY <1>30, <1>0, <1>live DEF DispatchCalls
  <1>31. ASSUME NEW d \in Futures, NEW e \in Futures, DispatchQueues(d, e)
         PROVE  Unread(f)'
    BY <1>31, <1>0, <1>live DEF DispatchQueues
  <1>32. CASE UNCHANGED vars
    BY <1>32, <1>0, <1>live DEF vars
  <1> HIDE DEF TypeOK, Blank, Unread, Fresh
  <1>33. ASSUME NEW c \in Clients, NEW d \in Futures, Makes(c, d)
         PROVE  Unread(f)'
    BY <1>33, <1>1, <1>2, <1>3, <1>5 DEF Makes
  <1>34. ASSUME NEW c \in Clients, NEW d \in Futures, Continues(c, d)
         PROVE  Unread(f)'
    BY <1>34, <1>4 DEF Continues
  <1>35. ASSUME NEW c \in Clients, NEW d \in Futures, Gives(c, d)
         PROVE  Unread(f)'
    BY <1>35, <1>6, <1>7, <1>8, <1>9 DEF Gives
  <1>36. ASSUME NEW c \in Clients, Uses(c)
         PROVE  Unread(f)'
    BY <1>36, <1>10, <1>11, <1>12, <1>13, <1>14, <1>15 DEF Uses
  <1>37. ASSUME NEW d \in Futures, Works(d)
         PROVE  Unread(f)'
    BY <1>37, <1>16, <1>17, <1>18, <1>19, <1>20, <1>21, <1>22, <1>23, <1>24, <1>25, <1>26,
       <1>27, <1>28, <1>29, <1>30, <1>31 DEF Works
  <1> QED
    BY <1>0, <1>32, <1>33, <1>34, <1>35, <1>36, <1>37 DEF Flat

\* A value is moved out by the last reader.
LEMMA MovedUnreadStep == LInv /\ [Next]_vars => MovedUnread'
  <1> SUFFICES ASSUME LInv, [Next]_vars, NEW f \in Futures, (result[f] = "moved")'
               PROVE  ready'[f] /\ Unread(f)'
    BY DEF MovedUnread
  <1>0. /\ IInv /\ TypeOK /\ Blank /\ Phases /\ Returning /\ Origins /\ OneOwner
        /\ HasResult /\ MovedUnread /\ TakesAlone /\ Flat
    BY Flattened DEF LInv, IInv, Results
  <1>new. SUFFICES ASSUME result[f] # "moved"
                  PROVE  ready[f] /\ Unread(f)'
    <2>1. ready[f] => ready'[f]
      BY <1>0, FinalStep DEF Final
    <2>2. CASE result[f] = "moved"
      BY <1>0, <2>1, <2>2, UnreadStep DEF MovedUnread, Origins
    <2> QED
      BY <2>1, <2>2
  <1>live. Live \subseteq Futures /\ \A x \in Live' : x \in Live \/ x \in Fresh
    BY LiveStep, LiveRoots
  <1>fresh. f # NoFuture /\ \A x \in Fresh : x \in Futures /\ src[x] # f
    BY <1>0, FutureAssumption DEF FutureAssumption, Blank, Fresh
  <1> USE FutureAssumption DEF FutureAssumption, TypeOK, Blank
  <1>1. ASSUME NEW c \in Clients, NEW d \in Futures,
               NEW e \in Executors, AsyncMade(c, d, e)
         PROVE  ready[f] /\ Unread(f)'
    BY <1>1, <1>0, <1>new DEF AsyncMade, Enters
  <1>2. ASSUME NEW c \in Clients, NEW d \in Futures,
               NEW r \in Outcomes \cup {"broken"}, ReadyMade(c, d, r)
         PROVE  ready[f] /\ Unread(f)'
    BY <1>2, <1>0, <1>new DEF ReadyMade
  <1>3. ASSUME NEW c \in Clients, NEW s \in Futures, NEW d \in Futures,
               NEW e \in Executors \cup {"immediate"}, Watches(c, s, d, e)
         PROVE  ready[f] /\ Unread(f)'
    BY <1>3, <1>0, <1>new DEF Watches, Enters
  <1>4. ASSUME NEW c \in Clients, NEW s \in Futures, NEW d \in Futures,
               NEW k \in {"then", "recover", "detach"},
               NEW e \in Executors \cup {"immediate"},
               NEW H \in SUBSET handles[c], Chains(c, s, d, k, e, H)
         PROVE  ready[f] /\ Unread(f)'
    BY <1>4, <1>0, <1>new DEF Chains, Enters
  <1>5. ASSUME NEW c \in Clients, NEW s \in Futures,
               NEW d \in Futures, Detaches(c, s, d)
         PROVE  ready[f] /\ Unread(f)'
    BY <1>5, <1>0, <1>new DEF Detaches
  <1>6. ASSUME NEW c \in Clients, NEW s \in Futures,
               NEW d \in Futures, AttachFirst(c, s, d)
         PROVE  ready[f] /\ Unread(f)'
    BY <1>6, <1>0, <1>new DEF AttachFirst, NoOp
  <1>7. ASSUME NEW c \in Clients, NEW d \in Futures, SubmitCalls(c, d)
         PROVE  ready[f] /\ Unread(f)'
    BY <1>7, <1>0, <1>new DEF SubmitCalls
  <1>8. ASSUME NEW c \in Clients, NEW d \in Futures, SubmitQueues(c, d)
         PROVE  ready[f] /\ Unread(f)'
    BY <1>8, <1>0, <1>new DEF SubmitQueues, NoOp
  <1>9. ASSUME NEW c \in Clients, NEW d \in Futures, Returns(c, d)
         PROVE  ready[f] /\ Unread(f)'
    BY <1>9, <1>0, <1>new DEF Returns, NoOp
  <1>10. ASSUME NEW c \in Clients, AttachLate(c)
         PROVE  ready[f] /\ Unread(f)'
    BY <1>10, <1>0, <1>new DEF AttachLate
  <1>11. ASSUME NEW c \in Clients, NEW s \in Futures, Release(c, s)
         PROVE  ready[f] /\ Unread(f)'
    BY <1>11, <1>0, <1>new DEF Release, Idle
  <1>12. ASSUME NEW c \in Clients, NEW s \in Futures,
               NEW u \in BOOLEAN, Takes(c, s, u)
         PROVE  ready[f] /\ Unread(f)'
    BY <1>12, <1>0, <1>new DEF Takes, Enters
  <1>13. ASSUME NEW c \in Clients, NEW s \in Futures, TakeMoves(c, s)
         PROVE  ready[f] /\ Unread(f)'
    <2>1. f = s /\ Alone(c, s) /\ ready[f]
      BY <1>13, <1>0, <1>new DEF TakeMoves, TakesAlone
    <2>2. /\ handles'[c] = IF MoveOnly THEN handles[c] ELSE handles[c] \ {s}
          /\ op'[c].pc = "idle" /\ \A b \in Clients : b # c => handles'[b] = handles[b]
          /\ op'[c].d = NoFuture /\ \A b \in Clients : b # c => op'[b] = op[b]
          /\ src' = src
      BY <1>13, <1>0 DEF TakeMoves, NoOp
    <2>3. \A x \in Live' : src'[x] # f
      BY <1>0, <1>live, <2>1, <2>2 DEF Fresh, Alone
    <2> QED
      BY <1>fresh, <2>1, <2>2, <2>3 DEF Unread, Alone
  <1>14. ASSUME NEW c \in Clients, NEW H \in SUBSET handles[c], TakeCopies(c, H)
         PROVE  ready[f] /\ Unread(f)'
    BY <1>14, <1>0, <1>new DEF TakeCopies, NoOp
  <1>15. ASSUME NEW c \in Clients, NEW s \in Futures,
               NEW other \in Clients, Share(c, other, s)
         PROVE  ready[f] /\ Unread(f)'
    BY <1>15, <1>0, <1>new DEF Share, Idle
  <1>16. ASSUME NEW d \in Futures, Called(d)
         PROVE  ready[f] /\ Unread(f)'
    BY <1>16, <1>0, <1>new DEF Called
  <1>17. ASSUME NEW d \in Futures, Canceled(d)
         PROVE  ready[f] /\ Unread(f)'
    BY <1>17, <1>0, <1>new DEF Canceled
  <1>18. ASSUME NEW d \in Futures, Begins(d)
         PROVE  ready[f] /\ Unread(f)'
    BY <1>18, <1>0, <1>new DEF Begins
  <1>19. ASSUME NEW d \in Futures, Breaks(d)
         PROVE  ready[f] /\ Unread(f)'
    BY <1>19, <1>0, <1>new DEF Breaks
  <1>20. ASSUME NEW d \in Futures, NEW r, NEW res, Runs(d, r, res)
         PROVE  ready[f] /\ Unread(f)'
    <2>1. src[d] # NoFuture => src[d] \in Futures /\ ready[src[d]] /\ result[src[d]] # "moved"
      BY <1>20, <1>0, Argument DEF Runs
    <2>2. /\ src[d] = f /\ src[d] # NoFuture /\ ready[f]
          /\ MoveOnly \/ Unique(src[d], <<"function", d>>)
      BY <1>20, <1>0, <1>new, <2>1 DEF Runs, Took
    <2>3. /\ \A c \in Clients : f \notin handles[c] /\ op[c].d # f
          /\ \A x \in Live : src[x] = f => x = d
      BY <1>0, <2>2, OnlyReader
    <2>4. invoke'[d] = "wait" /\ op' = op /\ handles' = handles
      BY <1>20, <1>0 DEF Runs
    <2>5. \A x \in Futures : src'[x] = f => src[x] = f
      BY <1>20, <1>0, <2>2, SourceKnown DEF Runs
    <2>6. \A x \in Live' : src'[x] = f => x = d
      BY <1>fresh, <1>live, <2>3, <2>5
    <2> QED
      BY <2>2, <2>3, <2>4, <2>6 DEF Unread
  <1>21. ASSUME NEW d \in Futures, NEW q \in Futures,
               NEW h \in Futures, Reducing(d, q, h)
         PROVE  ready[f] /\ Unread(f)'
    <2>1. src[d] # NoFuture => src[d] \in Futures /\ ready[src[d]] /\ result[src[d]] # "moved"
      BY <1>21, <1>0, Argument DEF Reducing
    <2>2. /\ src[d] = f /\ src[d] # NoFuture /\ ready[f]
          /\ MoveOnly \/ Unique(src[d], <<"function", d>>)
      BY <1>21, <1>0, <1>new, <2>1 DEF Reducing, Took
    <2>3. /\ \A c \in Clients : f \notin handles[c] /\ op[c].d # f
          /\ \A x \in Live : src[x] = f => x = d
      BY <1>0, <2>2, OnlyReader
    <2>4. invoke'[d] = "attach" /\ op' = op /\ handles' = handles
      BY <1>21, <1>0 DEF Reducing
    <2>5. \A x \in Futures : src'[x] = f => src[x] = f
      BY <1>21, <1>0, <2>2, SourceKnown DEF Reducing
    <2>6. \A x \in Live' : src'[x] = f => x = d
      BY <1>fresh, <1>live, <2>3, <2>5
    <2> QED
      BY <2>2, <2>3, <2>4, <2>6 DEF Unread
  <1>22. ASSUME NEW d \in Futures, NEW h \in Futures, HoldCalled(d, h)
         PROVE  ready[f] /\ Unread(f)'
    BY <1>22, <1>0, <1>new DEF HoldCalled
  <1>23. ASSUME NEW d \in Futures, NEW h \in Futures,
               NEW q \in Futures, HoldAttached(d, h, q)
         PROVE  ready[f] /\ Unread(f)'
    BY <1>23, <1>0, <1>new DEF HoldAttached
  <1>24. ASSUME NEW d \in Futures, Finish(d)
         PROVE  ready[f] /\ Unread(f)'
    BY <1>24, <1>0, <1>new DEF Finish
  <1>25. ASSUME NEW d \in Futures, Ends(d)
         PROVE  ready[f] /\ Unread(f)'
    BY <1>25, <1>0, <1>new DEF Ends
  <1>26. ASSUME NEW d \in Futures, NEW res, Relays(d, res)
         PROVE  ready[f] /\ Unread(f)'
    <2>1. src[d] # NoFuture => src[d] \in Futures /\ ready[src[d]] /\ result[src[d]] # "moved"
      BY <1>26, <1>0, Argument DEF Relays
    <2>2. /\ src[d] = f /\ src[d] # NoFuture /\ ready[f]
          /\ MoveOnly \/ Unique(src[d], <<"function", d>>)
      BY <1>26, <1>0, <1>new, <2>1, Busy DEF Relays, Took, Known, IInv
    <2>3. /\ \A c \in Clients : f \notin handles[c] /\ op[c].d # f
          /\ \A x \in Live : src[x] = f => x = d
      BY <1>0, <2>2, OnlyReader
    <2>4. invoke'[d] = "relay" /\ op' = op /\ handles' = handles
      BY <1>26, <1>0 DEF Relays
    <2>5. \A x \in Futures : src'[x] = f => src[x] = f
      BY <1>26, <1>0, <2>2, SourceKnown DEF Relays
    <2>6. \A x \in Live' : src'[x] = f => x = d
      BY <1>fresh, <1>live, <2>3, <2>5
    <2> QED
      BY <2>2, <2>3, <2>4, <2>6 DEF Unread
  <1>27. ASSUME NEW d \in Futures, Publish(d)
         PROVE  ready[f] /\ Unread(f)'
    BY <1>27, <1>0, <1>new DEF Publish, MovedFrom
  <1>28. ASSUME NEW d \in Futures, DispatchReturn(d)
         PROVE  ready[f] /\ Unread(f)'
    BY <1>28, <1>0, <1>new DEF DispatchReturn, Rest
  <1>29. ASSUME NEW d \in Futures, Settled(d)
         PROVE  ready[f] /\ Unread(f)'
    BY <1>29, <1>0, <1>new DEF Settled
  <1>30. ASSUME NEW d \in Futures, NEW e \in Futures, DispatchCalls(d, e)
         PROVE  ready[f] /\ Unread(f)'
    BY <1>30, <1>0, <1>new DEF DispatchCalls
  <1>31. ASSUME NEW d \in Futures, NEW e \in Futures, DispatchQueues(d, e)
         PROVE  ready[f] /\ Unread(f)'
    BY <1>31, <1>0, <1>new DEF DispatchQueues
  <1>32. CASE UNCHANGED vars
    BY <1>32, <1>0, <1>new DEF vars
  <1> HIDE DEF TypeOK, Blank
  <1>33. ASSUME NEW c \in Clients, NEW d \in Futures, Makes(c, d)
         PROVE  ready[f] /\ Unread(f)'
    BY <1>33, <1>1, <1>2, <1>3, <1>5 DEF Makes
  <1>34. ASSUME NEW c \in Clients, NEW d \in Futures, Continues(c, d)
         PROVE  ready[f] /\ Unread(f)'
    BY <1>34, <1>4 DEF Continues
  <1>35. ASSUME NEW c \in Clients, NEW d \in Futures, Gives(c, d)
         PROVE  ready[f] /\ Unread(f)'
    BY <1>35, <1>6, <1>7, <1>8, <1>9 DEF Gives
  <1>36. ASSUME NEW c \in Clients, Uses(c)
         PROVE  ready[f] /\ Unread(f)'
    BY <1>36, <1>10, <1>11, <1>12, <1>13, <1>14, <1>15 DEF Uses
  <1>37. ASSUME NEW d \in Futures, Works(d)
         PROVE  ready[f] /\ Unread(f)'
    BY <1>37, <1>16, <1>17, <1>18, <1>19, <1>20, <1>21, <1>22, <1>23, <1>24, <1>25, <1>26,
       <1>27, <1>28, <1>29, <1>30, <1>31 DEF Works
  <1> QED
    BY <1>0, <1>32, <1>33, <1>34, <1>35, <1>36, <1>37 DEF Flat

LEMMA MoveOnlyAloneNext == (IInv /\ Origins /\ InHand /\ OneOwner /\ MoveOnly => TakesAlone)'
  BY MoveOnlyAlone, PTL

\* A client that may move a value out stays alone until it does.
LEMMA TakesAloneStep == LInv /\ [Next]_vars => TakesAlone'
  <1> SUFFICES ASSUME LInv, [Next]_vars, NEW a \in Clients, (op[a].pc = "take" /\ op[a].unique)'
               PROVE  Alone(a, op[a].s)'
    BY DEF TakesAlone
  <1>0. /\ IInv /\ TypeOK /\ Blank /\ Returning /\ Origins
        /\ InHand /\ OneOwner /\ TakesAlone /\ Flat
    BY Flattened DEF LInv, IInv, Results
  <1>copy. SUFFICES ASSUME ~MoveOnly
                  PROVE  Alone(a, op[a].s)'
    <2>1. CASE MoveOnly
      <3>1. (IInv /\ Origins /\ InHand /\ OneOwner)'
        BY StepInv, OriginsStep, InHandStep, OneOwnerStep DEF LInv
      <3>2. TakesAlone'
        BY <2>1, <3>1, MoveOnlyAloneNext
      <3> QED
        BY <3>2 DEF TakesAlone
    <2> QED
      BY <2>1
  <1>live. Live \subseteq Futures /\ \A x \in Live' : x \in Live \/ x \in Fresh
    BY LiveStep, LiveRoots
  <1> USE FutureAssumption DEF FutureAssumption, TypeOK, Blank
  <1>1. ASSUME NEW c \in Clients, NEW d \in Futures,
               NEW e \in Executors, AsyncMade(c, d, e)
         PROVE  Alone(a, op[a].s)'
    <2>1. a # c /\ op'[a] = op[a]
      BY <1>1, <1>0 DEF AsyncMade, Enters
    <2>2. /\ Alone(a, op[a].s) /\ op[a].s \in handles[a] /\ op[a].s \in Futures
          /\ kind[op[a].s] # "none"
      BY <1>0, <2>1, HandleKnown DEF TakesAlone, InHand
    <2>3. \A b \in Clients : op[a].s \in handles'[b] => b = a
      BY <1>1, <1>0, <2>1, <2>2 DEF AsyncMade, Alone
    <2>6. /\ op'[c].d = d
          /\ \A b \in Clients : b # c => op'[b] = op[b]
      BY <1>1, <1>0 DEF AsyncMade, Enters
    <2>4. \A b \in Clients : op'[b].d # op[a].s
      <3>1. d # op[a].s
        BY <1>1, <2>2, FutureAssumption DEF AsyncMade, FutureAssumption
      <3> QED
        BY <2>2, <2>6, <3>1 DEF Alone
    <2>5. \A x \in Live' : src'[x] # op[a].s
      BY <1>1, <1>0, <1>live, <2>1, <2>2 DEF AsyncMade, Alone, Fresh
    <2> QED
      BY <2>1, <2>3, <2>4, <2>5 DEF Alone
  <1>2. ASSUME NEW c \in Clients, NEW d \in Futures,
               NEW r \in Outcomes \cup {"broken"}, ReadyMade(c, d, r)
         PROVE  Alone(a, op[a].s)'
    BY <1>2, <1>0, <1>copy, <1>live, HandleKnown DEF ReadyMade, TakesAlone, Alone, InHand, Fresh
  <1>3. ASSUME NEW c \in Clients, NEW s \in Futures, NEW d \in Futures,
               NEW e \in Executors \cup {"immediate"}, Watches(c, s, d, e)
         PROVE  Alone(a, op[a].s)'
    <2>1. a # c /\ op'[a] = op[a]
      BY <1>3, <1>0 DEF Watches, Enters
    <2>2. /\ Alone(a, op[a].s) /\ op[a].s \in handles[a] /\ op[a].s \in Futures
          /\ kind[op[a].s] # "none"
      BY <1>0, <2>1, HandleKnown DEF TakesAlone, InHand
    <2>3. \A b \in Clients : op[a].s \in handles'[b] => b = a
      BY <1>3, <1>0, <2>1, <2>2 DEF Watches, Alone
    <2>6. /\ op'[c].d = d
          /\ \A b \in Clients : b # c => op'[b] = op[b]
      BY <1>3, <1>0 DEF Watches, Enters
    <2>4. \A b \in Clients : op'[b].d # op[a].s
      <3>1. d # op[a].s
        BY <1>3, <2>2, FutureAssumption DEF Watches, FutureAssumption
      <3> QED
        BY <2>2, <2>6, <3>1 DEF Alone
    <2>5. \A x \in Live' : src'[x] # op[a].s
      BY <1>3, <1>0, <1>live, <2>1, <2>2 DEF Watches, Alone, Fresh
    <2> QED
      BY <2>1, <2>3, <2>4, <2>5 DEF Alone
  <1>4. ASSUME NEW c \in Clients, NEW s \in Futures, NEW d \in Futures,
               NEW k \in {"then", "recover", "detach"},
               NEW e \in Executors \cup {"immediate"},
               NEW H \in SUBSET handles[c], Chains(c, s, d, k, e, H)
         PROVE  Alone(a, op[a].s)'
    <2>1. a # c /\ op'[a] = op[a]
      BY <1>4, <1>0 DEF Chains, Enters
    <2>2. /\ Alone(a, op[a].s) /\ op[a].s \in handles[a] /\ op[a].s \in Futures
          /\ kind[op[a].s] # "none"
      BY <1>0, <2>1, HandleKnown DEF TakesAlone, InHand
    <2>3. \A b \in Clients : op[a].s \in handles'[b] => b = a
      BY <1>4, <1>0, <2>1, <2>2 DEF Chains, Alone
    <2>6. /\ op'[c].d = d
          /\ \A b \in Clients : b # c => op'[b] = op[b]
      BY <1>4, <1>0 DEF Chains, Enters
    <2>4. \A b \in Clients : op'[b].d # op[a].s
      <3>1. d # op[a].s
        BY <1>4, <2>2, FutureAssumption DEF Chains, FutureAssumption
      <3> QED
        BY <2>2, <2>6, <3>1 DEF Alone
    <2>5. \A x \in Live' : src'[x] # op[a].s
      BY <1>4, <1>0, <1>live, <2>1, <2>2 DEF Chains, Alone, Fresh
    <2> QED
      BY <2>1, <2>3, <2>4, <2>5 DEF Alone
  <1>5. ASSUME NEW c \in Clients, NEW s \in Futures,
               NEW d \in Futures, Detaches(c, s, d)
         PROVE  Alone(a, op[a].s)'
    BY <1>5, <1>0, <1>copy, <1>live, HandleKnown DEF Detaches, TakesAlone, Alone, InHand, Fresh
  <1>6. ASSUME NEW c \in Clients, NEW s \in Futures,
               NEW d \in Futures, AttachFirst(c, s, d)
         PROVE  Alone(a, op[a].s)'
    <2>1. a # c /\ op'[a] = op[a]
      BY <1>6, <1>0 DEF AttachFirst, NoOp
    <2>2. /\ Alone(a, op[a].s) /\ op[a].s \in handles[a] /\ op[a].s \in Futures
          /\ kind[op[a].s] # "none"
      BY <1>0, <2>1, HandleKnown DEF TakesAlone, InHand
    <2>3. \A b \in Clients : op[a].s \in handles'[b] => b = a
      BY <1>6, <1>0, <2>1, <2>2 DEF AttachFirst, Alone, Gift
    <2>6. /\ op'[c].d = NoFuture
          /\ \A b \in Clients : b # c => op'[b] = op[b]
      BY <1>6, <1>0 DEF AttachFirst, NoOp
    <2>4. \A b \in Clients : op'[b].d # op[a].s
      <3>1. NoFuture # op[a].s
        BY <1>6, <2>2, FutureAssumption DEF AttachFirst, FutureAssumption
      <3> QED
        BY <2>2, <2>6, <3>1 DEF Alone
    <2>5. \A x \in Live' : src'[x] # op[a].s
      BY <1>6, <1>0, <1>live, <2>1, <2>2 DEF AttachFirst, Alone, Fresh
    <2> QED
      BY <2>1, <2>3, <2>4, <2>5 DEF Alone
  <1>7. ASSUME NEW c \in Clients, NEW d \in Futures, SubmitCalls(c, d)
         PROVE  Alone(a, op[a].s)'
    BY <1>7, <1>0, <1>copy, <1>live, HandleKnown DEF SubmitCalls, TakesAlone, Alone, InHand,
       Fresh
  <1>8. ASSUME NEW c \in Clients, NEW d \in Futures, SubmitQueues(c, d)
         PROVE  Alone(a, op[a].s)'
    <2>1. a # c /\ op'[a] = op[a]
      BY <1>8, <1>0 DEF SubmitQueues, NoOp
    <2>2. /\ Alone(a, op[a].s) /\ op[a].s \in handles[a] /\ op[a].s \in Futures
          /\ kind[op[a].s] # "none"
      BY <1>0, <2>1, HandleKnown DEF TakesAlone, InHand
    <2>3. \A b \in Clients : op[a].s \in handles'[b] => b = a
      BY <1>8, <1>0, <2>1, <2>2 DEF SubmitQueues, Alone, Gift
    <2>6. /\ op'[c].d = NoFuture
          /\ \A b \in Clients : b # c => op'[b] = op[b]
      BY <1>8, <1>0 DEF SubmitQueues, NoOp
    <2>4. \A b \in Clients : op'[b].d # op[a].s
      <3>1. NoFuture # op[a].s
        BY <1>8, <2>2, FutureAssumption DEF SubmitQueues, FutureAssumption
      <3> QED
        BY <2>2, <2>6, <3>1 DEF Alone
    <2>5. \A x \in Live' : src'[x] # op[a].s
      BY <1>8, <1>0, <1>live, <2>1, <2>2 DEF SubmitQueues, Alone, Fresh
    <2> QED
      BY <2>1, <2>3, <2>4, <2>5 DEF Alone
  <1>9. ASSUME NEW c \in Clients, NEW d \in Futures, Returns(c, d)
         PROVE  Alone(a, op[a].s)'
    <2>1. a # c /\ op'[a] = op[a]
      BY <1>9, <1>0 DEF Returns, NoOp
    <2>2. /\ Alone(a, op[a].s) /\ op[a].s \in handles[a] /\ op[a].s \in Futures
          /\ kind[op[a].s] # "none"
      BY <1>0, <2>1, HandleKnown DEF TakesAlone, InHand
    <2>3. \A b \in Clients : op[a].s \in handles'[b] => b = a
      BY <1>9, <1>0, <2>1, <2>2 DEF Returns, Alone, Gift
    <2>6. /\ op'[c].d = NoFuture
          /\ \A b \in Clients : b # c => op'[b] = op[b]
      BY <1>9, <1>0 DEF Returns, NoOp
    <2>4. \A b \in Clients : op'[b].d # op[a].s
      <3>1. NoFuture # op[a].s
        BY <1>9, <2>2, FutureAssumption DEF Returns, FutureAssumption
      <3> QED
        BY <2>2, <2>6, <3>1 DEF Alone
    <2>5. \A x \in Live' : src'[x] # op[a].s
      BY <1>9, <1>0, <1>live, <2>1, <2>2 DEF Returns, Alone, Fresh
    <2> QED
      BY <2>1, <2>3, <2>4, <2>5 DEF Alone
  <1>10. ASSUME NEW c \in Clients, AttachLate(c)
         PROVE  Alone(a, op[a].s)'
    BY <1>10, <1>0, <1>copy, <1>live, HandleKnown DEF AttachLate, TakesAlone, Alone, InHand,
       Fresh
  <1>11. ASSUME NEW c \in Clients, NEW s \in Futures, Release(c, s)
         PROVE  Alone(a, op[a].s)'
    BY <1>11, <1>0, <1>copy, <1>live, HandleKnown DEF Release, Idle, TakesAlone, Alone,
       InHand, Fresh
  <1>12. ASSUME NEW c \in Clients, NEW s \in Futures,
               NEW u \in BOOLEAN, Takes(c, s, u)
         PROVE  Alone(a, op[a].s)'
    <2>1. CASE a = c
      <3>1. op'[a].s = s /\ u = TRUE
        BY <1>12, <2>1 DEF Takes, Enters
      <3>2. Alone(a, s)
        BY <1>12, <1>copy, <2>1, <3>1, OnlyHandle DEF Takes
      <3>3. /\ handles' = handles /\ src' = src /\ op'[c].d = NoFuture
            /\ \A b \in Clients : b # c => op'[b] = op[b]
        BY <1>12 DEF Takes, Enters
      <3>4. \A x \in Live' : src'[x] # s
        BY <1>0, <1>live, <3>2, <3>3 DEF Fresh, Alone
      <3>5. \A b \in Clients : op'[b].d # s
        BY <3>2, <3>3 DEF Alone
      <3> QED
        BY <3>1, <3>2, <3>3, <3>4, <3>5 DEF Alone
    <2>2. CASE a # c
      <3>1. op'[a] = op[a] /\ handles' = handles /\ src' = src
        BY <1>12, <2>2 DEF Takes, Enters
      <3>2. Alone(a, op[a].s) /\ op[a].s \in handles[a] /\ op[a].s \in Futures
        BY <1>0, <3>1 DEF TakesAlone, InHand
      <3>5. /\ op'[c].d = NoFuture
            /\ \A b \in Clients : b # c => op'[b] = op[b]
        BY <1>12 DEF Takes, Enters
      <3>3. \A b \in Clients : op'[b].d # op[a].s
        BY <3>2, <3>5 DEF Alone
      <3>4. \A x \in Live' : src'[x] # op[a].s
        BY <1>0, <1>live, <3>1, <3>2 DEF Alone, Fresh
      <3> QED
        BY <3>1, <3>2, <3>3, <3>4 DEF Alone
    <2> QED
      BY <2>1, <2>2
  <1>13. ASSUME NEW c \in Clients, NEW s \in Futures, TakeMoves(c, s)
         PROVE  Alone(a, op[a].s)'
    BY <1>13, <1>0, <1>copy, <1>live, HandleKnown DEF TakeMoves, NoOp, TakesAlone, Alone,
       InHand, Fresh
  <1>14. ASSUME NEW c \in Clients, NEW H \in SUBSET handles[c], TakeCopies(c, H)
         PROVE  Alone(a, op[a].s)'
    BY <1>14, <1>0, <1>copy, <1>live, HandleKnown DEF TakeCopies, NoOp, TakesAlone, Alone,
       InHand, Fresh
  <1>15. ASSUME NEW c \in Clients, NEW s \in Futures,
               NEW other \in Clients, Share(c, other, s)
         PROVE  Alone(a, op[a].s)'
    BY <1>15, <1>0, <1>copy, <1>live, HandleKnown DEF Share, Idle, TakesAlone, Alone,
       InHand, Fresh
  <1>16. ASSUME NEW d \in Futures, Called(d)
         PROVE  Alone(a, op[a].s)'
    BY <1>16, <1>0, <1>copy, <1>live, HandleKnown DEF Called, TakesAlone, Alone, InHand, Fresh
  <1>17. ASSUME NEW d \in Futures, Canceled(d)
         PROVE  Alone(a, op[a].s)'
    BY <1>17, <1>0, <1>copy, <1>live, HandleKnown DEF Canceled, TakesAlone, Alone, InHand, Fresh
  <1>18. ASSUME NEW d \in Futures, Begins(d)
         PROVE  Alone(a, op[a].s)'
    BY <1>18, <1>0, <1>copy, <1>live, HandleKnown DEF Begins, TakesAlone, Alone, InHand, Fresh
  <1>19. ASSUME NEW d \in Futures, Breaks(d)
         PROVE  Alone(a, op[a].s)'
    BY <1>19, <1>0, <1>copy, <1>live, HandleKnown DEF Breaks, TakesAlone, Alone, InHand, Fresh
  <1>20. ASSUME NEW d \in Futures, NEW r, NEW res, Runs(d, r, res)
         PROVE  Alone(a, op[a].s)'
    BY <1>20, <1>0, <1>copy, <1>live, HandleKnown DEF Runs, TakesAlone, Alone, InHand, Fresh
  <1>21. ASSUME NEW d \in Futures, NEW q \in Futures,
               NEW h \in Futures, Reducing(d, q, h)
         PROVE  Alone(a, op[a].s)'
    BY <1>21, <1>0, <1>copy, <1>live, HandleKnown DEF Reducing, TakesAlone, Alone, InHand, Fresh
  <1>22. ASSUME NEW d \in Futures, NEW h \in Futures, HoldCalled(d, h)
         PROVE  Alone(a, op[a].s)'
    BY <1>22, <1>0, <1>copy, <1>live, HandleKnown DEF HoldCalled, TakesAlone, Alone, InHand,
       Fresh
  <1>23. ASSUME NEW d \in Futures, NEW h \in Futures,
               NEW q \in Futures, HoldAttached(d, h, q)
         PROVE  Alone(a, op[a].s)'
    BY <1>23, <1>0, <1>copy, <1>live, HandleKnown DEF HoldAttached, TakesAlone, Alone,
       InHand, Fresh
  <1>24. ASSUME NEW d \in Futures, Finish(d)
         PROVE  Alone(a, op[a].s)'
    BY <1>24, <1>0, <1>copy, <1>live, HandleKnown DEF Finish, TakesAlone, Alone, InHand, Fresh
  <1>25. ASSUME NEW d \in Futures, Ends(d)
         PROVE  Alone(a, op[a].s)'
    BY <1>25, <1>0, <1>copy, <1>live, HandleKnown DEF Ends, TakesAlone, Alone, InHand, Fresh
  <1>26. ASSUME NEW d \in Futures, NEW res, Relays(d, res)
         PROVE  Alone(a, op[a].s)'
    BY <1>26, <1>0, <1>copy, <1>live, HandleKnown DEF Relays, TakesAlone, Alone, InHand, Fresh
  <1>27. ASSUME NEW d \in Futures, Publish(d)
         PROVE  Alone(a, op[a].s)'
    BY <1>27, <1>0, <1>copy, <1>live, HandleKnown DEF Publish, MovedFrom, TakesAlone, Alone,
       InHand, Fresh
  <1>28. ASSUME NEW d \in Futures, DispatchReturn(d)
         PROVE  Alone(a, op[a].s)'
    BY <1>28, <1>0, <1>copy, <1>live, HandleKnown DEF DispatchReturn, Rest, TakesAlone,
       Alone, InHand, Fresh
  <1>29. ASSUME NEW d \in Futures, Settled(d)
         PROVE  Alone(a, op[a].s)'
    BY <1>29, <1>0, <1>copy, <1>live, HandleKnown DEF Settled, TakesAlone, Alone, InHand, Fresh
  <1>30. ASSUME NEW d \in Futures, NEW e \in Futures, DispatchCalls(d, e)
         PROVE  Alone(a, op[a].s)'
    BY <1>30, <1>0, <1>copy, <1>live, HandleKnown DEF DispatchCalls, TakesAlone, Alone,
       InHand, Fresh
  <1>31. ASSUME NEW d \in Futures, NEW e \in Futures, DispatchQueues(d, e)
         PROVE  Alone(a, op[a].s)'
    BY <1>31, <1>0, <1>copy, <1>live, HandleKnown DEF DispatchQueues, TakesAlone, Alone,
       InHand, Fresh
  <1>32. CASE UNCHANGED vars
    BY <1>32, <1>0, <1>copy, <1>live, HandleKnown DEF vars, TakesAlone, Alone, InHand, Fresh
  <1> HIDE DEF TypeOK, Blank
  <1>33. ASSUME NEW c \in Clients, NEW d \in Futures, Makes(c, d)
         PROVE  Alone(a, op[a].s)'
    BY <1>33, <1>1, <1>2, <1>3, <1>5 DEF Makes
  <1>34. ASSUME NEW c \in Clients, NEW d \in Futures, Continues(c, d)
         PROVE  Alone(a, op[a].s)'
    BY <1>34, <1>4 DEF Continues
  <1>35. ASSUME NEW c \in Clients, NEW d \in Futures, Gives(c, d)
         PROVE  Alone(a, op[a].s)'
    BY <1>35, <1>6, <1>7, <1>8, <1>9 DEF Gives
  <1>36. ASSUME NEW c \in Clients, Uses(c)
         PROVE  Alone(a, op[a].s)'
    BY <1>36, <1>10, <1>11, <1>12, <1>13, <1>14, <1>15 DEF Uses
  <1>37. ASSUME NEW d \in Futures, Works(d)
         PROVE  Alone(a, op[a].s)'
    BY <1>37, <1>16, <1>17, <1>18, <1>19, <1>20, <1>21, <1>22, <1>23, <1>24, <1>25, <1>26,
       <1>27, <1>28, <1>29, <1>30, <1>31 DEF Works
  <1> QED
    BY <1>0, <1>32, <1>33, <1>34, <1>35, <1>36, <1>37 DEF Flat

\* A living future whose task is spent stays one that is being completed.
LEMMA ProducedStep == LInv /\ [Next]_vars => Produced'
  <1> SUFFICES ASSUME LInv, [Next]_vars PROVE Produced'
    OBVIOUS
  <1>0. IInv /\ TypeOK /\ Blank /\ Phases /\ Reductions /\ Calls /\ Origins /\ Produced /\ Flat
    BY Flattened DEF LInv, IInv
  <1>live. Live \subseteq Futures /\ \A x \in Live' : x \in Live \/ x \in Fresh
    BY LiveStep, LiveRoots
  <1> USE FutureAssumption DEF FutureAssumption, TypeOK, Blank, Produced, Origins, IsFuture,
          Running, Fresh
  <1>1. ASSUME NEW c \in Clients, NEW d \in Futures,
               NEW e \in Executors, AsyncMade(c, d, e)
         PROVE  Produced'
    BY <1>1, <1>0, <1>live DEF AsyncMade, Enters, Phases, Reductions
  <1>2. ASSUME NEW c \in Clients, NEW d \in Futures,
               NEW r \in Outcomes \cup {"broken"}, ReadyMade(c, d, r)
         PROVE  Produced'
    BY <1>2, <1>0, <1>live DEF ReadyMade, Phases, Reductions
  <1>3. ASSUME NEW c \in Clients, NEW s \in Futures, NEW d \in Futures,
               NEW e \in Executors \cup {"immediate"}, Watches(c, s, d, e)
         PROVE  Produced'
    BY <1>3, <1>0, <1>live DEF Watches, Enters, Phases, Reductions
  <1>4. ASSUME NEW c \in Clients, NEW s \in Futures, NEW d \in Futures,
               NEW k \in {"then", "recover", "detach"},
               NEW e \in Executors \cup {"immediate"},
               NEW H \in SUBSET handles[c], Chains(c, s, d, k, e, H)
         PROVE  Produced'
    BY <1>4, <1>0, <1>live DEF Chains, Enters, Phases, Reductions
  <1>5. ASSUME NEW c \in Clients, NEW s \in Futures,
               NEW d \in Futures, Detaches(c, s, d)
         PROVE  Produced'
    BY <1>5, <1>0, <1>live DEF Detaches, Phases, Reductions
  <1>6. ASSUME NEW c \in Clients, NEW s \in Futures,
               NEW d \in Futures, AttachFirst(c, s, d)
         PROVE  Produced'
    BY <1>6, <1>0, <1>live DEF AttachFirst, NoOp, Phases, Reductions
  <1>7. ASSUME NEW c \in Clients, NEW d \in Futures, SubmitCalls(c, d)
         PROVE  Produced'
    BY <1>7, <1>0, <1>live DEF SubmitCalls, Phases, Reductions
  <1>8. ASSUME NEW c \in Clients, NEW d \in Futures, SubmitQueues(c, d)
         PROVE  Produced'
    BY <1>8, <1>0, <1>live DEF SubmitQueues, NoOp, Phases, Reductions
  <1>9. ASSUME NEW c \in Clients, NEW d \in Futures, Returns(c, d)
         PROVE  Produced'
    BY <1>9, <1>0, <1>live DEF Returns, NoOp, Phases, Reductions
  <1>10. ASSUME NEW c \in Clients, AttachLate(c)
         PROVE  Produced'
    BY <1>10, <1>0, <1>live DEF AttachLate, Phases, Reductions
  <1>11. ASSUME NEW c \in Clients, NEW s \in Futures, Release(c, s)
         PROVE  Produced'
    BY <1>11, <1>0, <1>live DEF Release, Idle, Phases, Reductions
  <1>12. ASSUME NEW c \in Clients, NEW s \in Futures,
               NEW u \in BOOLEAN, Takes(c, s, u)
         PROVE  Produced'
    BY <1>12, <1>0, <1>live DEF Takes, Enters, Phases, Reductions
  <1>13. ASSUME NEW c \in Clients, NEW s \in Futures, TakeMoves(c, s)
         PROVE  Produced'
    BY <1>13, <1>0, <1>live DEF TakeMoves, NoOp, Phases, Reductions
  <1>14. ASSUME NEW c \in Clients, NEW H \in SUBSET handles[c], TakeCopies(c, H)
         PROVE  Produced'
    BY <1>14, <1>0, <1>live DEF TakeCopies, NoOp, Phases, Reductions
  <1>15. ASSUME NEW c \in Clients, NEW s \in Futures,
               NEW other \in Clients, Share(c, other, s)
         PROVE  Produced'
    BY <1>15, <1>0, <1>live DEF Share, Idle, Phases, Reductions
  <1>16. ASSUME NEW d \in Futures, Called(d)
         PROVE  Produced'
    <2>1. /\ kind[d] \in {"watch", "detach"} /\ \A x \in Futures : x # d => task'[x] = task[x]
          /\ UNCHANGED << kind, into, hold, ready, invoke, settle >>
      BY <1>16, <1>0 DEF Called, IsCallback, Callback
    <2>2. Produced
      BY <1>0
    <2>3. \A x \in Live' : IsFuture(x)' /\ task'[x] = "spent" /\ ~ready'[x] =>
             Running(x)' \/ hold'[x] # NoFuture
      BY <1>0, <1>live, <2>1, <2>2 DEF Callback
    <2>4. \A h \in Futures : kind[h] = "hold" => into[h] \in Futures /\ kind[into[h]] # "none"
      BY <1>0 DEF Reductions
    <2> QED
      BY <1>live, <2>1, <2>2, <2>3, <2>4
  <1>17. ASSUME NEW d \in Futures, Canceled(d)
         PROVE  Produced'
    BY <1>17, <1>0, <1>live DEF Canceled, Phases, Reductions
  <1>18. ASSUME NEW d \in Futures, Begins(d)
         PROVE  Produced'
    BY <1>18, <1>0, <1>live DEF Begins, Phases, Reductions
  <1>19. ASSUME NEW d \in Futures, Breaks(d)
         PROVE  Produced'
    BY <1>19, <1>0, <1>live DEF Breaks, Phases, Reductions
  <1>20. ASSUME NEW d \in Futures, NEW r, NEW res, Runs(d, r, res)
         PROVE  Produced'
    BY <1>20, <1>0, <1>live DEF Runs, Phases, Reductions
  <1>21. ASSUME NEW d \in Futures, NEW q \in Futures,
               NEW h \in Futures, Reducing(d, q, h)
         PROVE  Produced'
    BY <1>21, <1>0, <1>live DEF Reducing, Phases, Reductions
  <1>22. ASSUME NEW d \in Futures, NEW h \in Futures, HoldCalled(d, h)
         PROVE  Produced'
    BY <1>22, <1>0, <1>live DEF HoldCalled, Phases, Reductions
  <1>23. ASSUME NEW d \in Futures, NEW h \in Futures,
               NEW q \in Futures, HoldAttached(d, h, q)
         PROVE  Produced'
    BY <1>23, <1>0, <1>live DEF HoldAttached, Phases, Reductions
  <1>24. ASSUME NEW d \in Futures, Finish(d)
         PROVE  Produced'
    BY <1>24, <1>0, <1>live DEF Finish, Phases, Reductions
  <1>25. ASSUME NEW d \in Futures, Ends(d)
         PROVE  Produced'
    BY <1>25, <1>0, <1>live DEF Ends, Phases, Reductions
  <1>26. ASSUME NEW d \in Futures, NEW res, Relays(d, res)
         PROVE  Produced'
    <2>1. into[d] \in Futures /\ hold[into[d]] = d /\ kind[into[d]] # "hold" /\ settle[d] = "idle"
      BY <1>26, <1>0 DEF Relays, Reductions, Phases
    <2>2. \A x \in Futures : kind[x] = "hold" /\ into[x] = into[d] => x = d
      BY <1>0, <2>1 DEF Reductions
    <2>3. /\ \A x \in Futures : x # into[d] => settle'[x] = settle[x]
          /\ settle'[into[d]] = "publish"
          /\ \A x \in Futures : x # d => invoke'[x] = invoke[x]
          /\ invoke'[d] = "relay" /\ UNCHANGED << kind, into, hold, task, ready >>
      BY <1>26, <1>0, <2>1 DEF Relays
    <2>4. Produced
      BY <1>0
    <2>5. \A x \in Live' : IsFuture(x)' /\ task'[x] = "spent" /\ ~ready'[x] =>
             Running(x)' \/ hold'[x] # NoFuture
      BY <1>0, <1>live, <2>1, <2>3, <2>4, ZenonT(60)
    <2>6. \A h \in Futures : kind[h] = "hold" => into[h] \in Futures /\ kind[into[h]] # "none"
      BY <1>0 DEF Reductions
    <2>7. \A h \in Futures : kind[h] = "hold" /\ h # d => into[h] # into[d] /\ h # into[d]
      BY <2>1, <2>2
    <2> QED
      BY <1>live, <2>1, <2>3, <2>4, <2>5, <2>6, <2>7
  <1>27. ASSUME NEW d \in Futures, Publish(d)
         PROVE  Produced'
    BY <1>27, <1>0, <1>live DEF Publish, MovedFrom, Phases, Reductions
  <1>28. ASSUME NEW d \in Futures, DispatchReturn(d)
         PROVE  Produced'
    BY <1>28, <1>0, <1>live DEF DispatchReturn, Rest, Phases, Reductions
  <1>29. ASSUME NEW d \in Futures, Settled(d)
         PROVE  Produced'
    BY <1>29, <1>0, <1>live DEF Settled, Phases, Reductions
  <1>30. ASSUME NEW d \in Futures, NEW e \in Futures, DispatchCalls(d, e)
         PROVE  Produced'
    BY <1>30, <1>0, <1>live DEF DispatchCalls, Phases, Reductions
  <1>31. ASSUME NEW d \in Futures, NEW e \in Futures, DispatchQueues(d, e)
         PROVE  Produced'
    BY <1>31, <1>0, <1>live DEF DispatchQueues, Phases, Reductions
  <1>32. CASE UNCHANGED vars
    BY <1>32, <1>0, <1>live DEF vars, Phases, Reductions
  <1> HIDE DEF TypeOK, Blank, Produced, Origins, IsFuture, Running, Fresh
  <1>33. ASSUME NEW c \in Clients, NEW d \in Futures, Makes(c, d)
         PROVE  Produced'
    BY <1>33, <1>1, <1>2, <1>3, <1>5 DEF Makes
  <1>34. ASSUME NEW c \in Clients, NEW d \in Futures, Continues(c, d)
         PROVE  Produced'
    BY <1>34, <1>4 DEF Continues
  <1>35. ASSUME NEW c \in Clients, NEW d \in Futures, Gives(c, d)
         PROVE  Produced'
    BY <1>35, <1>6, <1>7, <1>8, <1>9 DEF Gives
  <1>36. ASSUME NEW c \in Clients, Uses(c)
         PROVE  Produced'
    BY <1>36, <1>10, <1>11, <1>12, <1>13, <1>14, <1>15 DEF Uses
  <1>37. ASSUME NEW d \in Futures, Works(d)
         PROVE  Produced'
    BY <1>37, <1>16, <1>17, <1>18, <1>19, <1>20, <1>21, <1>22, <1>23, <1>24, <1>25, <1>26,
       <1>27, <1>28, <1>29, <1>30, <1>31 DEF Works
  <1> QED
    BY <1>0, <1>32, <1>33, <1>34, <1>35, <1>36, <1>37 DEF Flat

-----------------------------------------------------------------------------

LEMMA OwnersInit == Init => LInv
  <1> SUFFICES ASSUME Init
               PROVE  LInv
    OBVIOUS
  <1>1. IInv
    BY InitInv
  <1>2. /\ \A d \in Futures : /\ kind[d] = "none" /\ at[d] = NoFuture /\ src[d] = NoFuture
                              /\ hold[d] = NoFuture /\ task[d] = "none" /\ result[d] = "none"
                              /\ invoke[d] = "idle" /\ settle[d] = "idle" /\ ready[d] = FALSE
        /\ \A c \in Clients : handles[c] = {} /\ op[c] = NoOp
    BY DEF Init
  <1>3. Origins /\ Returning /\ InHand
    BY <1>2 DEF Origins, Returning, InHand, NoOp
  <1>4. OneOwner
    BY <1>2 DEF OneOwner, HeldOnce, HeldWhole, NotGiven, ConsumedOnce, AttachedOnce, Inside,
       NoOp
  <1>5. Listed /\ HasResult /\ MovedUnread /\ TakesAlone
    BY <1>2 DEF Listed, HasResult, MovedUnread, TakesAlone, NoOp
  <1>6. Produced
    BY <1>2, LiveRoots DEF Produced
  <1> QED
    BY <1>1, <1>3, <1>4, <1>5, <1>6 DEF LInv, Results

LEMMA OwnersInv == Spec => []LInv
  <1>1. Init => LInv
    BY OwnersInit
  <1>2. LInv /\ [Next]_vars => LInv'
    BY StepInv, OriginsStep, ReturningStep, InHandStep, OneOwnerStep, ListedStep, HasResultStep,
       MovedUnreadStep, TakesAloneStep, ProducedStep DEF LInv, Results
  <1> QED
    BY <1>1, <1>2, PTL DEF Spec

(***************************************************************************)
(* A future a client is about to attach to, or take from, is alive, though *)
(* the call has moved the client's handle into the function it attaches:   *)
(* that function belongs to the future the call will return, or to a       *)
(* callback that has not run.                                              *)
(***************************************************************************)
THEOREM AttachedLives == Spec => []AttachedAlive
  <1>1. LInv => AttachedAlive
    <2> SUFFICES ASSUME LInv, NEW c \in Clients, op[c].pc \in {"attach", "take"}
                 PROVE  op[c].s \in Live
      BY DEF AttachedAlive
    <2>0. IInv /\ TypeOK /\ InHand /\ op[c].s \in Futures
      BY DEF LInv, IInv, Calls
    <2>1. CASE op[c].s \in handles[c]
      BY <2>0, <2>1, LiveRoots DEF Anchors
    <2>2. CASE op[c].pc = "attach" /\ src[op[c].d] = op[c].s
      <3>1. op[c].d \in Live
        BY <2>0, <2>2, LiveRoots DEF Anchors, IInv, Calls
      <3> QED
        BY <2>0, <2>2, <3>1, Keeps, FutureAssumption DEF FutureAssumption
    <2> QED
      BY <2>0, <2>1, <2>2 DEF InHand
  <1> QED
    BY <1>1, OwnersInv, PTL

(***************************************************************************)
(* The asserts that the continuation slot of a move-only future is free    *)
(* hold: the one continuation its only owner may attach is the one it is   *)
(* attaching.                                                              *)
(***************************************************************************)
THEOREM SlotIsFree == Spec => []SlotFree
  <1>1. LInv => SlotFree
    <2> SUFFICES ASSUME LInv, MoveOnly, NEW c \in Clients, op[c].pc = "attach"
                 PROVE  then[op[c].s] = <<>>
      BY DEF SlotFree
    <2>1. /\ op[c].s \in Futures /\ then[op[c].s] \in Seq(Futures)
          /\ task[op[c].d] = "local"
          /\ \A d \in Range(then[op[c].s]) :
                d \in Futures /\ task[d] = "attached" /\ at[d] = op[c].s
      BY DEF LInv, IInv, TypeOK, Calls, Lists, ListsOf
    <2>2. \A d \in Futures : at[d] = op[c].s => d = op[c].d
      BY DEF LInv, OneOwner, AttachedOnce
    <2>3. Range(then[op[c].s]) = {}
      BY <2>1, <2>2
    <2>4. ASSUME then[op[c].s] # <<>> PROVE FALSE
      <3>1. 1 \in DOMAIN then[op[c].s]
        BY <2>1, <2>4, HeadTailProperties
      <3> QED
        BY <2>3, <3>1 DEF Range
    <2> QED
      BY <2>4
  <1> QED
    BY <1>1, OwnersInv, PTL

(***************************************************************************)
(* A state that no strong reference keeps is never referred to again:      *)
(* threads that find it through a weak pointer in an executor or in a list *)
(* of continuations leave it dead.                                         *)
(***************************************************************************)
THEOREM StaysDead == Spec => NoResurrection
  <1>1. LInv /\ [Next]_vars => [Live' \subseteq Live \cup Fresh]_vars
    BY LiveStep
  <1> QED
    BY <1>1, OwnersInv, PTL DEF Spec, NoResurrection

(***************************************************************************)
(* A function that is about to read the future it owns finds it settled,   *)
(* and its value still there.                                              *)
(***************************************************************************)
THEOREM ArgumentThere == Spec => []ArgumentPresent
  <1>1. LInv => ArgumentPresent
    <2> SUFFICES ASSUME LInv, NEW d \in Futures, invoke[d] = "run", src[d] # NoFuture
                 PROVE  ready[src[d]] /\ Intact(src[d])
      BY DEF ArgumentPresent
    <2>1. src[d] \in Futures /\ ready[src[d]] /\ result[src[d]] \notin {"none", "moved"}
      BY Argument DEF LInv, Results
    <2> QED
      BY <2>1 DEF LInv, IInv, TypeOK, Intact
  <1> QED
    BY <1>1, OwnersInv, PTL

(***************************************************************************)
(* Whoever holds a handle to a ready future can read its result: a value   *)
(* is moved out only by the last of its readers, or by the owner of a      *)
(* move-only future, once.                                                 *)
(***************************************************************************)
THEOREM ResultsReadable == Spec => []HandlesReadable
  <1>1. LInv => HandlesReadable
    <2> SUFFICES ASSUME LInv, NEW c \in Clients, NEW s \in handles[c], ready[s]
                 PROVE  /\ Intact(s) \/ Spent(s)
                        /\ op[c].pc = "take" /\ op[c].s = s => Intact(s)
      BY DEF HandlesReadable, LInv, InHand
    <2>1. s \in Futures
      BY HandleKnown DEF LInv
    <2>2. result[s] # "moved" => Intact(s)
      BY <2>1 DEF LInv, IInv, TypeOK, Results, HasResult, Intact
    <2>3. result[s] = "moved" => MoveOnly /\ ~(op[c].pc = "take" /\ op[c].s = s)
      BY <2>1 DEF LInv, Results, MovedUnread, Unread
    <2> QED
      BY <2>2, <2>3 DEF Spent
  <1> QED
    BY <1>1, OwnersInv, PTL

(***************************************************************************)
(* A living future that is not ready has someone to complete it: a task on *)
(* its way, a frame, a living future that still owes its continuations, or *)
(* the continuation of a reduction.                                        *)
(***************************************************************************)
THEOREM NeverOrphaned == Spec => []NoOrphan
  <1>1. LInv => NoOrphan
    <2> SUFFICES ASSUME LInv, NEW d \in Live, IsFuture(d), ~ready[d]
                 PROVE  Producer(d)
      BY DEF NoOrphan
    <2>0. /\ IInv /\ TypeOK /\ Known /\ Phases /\ Lists /\ Origins /\ Listed /\ Produced
          /\ d \in Futures /\ kind[d] # "none"
      BY LiveRoots DEF LInv, IInv, IsFuture
    <2>1. task[d] \in {"local", "queued", "called", "attached", "spent"}
      BY <2>0 DEF TypeOK, Origins
    <2>2. CASE task[d] \in {"local", "queued", "called"}
      BY <2>2 DEF Producer
    <2>3. CASE task[d] = "attached"
      <3>1. at[d] \in Futures /\ d \in Range(then[at[d]]) \cup Range(todo[at[d]])
        BY <2>0, <2>3 DEF Listed
      <3>2. src[d] = at[d]
        <4>1. invoke[d] = "idle" /\ at[d] # NoFuture
          BY <2>0, <2>3, <3>1, FutureAssumption DEF Phases, FutureAssumption
        <4>2. kind[d] \in {"then", "recover", "hold"}
          BY <2>0, <4>1 DEF Origins, IsFuture, TypeOK, Kinds, Callback
        <4> QED
          BY <2>0, <4>1, <4>2 DEF Known
      <3>3. at[d] \in Live
        BY <2>0, <3>1, <3>2, Keeps, FutureAssumption DEF FutureAssumption
      <3>4. ready[at[d]] => Range(then[at[d]]) = {}
        BY <2>0, <3>1, Empty DEF Lists, ListsOf
      <3> QED
        BY <2>3, <3>1, <3>3, <3>4 DEF Producer
    <2>4. CASE task[d] = "spent" /\ Running(d)
      BY <2>4 DEF Producer, Running
    <2>5. CASE task[d] = "spent" /\ ~Running(d)
      <3>1. hold[d] # NoFuture
        BY <2>0, <2>5 DEF Produced
      <3>2. hold[d] \in Live /\ hold[d] \in Futures
        BY <2>0, <3>1, Keeps, LiveRoots
      <3>3. kind[hold[d]] = "hold" /\ into[hold[d]] = d
        BY <2>0, <3>1 DEF Origins
      <3>4. settle[d] # "done"
        BY <2>0 DEF Phases
      <3>5. settle[hold[d]] = "idle"
        BY <2>0, <3>2, <3>3, <3>4 DEF Produced
      <3>6. ~ready[hold[d]]
        BY <2>0, <3>2, <3>3, <3>5 DEF Phases
      <3> QED
        BY <3>2, <3>3, <3>6 DEF Producer
    <2> QED
      BY <2>1, <2>2, <2>3, <2>4, <2>5
  <1> QED
    BY <1>1, OwnersInv, PTL

-----------------------------------------------------------------------------
(***************************************************************************)
(* The proof that futures keep FutureContract: every step of Future is one *)
(* of the contract, or changes nothing a user can tell.  It needs, beside   *)
(* who keeps a future alive, what a future that is about to be published    *)
(* may hold.                                                               *)
(***************************************************************************)

\* Continuations are attached to futures of users, and only futures run and settle.
Referred ==
    \A d \in Futures :
        /\ at[d] # NoFuture => Visible(at[d])
        /\ invoke[d] # "idle" \/ settle[d] # "idle" \/ hold[d] # NoFuture => IsFuture(d)

\* What a reader finds, or found before it was moved out.
Shown(r) == IF r = "moved" THEN "value" ELSE r

\* The result that d is about to publish: that of the future its function returned, or, for
\* then, the failure of its source, unless its executor destroyed it.
Due(d) ==
    /\ result[d] \in {"value", "error", "broken"}
    /\ hold[d] # NoFuture =>
          ready[at[hold[d]]] /\ result[d] = Shown(result[at[hold[d]]])
    /\ hold[d] = NoFuture /\ kind[d] = "then" /\ result[at[d]] \in {"error", "broken"} =>
          result[d] \in {result[at[d]], "broken"}

DueResults == \A d \in Futures : settle[d] = "publish" => Due(d)

RInv == LInv /\ Referred /\ DueResults

\* The contract's view of a future: what it waits for, and how it depends on that.
Source == [d \in Futures |-> IF hold[d] # NoFuture THEN at[hold[d]]
                             ELSE IF Visible(d) THEN at[d] ELSE NoFuture]

Rule == [d \in Futures |-> IF hold[d] # NoFuture THEN "same"
                           ELSE IF kind[d] = "then" THEN "pass" ELSE "free"]

\* A living future that waits has its source, or that is ready.
SourceKept ==
    \A d \in Live : Visible(d) /\ ~ready[d] /\ Source[d] # NoFuture =>
        Source[d] \in Live \/ ready[Source[d]]

-----------------------------------------------------------------------------
(* The invariant. *)

\* Nothing has happened to a member that is not made.
LEMMA Unmade ==
  ASSUME IInv, Origins, NEW x \in Futures, kind[x] = "none"
  PROVE  /\ invoke[x] = "idle" /\ settle[x] = "idle"
         /\ src[x] = NoFuture /\ at[x] = NoFuture /\ hold[x] = NoFuture
  BY DEF IInv, Blank, Phases, Origins

\* A future that has not run has not been reduced.
LEMMA NotYetReduced ==
  ASSUME IInv, Origins, NEW d \in Futures, invoke[d] \in {"idle", "run"}
  PROVE  hold[d] = NoFuture
  <1> SUFFICES ASSUME hold[d] # NoFuture PROVE FALSE
    OBVIOUS
  <1>1. hold[d] \in Futures /\ kind[hold[d]] = "hold" /\ into[hold[d]] = d
    BY DEF IInv, TypeOK, Origins
  <1>2. invoke[into[hold[d]]] \in {"attach", "call", "keep", "done"}
    BY <1>1 DEF IInv, Reductions
  <1> QED
    BY <1>1, <1>2

\* A member stays what it was made, on the future it was made for.
LEMMA MadeOnce ==
  ASSUME LInv, [Next]_vars, NEW x \in Futures, kind[x] # "none"
  PROVE  /\ kind'[x] = kind[x] /\ at'[x] = at[x]
         /\ hold'[x] = hold[x] \/ (invoke[x] = "run" /\ hold[x] = NoFuture)
  <1> DEFINE Made == /\ kind'[x] = kind[x] /\ at'[x] = at[x]
                     /\ hold'[x] = hold[x] \/ (invoke[x] = "run" /\ hold[x] = NoFuture)
  <1> SUFFICES Made
    OBVIOUS
  <1>0. TypeOK /\ Flat /\ Origins /\ IInv
    BY Flattened DEF LInv, IInv
  <1>1. ASSUME NEW c \in Clients, NEW d \in Futures,
               NEW e \in Executors, AsyncMade(c, d, e)
         PROVE  Made
    BY <1>1, <1>0 DEF AsyncMade, Enters, TypeOK
  <1>2. ASSUME NEW c \in Clients, NEW d \in Futures,
               NEW r \in Outcomes \cup {"broken"}, ReadyMade(c, d, r)
         PROVE  Made
    BY <1>2, <1>0 DEF ReadyMade, TypeOK
  <1>3. ASSUME NEW c \in Clients, NEW s \in Futures, NEW d \in Futures,
               NEW e \in Executors \cup {"immediate"}, Watches(c, s, d, e)
         PROVE  Made
    BY <1>3, <1>0 DEF Watches, Enters, TypeOK
  <1>4. ASSUME NEW c \in Clients, NEW s \in Futures, NEW d \in Futures,
               NEW k \in {"then", "recover", "detach"},
               NEW e \in Executors \cup {"immediate"},
               NEW H \in SUBSET handles[c], Chains(c, s, d, k, e, H)
         PROVE  Made
    BY <1>4, <1>0 DEF Chains, Enters, TypeOK
  <1>5. ASSUME NEW c \in Clients, NEW s \in Futures,
               NEW d \in Futures, Detaches(c, s, d)
         PROVE  Made
    BY <1>5, <1>0 DEF Detaches, TypeOK
  <1>6. ASSUME NEW c \in Clients, NEW s \in Futures,
               NEW d \in Futures, AttachFirst(c, s, d)
         PROVE  Made
    BY <1>6, <1>0 DEF AttachFirst, NoOp, TypeOK
  <1>7. ASSUME NEW c \in Clients, NEW d \in Futures, SubmitCalls(c, d)
         PROVE  Made
    BY <1>7, <1>0 DEF SubmitCalls, TypeOK
  <1>8. ASSUME NEW c \in Clients, NEW d \in Futures, SubmitQueues(c, d)
         PROVE  Made
    BY <1>8, <1>0 DEF SubmitQueues, NoOp, TypeOK
  <1>9. ASSUME NEW c \in Clients, NEW d \in Futures, Returns(c, d)
         PROVE  Made
    BY <1>9, <1>0 DEF Returns, NoOp, TypeOK
  <1>10. ASSUME NEW c \in Clients, AttachLate(c)
         PROVE  Made
    BY <1>10, <1>0 DEF AttachLate, TypeOK
  <1>11. ASSUME NEW c \in Clients, NEW s \in Futures, Release(c, s)
         PROVE  Made
    BY <1>11, <1>0 DEF Release, Idle, TypeOK
  <1>12. ASSUME NEW c \in Clients, NEW s \in Futures,
               NEW u \in BOOLEAN, Takes(c, s, u)
         PROVE  Made
    BY <1>12, <1>0 DEF Takes, Enters, TypeOK
  <1>13. ASSUME NEW c \in Clients, NEW s \in Futures, TakeMoves(c, s)
         PROVE  Made
    BY <1>13, <1>0 DEF TakeMoves, NoOp, TypeOK
  <1>14. ASSUME NEW c \in Clients, NEW H \in SUBSET handles[c], TakeCopies(c, H)
         PROVE  Made
    BY <1>14, <1>0 DEF TakeCopies, NoOp, TypeOK
  <1>15. ASSUME NEW c \in Clients, NEW s \in Futures,
               NEW other \in Clients, Share(c, other, s)
         PROVE  Made
    BY <1>15, <1>0 DEF Share, Idle, TypeOK
  <1>16. ASSUME NEW d \in Futures, Called(d)
         PROVE  Made
    BY <1>16, <1>0 DEF Called, TypeOK
  <1>17. ASSUME NEW d \in Futures, Canceled(d)
         PROVE  Made
    BY <1>17, <1>0 DEF Canceled, TypeOK
  <1>18. ASSUME NEW d \in Futures, Begins(d)
         PROVE  Made
    BY <1>18, <1>0 DEF Begins, TypeOK
  <1>19. ASSUME NEW d \in Futures, Breaks(d)
         PROVE  Made
    BY <1>19, <1>0 DEF Breaks, TypeOK
  <1>20. ASSUME NEW d \in Futures, NEW r, NEW res, Runs(d, r, res)
         PROVE  Made
    BY <1>20, <1>0 DEF Runs, TypeOK
  <1>21. ASSUME NEW d \in Futures, NEW q \in Futures,
               NEW h \in Futures, Reducing(d, q, h)
         PROVE  Made
    BY <1>21, <1>0, NotYetReduced DEF Reducing, TypeOK
  <1>22. ASSUME NEW d \in Futures, NEW h \in Futures, HoldCalled(d, h)
         PROVE  Made
    BY <1>22, <1>0 DEF HoldCalled, TypeOK
  <1>23. ASSUME NEW d \in Futures, NEW h \in Futures,
               NEW q \in Futures, HoldAttached(d, h, q)
         PROVE  Made
    BY <1>23, <1>0 DEF HoldAttached, TypeOK
  <1>24. ASSUME NEW d \in Futures, Finish(d)
         PROVE  Made
    BY <1>24, <1>0 DEF Finish, TypeOK
  <1>25. ASSUME NEW d \in Futures, Ends(d)
         PROVE  Made
    BY <1>25, <1>0 DEF Ends, TypeOK
  <1>26. ASSUME NEW d \in Futures, NEW res, Relays(d, res)
         PROVE  Made
    BY <1>26, <1>0 DEF Relays, TypeOK
  <1>27. ASSUME NEW d \in Futures, Publish(d)
         PROVE  Made
    BY <1>27, <1>0 DEF Publish, MovedFrom, TypeOK
  <1>28. ASSUME NEW d \in Futures, DispatchReturn(d)
         PROVE  Made
    BY <1>28, <1>0 DEF DispatchReturn, Rest, TypeOK
  <1>29. ASSUME NEW d \in Futures, Settled(d)
         PROVE  Made
    BY <1>29, <1>0 DEF Settled, TypeOK
  <1>30. ASSUME NEW d \in Futures, NEW e \in Futures, DispatchCalls(d, e)
         PROVE  Made
    BY <1>30, <1>0 DEF DispatchCalls, TypeOK
  <1>31. ASSUME NEW d \in Futures, NEW e \in Futures, DispatchQueues(d, e)
         PROVE  Made
    BY <1>31, <1>0 DEF DispatchQueues, TypeOK
  <1>32. CASE UNCHANGED vars
    BY <1>32, <1>0 DEF vars, TypeOK
  <1> HIDE DEF Made
  <1>33. ASSUME NEW c \in Clients, NEW d \in Futures, Makes(c, d)
         PROVE  Made
    BY <1>33, <1>1, <1>2, <1>3, <1>5 DEF Makes
  <1>34. ASSUME NEW c \in Clients, NEW d \in Futures, Continues(c, d)
         PROVE  Made
    BY <1>34, <1>4 DEF Continues
  <1>35. ASSUME NEW c \in Clients, NEW d \in Futures, Gives(c, d)
         PROVE  Made
    BY <1>35, <1>6, <1>7, <1>8, <1>9 DEF Gives
  <1>36. ASSUME NEW c \in Clients, Uses(c)
         PROVE  Made
    BY <1>36, <1>10, <1>11, <1>12, <1>13, <1>14, <1>15 DEF Uses
  <1>37. ASSUME NEW d \in Futures, Works(d)
         PROVE  Made
    BY <1>37, <1>16, <1>17, <1>18, <1>19, <1>20, <1>21, <1>22, <1>23, <1>24, <1>25, <1>26,
       <1>27, <1>28, <1>29, <1>30, <1>31 DEF Works
  <1> QED
    BY <1>0, <1>32, <1>33, <1>34, <1>35, <1>36, <1>37 DEF Flat

LEMMA ReferredStep == RInv /\ [Next]_vars => Referred'
  <1> SUFFICES ASSUME RInv, [Next]_vars PROVE Referred'
    OBVIOUS
  <1>0. /\ IInv /\ TypeOK /\ Blank /\ Known /\ Phases /\ Reductions /\ Origins /\ Referred
        /\ Flat
    BY Flattened DEF RInv, LInv, IInv
  <1> USE FutureAssumption DEF FutureAssumption, TypeOK, Referred, Visible, IsFuture, Callback,
          Kinds
  <1>1. ASSUME NEW c \in Clients, NEW d \in Futures,
               NEW e \in Executors, AsyncMade(c, d, e)
         PROVE  Referred'
    BY <1>1, <1>0 DEF AsyncMade, Enters, Origins, Blank, Phases, Known, IsCallback
  <1>2. ASSUME NEW c \in Clients, NEW d \in Futures,
               NEW r \in Outcomes \cup {"broken"}, ReadyMade(c, d, r)
         PROVE  Referred'
    BY <1>2, <1>0 DEF ReadyMade, Origins, Blank, Phases, Known, IsCallback
  <1>3. ASSUME NEW c \in Clients, NEW s \in Futures, NEW d \in Futures,
               NEW e \in Executors \cup {"immediate"}, Watches(c, s, d, e)
         PROVE  Referred'
    BY <1>3, <1>0 DEF Watches, Enters, Origins, Blank, Phases, Known, IsCallback
  <1>4. ASSUME NEW c \in Clients, NEW s \in Futures, NEW d \in Futures,
               NEW k \in {"then", "recover", "detach"},
               NEW e \in Executors \cup {"immediate"},
               NEW H \in SUBSET handles[c], Chains(c, s, d, k, e, H)
         PROVE  Referred'
    BY <1>4, <1>0 DEF Chains, Enters, Origins, Blank, Phases, Known, IsCallback
  <1>5. ASSUME NEW c \in Clients, NEW s \in Futures,
               NEW d \in Futures, Detaches(c, s, d)
         PROVE  Referred'
    BY <1>5, <1>0 DEF Detaches, Origins, Blank, Phases, Known, IsCallback
  <1>6. ASSUME NEW c \in Clients, NEW s \in Futures,
               NEW d \in Futures, AttachFirst(c, s, d)
         PROVE  Referred'
    BY <1>6, <1>0 DEF AttachFirst, NoOp, Origins, Blank, Phases, Known, IsCallback
  <1>7. ASSUME NEW c \in Clients, NEW d \in Futures, SubmitCalls(c, d)
         PROVE  Referred'
    BY <1>7, <1>0 DEF SubmitCalls, Origins, Blank, Phases, Known, IsCallback
  <1>8. ASSUME NEW c \in Clients, NEW d \in Futures, SubmitQueues(c, d)
         PROVE  Referred'
    BY <1>8, <1>0 DEF SubmitQueues, NoOp, Origins, Blank, Phases, Known, IsCallback
  <1>9. ASSUME NEW c \in Clients, NEW d \in Futures, Returns(c, d)
         PROVE  Referred'
    BY <1>9, <1>0 DEF Returns, NoOp, Origins, Blank, Phases, Known, IsCallback
  <1>10. ASSUME NEW c \in Clients, AttachLate(c)
         PROVE  Referred'
    BY <1>10, <1>0 DEF AttachLate, Origins, Blank, Phases, Known, IsCallback
  <1>11. ASSUME NEW c \in Clients, NEW s \in Futures, Release(c, s)
         PROVE  Referred'
    BY <1>11, <1>0 DEF Release, Idle, Origins, Blank, Phases, Known, IsCallback
  <1>12. ASSUME NEW c \in Clients, NEW s \in Futures,
               NEW u \in BOOLEAN, Takes(c, s, u)
         PROVE  Referred'
    BY <1>12, <1>0 DEF Takes, Enters, Origins, Blank, Phases, Known, IsCallback
  <1>13. ASSUME NEW c \in Clients, NEW s \in Futures, TakeMoves(c, s)
         PROVE  Referred'
    BY <1>13, <1>0 DEF TakeMoves, NoOp, Origins, Blank, Phases, Known, IsCallback
  <1>14. ASSUME NEW c \in Clients, NEW H \in SUBSET handles[c], TakeCopies(c, H)
         PROVE  Referred'
    BY <1>14, <1>0 DEF TakeCopies, NoOp, Origins, Blank, Phases, Known, IsCallback
  <1>15. ASSUME NEW c \in Clients, NEW s \in Futures,
               NEW other \in Clients, Share(c, other, s)
         PROVE  Referred'
    BY <1>15, <1>0 DEF Share, Idle, Origins, Blank, Phases, Known, IsCallback
  <1>16. ASSUME NEW d \in Futures, Called(d)
         PROVE  Referred'
    BY <1>16, <1>0 DEF Called, Origins, Blank, Phases, Known, IsCallback
  <1>17. ASSUME NEW d \in Futures, Canceled(d)
         PROVE  Referred'
    BY <1>17, <1>0 DEF Canceled, Origins, Blank, Phases, Known, IsCallback
  <1>18. ASSUME NEW d \in Futures, Begins(d)
         PROVE  Referred'
    BY <1>18, <1>0 DEF Begins, Origins, Blank, Phases, Known, IsCallback
  <1>19. ASSUME NEW d \in Futures, Breaks(d)
         PROVE  Referred'
    BY <1>19, <1>0 DEF Breaks, Origins, Blank, Phases, Known, IsCallback
  <1>20. ASSUME NEW d \in Futures, NEW r, NEW res, Runs(d, r, res)
         PROVE  Referred'
    BY <1>20, <1>0 DEF Runs, Origins, Blank, Phases, Known, IsCallback
  <1>21. ASSUME NEW d \in Futures, NEW q \in Futures,
               NEW h \in Futures, Reducing(d, q, h)
         PROVE  Referred'
    BY <1>21, <1>0, Unmade, Busy, SMTT(60) DEF Reducing, Origins, Blank, Phases, Known, IsCallback
  <1>22. ASSUME NEW d \in Futures, NEW h \in Futures, HoldCalled(d, h)
         PROVE  Referred'
    BY <1>22, <1>0 DEF HoldCalled, Origins, Blank, Phases, Known, IsCallback
  <1>23. ASSUME NEW d \in Futures, NEW h \in Futures,
               NEW q \in Futures, HoldAttached(d, h, q)
         PROVE  Referred'
    BY <1>23, <1>0 DEF HoldAttached, Origins, Blank, Phases, Known, IsCallback
  <1>24. ASSUME NEW d \in Futures, Finish(d)
         PROVE  Referred'
    BY <1>24, <1>0 DEF Finish, Origins, Blank, Phases, Known, IsCallback
  <1>25. ASSUME NEW d \in Futures, Ends(d)
         PROVE  Referred'
    BY <1>25, <1>0 DEF Ends, Origins, Blank, Phases, Known, IsCallback
  <1>26. ASSUME NEW d \in Futures, NEW res, Relays(d, res)
         PROVE  Referred'
    BY <1>26, <1>0, Busy DEF Relays, Origins, Reductions, Phases
  <1>27. ASSUME NEW d \in Futures, Publish(d)
         PROVE  Referred'
    BY <1>27, <1>0 DEF Publish, MovedFrom, Origins, Blank, Phases, Known, IsCallback
  <1>28. ASSUME NEW d \in Futures, DispatchReturn(d)
         PROVE  Referred'
    BY <1>28, <1>0 DEF DispatchReturn, Rest, Origins, Blank, Phases, Known, IsCallback
  <1>29. ASSUME NEW d \in Futures, Settled(d)
         PROVE  Referred'
    BY <1>29, <1>0 DEF Settled, Origins, Blank, Phases, Known, IsCallback
  <1>30. ASSUME NEW d \in Futures, NEW e \in Futures, DispatchCalls(d, e)
         PROVE  Referred'
    BY <1>30, <1>0 DEF DispatchCalls, Origins, Blank, Phases, Known, IsCallback
  <1>31. ASSUME NEW d \in Futures, NEW e \in Futures, DispatchQueues(d, e)
         PROVE  Referred'
    BY <1>31, <1>0 DEF DispatchQueues, Origins, Blank, Phases, Known, IsCallback
  <1>32. CASE UNCHANGED vars
    BY <1>32, <1>0 DEF vars, Origins, Blank, Phases, Known, IsCallback
  <1> HIDE DEF TypeOK, Referred, Visible, IsFuture, Callback, Kinds
  <1>33. ASSUME NEW c \in Clients, NEW d \in Futures, Makes(c, d)
         PROVE  Referred'
    BY <1>33, <1>1, <1>2, <1>3, <1>5 DEF Makes
  <1>34. ASSUME NEW c \in Clients, NEW d \in Futures, Continues(c, d)
         PROVE  Referred'
    BY <1>34, <1>4 DEF Continues
  <1>35. ASSUME NEW c \in Clients, NEW d \in Futures, Gives(c, d)
         PROVE  Referred'
    BY <1>35, <1>6, <1>7, <1>8, <1>9 DEF Gives
  <1>36. ASSUME NEW c \in Clients, Uses(c)
         PROVE  Referred'
    BY <1>36, <1>10, <1>11, <1>12, <1>13, <1>14, <1>15 DEF Uses
  <1>37. ASSUME NEW d \in Futures, Works(d)
         PROVE  Referred'
    BY <1>37, <1>16, <1>17, <1>18, <1>19, <1>20, <1>21, <1>22, <1>23, <1>24, <1>25, <1>26,
       <1>27, <1>28, <1>29, <1>30, <1>31 DEF Works
  <1> QED
    BY <1>0, <1>32, <1>33, <1>34, <1>35, <1>36, <1>37 DEF Flat

\* The result that is about to be published is left alone.
LEMMA DueKept ==
  ASSUME RInv, [Next]_vars, NEW x \in Futures, settle[x] = "publish"
  PROVE  result'[x] = result[x]
  <1>0. IInv /\ Origins /\ TypeOK /\ Phases /\ Flat
    BY Flattened DEF RInv, LInv, IInv
  <1> USE DEF TypeOK, Phases
  <1>1. ASSUME NEW c \in Clients, NEW d \in Futures,
               NEW e \in Executors, AsyncMade(c, d, e)
         PROVE  result'[x] = result[x]
    BY <1>1, <1>0 DEF AsyncMade, Enters
  <1>2. ASSUME NEW c \in Clients, NEW d \in Futures,
               NEW r \in Outcomes \cup {"broken"}, ReadyMade(c, d, r)
         PROVE  result'[x] = result[x]
    BY <1>2, <1>0, Unmade DEF ReadyMade
  <1>3. ASSUME NEW c \in Clients, NEW s \in Futures, NEW d \in Futures,
               NEW e \in Executors \cup {"immediate"}, Watches(c, s, d, e)
         PROVE  result'[x] = result[x]
    BY <1>3, <1>0 DEF Watches, Enters
  <1>4. ASSUME NEW c \in Clients, NEW s \in Futures, NEW d \in Futures,
               NEW k \in {"then", "recover", "detach"},
               NEW e \in Executors \cup {"immediate"},
               NEW H \in SUBSET handles[c], Chains(c, s, d, k, e, H)
         PROVE  result'[x] = result[x]
    BY <1>4, <1>0 DEF Chains, Enters
  <1>5. ASSUME NEW c \in Clients, NEW s \in Futures,
               NEW d \in Futures, Detaches(c, s, d)
         PROVE  result'[x] = result[x]
    BY <1>5, <1>0 DEF Detaches
  <1>6. ASSUME NEW c \in Clients, NEW s \in Futures,
               NEW d \in Futures, AttachFirst(c, s, d)
         PROVE  result'[x] = result[x]
    BY <1>6, <1>0 DEF AttachFirst, NoOp
  <1>7. ASSUME NEW c \in Clients, NEW d \in Futures, SubmitCalls(c, d)
         PROVE  result'[x] = result[x]
    BY <1>7, <1>0 DEF SubmitCalls
  <1>8. ASSUME NEW c \in Clients, NEW d \in Futures, SubmitQueues(c, d)
         PROVE  result'[x] = result[x]
    BY <1>8, <1>0 DEF SubmitQueues, NoOp
  <1>9. ASSUME NEW c \in Clients, NEW d \in Futures, Returns(c, d)
         PROVE  result'[x] = result[x]
    BY <1>9, <1>0 DEF Returns, NoOp
  <1>10. ASSUME NEW c \in Clients, AttachLate(c)
         PROVE  result'[x] = result[x]
    BY <1>10, <1>0 DEF AttachLate
  <1>11. ASSUME NEW c \in Clients, NEW s \in Futures, Release(c, s)
         PROVE  result'[x] = result[x]
    BY <1>11, <1>0 DEF Release, Idle
  <1>12. ASSUME NEW c \in Clients, NEW s \in Futures,
               NEW u \in BOOLEAN, Takes(c, s, u)
         PROVE  result'[x] = result[x]
    BY <1>12, <1>0 DEF Takes, Enters
  <1>13. ASSUME NEW c \in Clients, NEW s \in Futures, TakeMoves(c, s)
         PROVE  result'[x] = result[x]
    <2>1. ready[s] /\ ~ready[x]
      BY <1>13, <1>0 DEF TakeMoves
    <2> QED
      BY <1>13, <1>0, <2>1 DEF TakeMoves
  <1>14. ASSUME NEW c \in Clients, NEW H \in SUBSET handles[c], TakeCopies(c, H)
         PROVE  result'[x] = result[x]
    BY <1>14, <1>0 DEF TakeCopies, NoOp
  <1>15. ASSUME NEW c \in Clients, NEW s \in Futures,
               NEW other \in Clients, Share(c, other, s)
         PROVE  result'[x] = result[x]
    BY <1>15, <1>0 DEF Share, Idle
  <1>16. ASSUME NEW d \in Futures, Called(d)
         PROVE  result'[x] = result[x]
    BY <1>16, <1>0 DEF Called
  <1>17. ASSUME NEW d \in Futures, Canceled(d)
         PROVE  result'[x] = result[x]
    BY <1>17, <1>0 DEF Canceled
  <1>18. ASSUME NEW d \in Futures, Begins(d)
         PROVE  result'[x] = result[x]
    BY <1>18, <1>0 DEF Begins
  <1>19. ASSUME NEW d \in Futures, Breaks(d)
         PROVE  result'[x] = result[x]
    BY <1>19, <1>0 DEF Breaks
  <1>20. ASSUME NEW d \in Futures, NEW r, NEW res, Runs(d, r, res)
         PROVE  result'[x] = result[x]
    <2>1. src[d] # NoFuture => ready[src[d]] /\ src[d] \in Futures
      BY <1>20, <1>0, Argument DEF Runs, RInv, LInv, Results
    <2>2. \A y \in Futures : ready[y] => settle[y] # "publish"
      BY <1>0
    <2>3. src[d] # NoFuture => src[d] # x
      BY <2>1, <2>2
    <2>4. settle[d] = "idle"
      BY <1>20, <1>0 DEF Runs
    <2> QED
      BY <1>20, <1>0, <2>3, <2>4 DEF Runs, Took
  <1>21. ASSUME NEW d \in Futures, NEW q \in Futures,
               NEW h \in Futures, Reducing(d, q, h)
         PROVE  result'[x] = result[x]
    <2>1. src[d] # NoFuture => ready[src[d]] /\ src[d] \in Futures
      BY <1>21, <1>0, Argument DEF Reducing, RInv, LInv, Results
    <2>2. \A y \in Futures : ready[y] => settle[y] # "publish"
      BY <1>0
    <2>3. src[d] # NoFuture => src[d] # x
      BY <2>1, <2>2
    <2>4. settle[d] = "idle"
      BY <1>21, <1>0 DEF Reducing
    <2> QED
      BY <1>21, <1>0, <2>3, <2>4 DEF Reducing, Took
  <1>22. ASSUME NEW d \in Futures, NEW h \in Futures, HoldCalled(d, h)
         PROVE  result'[x] = result[x]
    BY <1>22, <1>0 DEF HoldCalled
  <1>23. ASSUME NEW d \in Futures, NEW h \in Futures,
               NEW q \in Futures, HoldAttached(d, h, q)
         PROVE  result'[x] = result[x]
    BY <1>23, <1>0 DEF HoldAttached
  <1>24. ASSUME NEW d \in Futures, Finish(d)
         PROVE  result'[x] = result[x]
    BY <1>24, <1>0 DEF Finish
  <1>25. ASSUME NEW d \in Futures, Ends(d)
         PROVE  result'[x] = result[x]
    BY <1>25, <1>0 DEF Ends
  <1>26. ASSUME NEW d \in Futures, NEW res, Relays(d, res)
         PROVE  result'[x] = result[x]
    <2>1. src[d] # NoFuture => ready[src[d]] /\ src[d] \in Futures
      BY <1>26, <1>0, Argument DEF Relays, RInv, LInv, Results
    <2>2. \A y \in Futures : ready[y] => settle[y] # "publish"
      BY <1>0
    <2>3. src[d] # NoFuture => src[d] # x
      BY <2>1, <2>2
    <2>4. settle[into[d]] = "idle" /\ into[d] \in Futures
      BY <1>26, <1>0 DEF Relays, IInv, Reductions
    <2> QED
      BY <1>26, <1>0, <2>3, <2>4 DEF Relays, Took
  <1>27. ASSUME NEW d \in Futures, Publish(d)
         PROVE  result'[x] = result[x]
    BY <1>27, <1>0 DEF Publish, MovedFrom
  <1>28. ASSUME NEW d \in Futures, DispatchReturn(d)
         PROVE  result'[x] = result[x]
    BY <1>28, <1>0 DEF DispatchReturn, Rest
  <1>29. ASSUME NEW d \in Futures, Settled(d)
         PROVE  result'[x] = result[x]
    BY <1>29, <1>0 DEF Settled
  <1>30. ASSUME NEW d \in Futures, NEW e \in Futures, DispatchCalls(d, e)
         PROVE  result'[x] = result[x]
    BY <1>30, <1>0 DEF DispatchCalls
  <1>31. ASSUME NEW d \in Futures, NEW e \in Futures, DispatchQueues(d, e)
         PROVE  result'[x] = result[x]
    BY <1>31, <1>0 DEF DispatchQueues
  <1>32. CASE UNCHANGED vars
    BY <1>32, <1>0 DEF vars
  <1> HIDE DEF TypeOK, Phases
  <1>33. ASSUME NEW c \in Clients, NEW d \in Futures, Makes(c, d)
         PROVE  result'[x] = result[x]
    BY <1>33, <1>1, <1>2, <1>3, <1>5 DEF Makes
  <1>34. ASSUME NEW c \in Clients, NEW d \in Futures, Continues(c, d)
         PROVE  result'[x] = result[x]
    BY <1>34, <1>4 DEF Continues
  <1>35. ASSUME NEW c \in Clients, NEW d \in Futures, Gives(c, d)
         PROVE  result'[x] = result[x]
    BY <1>35, <1>6, <1>7, <1>8, <1>9 DEF Gives
  <1>36. ASSUME NEW c \in Clients, Uses(c)
         PROVE  result'[x] = result[x]
    BY <1>36, <1>10, <1>11, <1>12, <1>13, <1>14, <1>15 DEF Uses
  <1>37. ASSUME NEW d \in Futures, Works(d)
         PROVE  result'[x] = result[x]
    BY <1>37, <1>16, <1>17, <1>18, <1>19, <1>20, <1>21, <1>22, <1>23, <1>24, <1>25, <1>26,
       <1>27, <1>28, <1>29, <1>30, <1>31 DEF Works
  <1> QED
    BY <1>0, <1>32, <1>33, <1>34, <1>35, <1>36, <1>37 DEF Flat

\* What a settled future shows its readers stays.
LEMMA ShownStep ==
  ASSUME RInv, [Next]_vars, NEW x \in Futures, ready[x]
  PROVE  ready'[x] /\ Shown(result'[x]) = Shown(result[x])
  <1> SUFFICES result'[x] = "moved" => result[x] \in {"value", "moved"}
    BY FinalStep DEF Final, Shown, RInv, LInv
  <1> SUFFICES ASSUME result'[x] = "moved" PROVE result[x] \in {"value", "moved"}
    OBVIOUS
  <1>0. IInv /\ Origins /\ TypeOK /\ Phases /\ Flat
    BY Flattened DEF RInv, LInv, IInv
  <1> USE DEF TypeOK, Phases
  <1>1. ASSUME NEW c \in Clients, NEW d \in Futures,
               NEW e \in Executors, AsyncMade(c, d, e)
         PROVE  result[x] \in {"value", "moved"}
    BY <1>1, <1>0 DEF AsyncMade, Enters
  <1>2. ASSUME NEW c \in Clients, NEW d \in Futures,
               NEW r \in Outcomes \cup {"broken"}, ReadyMade(c, d, r)
         PROVE  result[x] \in {"value", "moved"}
    BY <1>2, <1>0, Unmade DEF ReadyMade
  <1>3. ASSUME NEW c \in Clients, NEW s \in Futures, NEW d \in Futures,
               NEW e \in Executors \cup {"immediate"}, Watches(c, s, d, e)
         PROVE  result[x] \in {"value", "moved"}
    BY <1>3, <1>0 DEF Watches, Enters
  <1>4. ASSUME NEW c \in Clients, NEW s \in Futures, NEW d \in Futures,
               NEW k \in {"then", "recover", "detach"},
               NEW e \in Executors \cup {"immediate"},
               NEW H \in SUBSET handles[c], Chains(c, s, d, k, e, H)
         PROVE  result[x] \in {"value", "moved"}
    BY <1>4, <1>0 DEF Chains, Enters
  <1>5. ASSUME NEW c \in Clients, NEW s \in Futures,
               NEW d \in Futures, Detaches(c, s, d)
         PROVE  result[x] \in {"value", "moved"}
    BY <1>5, <1>0 DEF Detaches
  <1>6. ASSUME NEW c \in Clients, NEW s \in Futures,
               NEW d \in Futures, AttachFirst(c, s, d)
         PROVE  result[x] \in {"value", "moved"}
    BY <1>6, <1>0 DEF AttachFirst, NoOp
  <1>7. ASSUME NEW c \in Clients, NEW d \in Futures, SubmitCalls(c, d)
         PROVE  result[x] \in {"value", "moved"}
    BY <1>7, <1>0 DEF SubmitCalls
  <1>8. ASSUME NEW c \in Clients, NEW d \in Futures, SubmitQueues(c, d)
         PROVE  result[x] \in {"value", "moved"}
    BY <1>8, <1>0 DEF SubmitQueues, NoOp
  <1>9. ASSUME NEW c \in Clients, NEW d \in Futures, Returns(c, d)
         PROVE  result[x] \in {"value", "moved"}
    BY <1>9, <1>0 DEF Returns, NoOp
  <1>10. ASSUME NEW c \in Clients, AttachLate(c)
         PROVE  result[x] \in {"value", "moved"}
    BY <1>10, <1>0 DEF AttachLate
  <1>11. ASSUME NEW c \in Clients, NEW s \in Futures, Release(c, s)
         PROVE  result[x] \in {"value", "moved"}
    BY <1>11, <1>0 DEF Release, Idle
  <1>12. ASSUME NEW c \in Clients, NEW s \in Futures,
               NEW u \in BOOLEAN, Takes(c, s, u)
         PROVE  result[x] \in {"value", "moved"}
    BY <1>12, <1>0 DEF Takes, Enters
  <1>13. ASSUME NEW c \in Clients, NEW s \in Futures, TakeMoves(c, s)
         PROVE  result[x] \in {"value", "moved"}
    BY <1>13, <1>0 DEF TakeMoves, NoOp
  <1>14. ASSUME NEW c \in Clients, NEW H \in SUBSET handles[c], TakeCopies(c, H)
         PROVE  result[x] \in {"value", "moved"}
    BY <1>14, <1>0 DEF TakeCopies, NoOp
  <1>15. ASSUME NEW c \in Clients, NEW s \in Futures,
               NEW other \in Clients, Share(c, other, s)
         PROVE  result[x] \in {"value", "moved"}
    BY <1>15, <1>0 DEF Share, Idle
  <1>16. ASSUME NEW d \in Futures, Called(d)
         PROVE  result[x] \in {"value", "moved"}
    BY <1>16, <1>0 DEF Called
  <1>17. ASSUME NEW d \in Futures, Canceled(d)
         PROVE  result[x] \in {"value", "moved"}
    BY <1>17, <1>0 DEF Canceled
  <1>18. ASSUME NEW d \in Futures, Begins(d)
         PROVE  result[x] \in {"value", "moved"}
    BY <1>18, <1>0 DEF Begins
  <1>19. ASSUME NEW d \in Futures, Breaks(d)
         PROVE  result[x] \in {"value", "moved"}
    BY <1>19, <1>0 DEF Breaks
  <1>20. ASSUME NEW d \in Futures, NEW r, NEW res, Runs(d, r, res)
         PROVE  result[x] \in {"value", "moved"}
    <2>1. src[d] # NoFuture => result[src[d]] \notin {"none", "moved"} /\ src[d] \in Futures
      BY <1>20, <1>0, Argument DEF Runs, RInv, LInv, Results
    <2>2. src[d] = NoFuture => NoFuture \notin Futures
      BY FutureAssumption DEF FutureAssumption
    <2>3. d # x
      BY <1>20, <1>0 DEF Runs, IInv, Reductions, Phases, Origins, Known
    <2> QED
      BY <1>20, <1>0, <2>1, <2>3 DEF Runs, Took
  <1>21. ASSUME NEW d \in Futures, NEW q \in Futures,
               NEW h \in Futures, Reducing(d, q, h)
         PROVE  result[x] \in {"value", "moved"}
    <2>1. src[d] # NoFuture => result[src[d]] \notin {"none", "moved"} /\ src[d] \in Futures
      BY <1>21, <1>0, Argument DEF Reducing, RInv, LInv, Results
    <2>2. src[d] = NoFuture => NoFuture \notin Futures
      BY FutureAssumption DEF FutureAssumption
    <2>3. d # x
      BY <1>21, <1>0 DEF Reducing, IInv, Reductions, Phases, Origins, Known
    <2> QED
      BY <1>21, <1>0, <2>1, <2>3 DEF Reducing, Took
  <1>22. ASSUME NEW d \in Futures, NEW h \in Futures, HoldCalled(d, h)
         PROVE  result[x] \in {"value", "moved"}
    BY <1>22, <1>0 DEF HoldCalled
  <1>23. ASSUME NEW d \in Futures, NEW h \in Futures,
               NEW q \in Futures, HoldAttached(d, h, q)
         PROVE  result[x] \in {"value", "moved"}
    BY <1>23, <1>0 DEF HoldAttached
  <1>24. ASSUME NEW d \in Futures, Finish(d)
         PROVE  result[x] \in {"value", "moved"}
    BY <1>24, <1>0 DEF Finish
  <1>25. ASSUME NEW d \in Futures, Ends(d)
         PROVE  result[x] \in {"value", "moved"}
    BY <1>25, <1>0 DEF Ends
  <1>26. ASSUME NEW d \in Futures, NEW res, Relays(d, res)
         PROVE  result[x] \in {"value", "moved"}
    <2>1. src[d] # NoFuture => result[src[d]] \notin {"none", "moved"} /\ src[d] \in Futures
      BY <1>26, <1>0, Argument DEF Relays, RInv, LInv, Results
    <2>2. src[d] = NoFuture => NoFuture \notin Futures
      BY FutureAssumption DEF FutureAssumption
    <2>4. into[d] \in Futures /\ kind[into[d]] # "ready" /\ settle[into[d]] = "idle"
      BY <1>26, <1>0 DEF Relays, IInv, Reductions
    <2>5. src[d] # NoFuture
      BY <1>26, <1>0 DEF Relays, IInv, Known
    <2>3. into[d] # x /\ src[d] # NoFuture
      BY <1>0, <2>4, <2>5
    <2> QED
      BY <1>26, <1>0, <2>1, <2>3 DEF Relays, Took
  <1>27. ASSUME NEW d \in Futures, Publish(d)
         PROVE  result[x] \in {"value", "moved"}
    BY <1>27, <1>0 DEF Publish, MovedFrom
  <1>28. ASSUME NEW d \in Futures, DispatchReturn(d)
         PROVE  result[x] \in {"value", "moved"}
    BY <1>28, <1>0 DEF DispatchReturn, Rest
  <1>29. ASSUME NEW d \in Futures, Settled(d)
         PROVE  result[x] \in {"value", "moved"}
    BY <1>29, <1>0 DEF Settled
  <1>30. ASSUME NEW d \in Futures, NEW e \in Futures, DispatchCalls(d, e)
         PROVE  result[x] \in {"value", "moved"}
    BY <1>30, <1>0 DEF DispatchCalls
  <1>31. ASSUME NEW d \in Futures, NEW e \in Futures, DispatchQueues(d, e)
         PROVE  result[x] \in {"value", "moved"}
    BY <1>31, <1>0 DEF DispatchQueues
  <1>32. CASE UNCHANGED vars
    BY <1>32, <1>0 DEF vars
  <1> HIDE DEF TypeOK, Phases
  <1>33. ASSUME NEW c \in Clients, NEW d \in Futures, Makes(c, d)
         PROVE  result[x] \in {"value", "moved"}
    BY <1>33, <1>1, <1>2, <1>3, <1>5 DEF Makes
  <1>34. ASSUME NEW c \in Clients, NEW d \in Futures, Continues(c, d)
         PROVE  result[x] \in {"value", "moved"}
    BY <1>34, <1>4 DEF Continues
  <1>35. ASSUME NEW c \in Clients, NEW d \in Futures, Gives(c, d)
         PROVE  result[x] \in {"value", "moved"}
    BY <1>35, <1>6, <1>7, <1>8, <1>9 DEF Gives
  <1>36. ASSUME NEW c \in Clients, Uses(c)
         PROVE  result[x] \in {"value", "moved"}
    BY <1>36, <1>10, <1>11, <1>12, <1>13, <1>14, <1>15 DEF Uses
  <1>37. ASSUME NEW d \in Futures, Works(d)
         PROVE  result[x] \in {"value", "moved"}
    BY <1>37, <1>16, <1>17, <1>18, <1>19, <1>20, <1>21, <1>22, <1>23, <1>24, <1>25, <1>26,
       <1>27, <1>28, <1>29, <1>30, <1>31 DEF Works
  <1> QED
    BY <1>0, <1>32, <1>33, <1>34, <1>35, <1>36, <1>37 DEF Flat

\* A result about to be published is what it should be when it is stored.
LEMMA NewlyDue ==
  ASSUME RInv, [Next]_vars, NEW x \in Futures, settle[x] # "publish", settle'[x] = "publish"
  PROVE  Due(x)'
  <1>0. IInv /\ Origins /\ TypeOK /\ Phases /\ Flat
    BY Flattened DEF RInv, LInv, IInv
  <1>1. ASSUME NEW c \in Clients, NEW d \in Futures,
               NEW e \in Executors, AsyncMade(c, d, e)
         PROVE  Due(x)'
    BY <1>1, <1>0 DEF AsyncMade, Enters, TypeOK
  <1>2. ASSUME NEW c \in Clients, NEW d \in Futures,
               NEW r \in Outcomes \cup {"broken"}, ReadyMade(c, d, r)
         PROVE  Due(x)'
    BY <1>2, <1>0 DEF ReadyMade, TypeOK
  <1>3. ASSUME NEW c \in Clients, NEW s \in Futures, NEW d \in Futures,
               NEW e \in Executors \cup {"immediate"}, Watches(c, s, d, e)
         PROVE  Due(x)'
    BY <1>3, <1>0 DEF Watches, Enters, TypeOK
  <1>4. ASSUME NEW c \in Clients, NEW s \in Futures, NEW d \in Futures,
               NEW k \in {"then", "recover", "detach"},
               NEW e \in Executors \cup {"immediate"},
               NEW H \in SUBSET handles[c], Chains(c, s, d, k, e, H)
         PROVE  Due(x)'
    BY <1>4, <1>0 DEF Chains, Enters, TypeOK
  <1>5. ASSUME NEW c \in Clients, NEW s \in Futures,
               NEW d \in Futures, Detaches(c, s, d)
         PROVE  Due(x)'
    BY <1>5, <1>0 DEF Detaches, TypeOK
  <1>6. ASSUME NEW c \in Clients, NEW s \in Futures,
               NEW d \in Futures, AttachFirst(c, s, d)
         PROVE  Due(x)'
    BY <1>6, <1>0 DEF AttachFirst, NoOp, TypeOK
  <1>7. ASSUME NEW c \in Clients, NEW d \in Futures, SubmitCalls(c, d)
         PROVE  Due(x)'
    BY <1>7, <1>0 DEF SubmitCalls, TypeOK
  <1>8. ASSUME NEW c \in Clients, NEW d \in Futures, SubmitQueues(c, d)
         PROVE  Due(x)'
    BY <1>8, <1>0 DEF SubmitQueues, NoOp, TypeOK
  <1>9. ASSUME NEW c \in Clients, NEW d \in Futures, Returns(c, d)
         PROVE  Due(x)'
    BY <1>9, <1>0 DEF Returns, NoOp, TypeOK
  <1>10. ASSUME NEW c \in Clients, AttachLate(c)
         PROVE  Due(x)'
    BY <1>10, <1>0 DEF AttachLate, TypeOK
  <1>11. ASSUME NEW c \in Clients, NEW s \in Futures, Release(c, s)
         PROVE  Due(x)'
    BY <1>11, <1>0 DEF Release, Idle, TypeOK
  <1>12. ASSUME NEW c \in Clients, NEW s \in Futures,
               NEW u \in BOOLEAN, Takes(c, s, u)
         PROVE  Due(x)'
    BY <1>12, <1>0 DEF Takes, Enters, TypeOK
  <1>13. ASSUME NEW c \in Clients, NEW s \in Futures, TakeMoves(c, s)
         PROVE  Due(x)'
    BY <1>13, <1>0 DEF TakeMoves, NoOp, TypeOK
  <1>14. ASSUME NEW c \in Clients, NEW H \in SUBSET handles[c], TakeCopies(c, H)
         PROVE  Due(x)'
    BY <1>14, <1>0 DEF TakeCopies, NoOp, TypeOK
  <1>15. ASSUME NEW c \in Clients, NEW s \in Futures,
               NEW other \in Clients, Share(c, other, s)
         PROVE  Due(x)'
    BY <1>15, <1>0 DEF Share, Idle, TypeOK
  <1>16. ASSUME NEW d \in Futures, Called(d)
         PROVE  Due(x)'
    BY <1>16, <1>0 DEF Called, TypeOK
  <1>17. ASSUME NEW d \in Futures, Canceled(d)
         PROVE  Due(x)'
    BY <1>17, <1>0 DEF Canceled, TypeOK
  <1>18. ASSUME NEW d \in Futures, Begins(d)
         PROVE  Due(x)'
    BY <1>18, <1>0 DEF Begins, TypeOK
  <1>19. ASSUME NEW d \in Futures, Breaks(d)
         PROVE  Due(x)'
    <2>1. invoke[d] = "idle" /\ hold[d] = NoFuture
      BY <1>19, <1>0, NotYetReduced DEF Breaks, Phases
    <2>2. x = d /\ result'[d] = "broken" /\ hold'[d] = NoFuture
      BY <1>19, <1>0, <2>1 DEF Breaks, TypeOK
    <2> QED
      BY <2>2 DEF Due
  <1>20. ASSUME NEW d \in Futures, NEW r, NEW res, Runs(d, r, res)
         PROVE  Due(x)'
    <2>1. /\ x = d /\ result'[d] = r /\ kind' = kind /\ hold' = hold /\ at' = at
          /\ settle[d] = "idle" /\ kind[d] # "none" /\ ~ready[d]
      BY <1>20, <1>0, Busy DEF Runs, TypeOK, Phases, Took
    <2>2. hold[d] = NoFuture
      BY <1>20, <1>0, NotYetReduced DEF Runs
    <2>3. src[d] # NoFuture => /\ src[d] = at[d] /\ src[d] \in Futures /\ ready[src[d]]
                               /\ result[src[d]] \in {"value", "error", "broken"}
      BY <1>20, <1>0, Argument, SourceKnown DEF Runs, RInv, LInv, Results, TypeOK
    <2>4. r \in {"value", "error", "broken"}
      BY <1>20, <2>3 DEF Runs
    <2>5. kind[d] = "then" => src[d] # NoFuture
      BY <1>20, <1>0 DEF Runs, IInv, Known
    <2>6. src[d] # NoFuture => \/ result'[src[d]] = result[src[d]]
                               \/ result'[src[d]] = "moved"
      BY <1>20, <1>0, <2>1, <2>3 DEF Runs, Took, TypeOK
    <2>7. kind[d] = "then" /\ result'[at[d]] \in {"error", "broken"} => r = result'[at[d]]
      BY <1>20, <2>3, <2>5, <2>6 DEF Runs
    <2> QED
      BY <2>1, <2>2, <2>4, <2>7 DEF Due
  <1>21. ASSUME NEW d \in Futures, NEW q \in Futures,
               NEW h \in Futures, Reducing(d, q, h)
         PROVE  Due(x)'
    BY <1>21, <1>0 DEF Reducing, TypeOK
  <1>22. ASSUME NEW d \in Futures, NEW h \in Futures, HoldCalled(d, h)
         PROVE  Due(x)'
    BY <1>22, <1>0 DEF HoldCalled, TypeOK
  <1>23. ASSUME NEW d \in Futures, NEW h \in Futures,
               NEW q \in Futures, HoldAttached(d, h, q)
         PROVE  Due(x)'
    BY <1>23, <1>0 DEF HoldAttached, TypeOK
  <1>24. ASSUME NEW d \in Futures, Finish(d)
         PROVE  Due(x)'
    BY <1>24, <1>0 DEF Finish, TypeOK
  <1>25. ASSUME NEW d \in Futures, Ends(d)
         PROVE  Due(x)'
    <2>1. x = d /\ result'[d] = "value" /\ kind'[d] = "hold" /\ hold'[d] = hold[d]
      BY <1>25, <1>0 DEF Ends, TypeOK
    <2>2. hold[d] = NoFuture
      BY <1>25, <1>0 DEF Ends, Origins
    <2> QED
      BY <2>1, <2>2 DEF Due
  <1>26. ASSUME NEW d \in Futures, NEW res, Relays(d, res)
         PROVE  Due(x)'
    <2>1. /\ kind' = kind /\ hold' = hold /\ at' = at /\ ready' = ready
          /\ into[d] \in Futures /\ hold[into[d]] = d /\ x = into[d] /\ ~ready[x]
      BY <1>26, <1>0 DEF Relays, TypeOK, IInv, Reductions, Phases
    <2>2. src[d] # NoFuture
      BY <1>26, <1>0 DEF Relays, IInv, Known
    <2>3. /\ src[d] = at[d] /\ src[d] \in Futures /\ ready[src[d]]
          /\ result[src[d]] \in {"value", "error", "broken"}
      BY <1>26, <1>0, <2>2, Argument, SourceKnown DEF Relays, RInv, LInv, Results, TypeOK
    <2>4. result'[x] = result[src[d]]
      BY <1>26, <1>0, <2>1 DEF Relays, Took, TypeOK
    <2>5. result'[src[d]] = result[src[d]] \/ (result[src[d]] = "value" /\ result'[src[d]] = "moved")
      BY <1>26, <1>0, <2>1, <2>3 DEF Relays, Took, TypeOK
    <2>6. Shown(result'[at[d]]) = result'[x]
      BY <2>3, <2>4, <2>5 DEF Shown
    <2>7. hold[x] = d /\ d # NoFuture
      BY <2>1, FutureAssumption DEF FutureAssumption
    <2> QED
      BY <2>1, <2>3, <2>4, <2>6, <2>7 DEF Due
  <1>27. ASSUME NEW d \in Futures, Publish(d)
         PROVE  Due(x)'
    BY <1>27, <1>0 DEF Publish, MovedFrom, TypeOK
  <1>28. ASSUME NEW d \in Futures, DispatchReturn(d)
         PROVE  Due(x)'
    BY <1>28, <1>0 DEF DispatchReturn, Rest, TypeOK
  <1>29. ASSUME NEW d \in Futures, Settled(d)
         PROVE  Due(x)'
    BY <1>29, <1>0 DEF Settled, TypeOK
  <1>30. ASSUME NEW d \in Futures, NEW e \in Futures, DispatchCalls(d, e)
         PROVE  Due(x)'
    BY <1>30, <1>0 DEF DispatchCalls, TypeOK
  <1>31. ASSUME NEW d \in Futures, NEW e \in Futures, DispatchQueues(d, e)
         PROVE  Due(x)'
    BY <1>31, <1>0 DEF DispatchQueues, TypeOK
  <1>32. CASE UNCHANGED vars
    BY <1>32, <1>0 DEF vars, TypeOK
  <1> HIDE DEF Due
  <1>33. ASSUME NEW c \in Clients, NEW d \in Futures, Makes(c, d)
         PROVE  Due(x)'
    BY <1>33, <1>1, <1>2, <1>3, <1>5 DEF Makes
  <1>34. ASSUME NEW c \in Clients, NEW d \in Futures, Continues(c, d)
         PROVE  Due(x)'
    BY <1>34, <1>4 DEF Continues
  <1>35. ASSUME NEW c \in Clients, NEW d \in Futures, Gives(c, d)
         PROVE  Due(x)'
    BY <1>35, <1>6, <1>7, <1>8, <1>9 DEF Gives
  <1>36. ASSUME NEW c \in Clients, Uses(c)
         PROVE  Due(x)'
    BY <1>36, <1>10, <1>11, <1>12, <1>13, <1>14, <1>15 DEF Uses
  <1>37. ASSUME NEW d \in Futures, Works(d)
         PROVE  Due(x)'
    BY <1>37, <1>16, <1>17, <1>18, <1>19, <1>20, <1>21, <1>22, <1>23, <1>24, <1>25, <1>26,
       <1>27, <1>28, <1>29, <1>30, <1>31 DEF Works
  <1> QED
    BY <1>0, <1>32, <1>33, <1>34, <1>35, <1>36, <1>37 DEF Flat

LEMMA DueStep == RInv /\ [Next]_vars => DueResults'
  <1> SUFFICES ASSUME RInv, [Next]_vars, NEW x \in Futures, settle'[x] = "publish",
                      settle[x] = "publish"
               PROVE  Due(x)'
    BY NewlyDue DEF DueResults
  <1>0. IInv /\ TypeOK /\ Known /\ Phases /\ SourceReady /\ Origins /\ Due(x)
    BY DEF RInv, LInv, IInv, DueResults
  <1>1. kind[x] # "none" /\ task[x] = "spent" /\ invoke[x] # "run"
    BY <1>0, Unmade DEF Phases
  <1>2. /\ kind'[x] = kind[x] /\ at'[x] = at[x] /\ hold'[x] = hold[x]
        /\ result'[x] = result[x]
    BY <1>1, MadeOnce, DueKept DEF RInv
  <1>3. ASSUME hold[x] # NoFuture
        PROVE  ready'[at'[hold[x]]] /\ result[x] = Shown(result'[at'[hold[x]]])
    <2>1. hold[x] \in Futures /\ kind[hold[x]] = "hold"
      BY <1>0, <1>3 DEF TypeOK, Origins
    <2>2. at'[hold[x]] = at[hold[x]] /\ at[hold[x]] \in Futures
      BY <1>0, <2>1, MadeOnce DEF RInv, Origins, Known
    <2>3. ready[at[hold[x]]] /\ result[x] = Shown(result[at[hold[x]]])
      BY <1>0, <1>3 DEF Due
    <2> QED
      BY <2>2, <2>3, ShownStep
  <1>4. ASSUME hold[x] = NoFuture, kind[x] = "then", result'[at[x]] \in {"error", "broken"}
        PROVE  result[x] \in {result'[at[x]], "broken"}
    <2>1. at[x] \in Futures
      BY <1>0, <1>4 DEF Origins, Known
    <2>2. ready[at[x]]
      BY <1>0, <1>1, <2>1, FutureAssumption DEF SourceReady, FutureAssumption
    <2>3. result'[at[x]] = result[at[x]]
      BY <1>4, <2>1, <2>2, FinalStep DEF Final, RInv, LInv
    <2> QED
      BY <1>0, <1>4, <2>3 DEF Due
  <1> QED
    BY <1>0, <1>2, <1>3, <1>4 DEF Due

LEMMA RefinementInit == Init => RInv
  BY OwnersInit DEF Init, RInv, Referred, DueResults

LEMMA RefinementInv == Spec => []RInv
  <1>1. RInv /\ [Next]_vars => LInv'
    BY StepInv, OriginsStep, ReturningStep, InHandStep, OneOwnerStep, ListedStep, HasResultStep,
       MovedUnreadStep, TakesAloneStep, ProducedStep DEF RInv, LInv, Results
  <1>2. RInv /\ [Next]_vars => RInv'
    BY <1>1, ReferredStep, DueStep DEF RInv
  <1> QED
    BY <1>2, RefinementInit, PTL DEF Spec

-----------------------------------------------------------------------------
(***************************************************************************)
(* The contract's actions, in terms of Outcome, Source and Rule.           *)
(***************************************************************************)
Failed  == {"error", "broken"}
Decided == {"value"} \cup Failed

LEMMA Creates ==
  ASSUME NEW d \in Futures, NEW s \in Futures \cup {NoFuture}, NEW o, NEW r \in {"free", "pass"},
         Outcome[d] = "absent",
         s = NoFuture \/ Outcome[s] \in Decided \cup {"pending"},
         o = "pending" \/ (s = NoFuture /\ o \in Decided),
         s = NoFuture => r = "free",
         Outcome' = [Outcome EXCEPT ![d] = o],
         Source' = [Source EXCEPT ![d] = s],
         Rule' = [Rule EXCEPT ![d] = r]
  PROVE  Contract!Next
  <1>1. Contract!Create(d, s, o)
    BY DEF Contract!Create, Contract!Usable, Contract!Settled, Contract!Failures, Source, Rule,
       Failed, Decided
  <1>2. d \in Contract!Absent /\ o \in Contract!Settled \cup {"pending"}
    BY DEF Contract!Absent, Contract!Settled, Contract!Failures, Failed, Decided
  <1> QED
    BY <1>1, <1>2 DEF Contract!Next

LEMMA ReducesTo ==
  ASSUME NEW d \in Futures, NEW q \in Futures,
         Outcome[d] = "pending", Outcome[q] = "absent",
         Outcome' = [Outcome EXCEPT ![q] = "pending"],
         Source' = [Source EXCEPT ![d] = q],
         Rule' = [Rule EXCEPT ![d] = "same"]
  PROVE  Contract!Next
  <1>1. Contract!Reduce(d, q)
    BY DEF Contract!Reduce, Source, Rule
  <1> QED
    BY <1>1 DEF Contract!Next, Contract!Absent, Contract!Waiting

LEMMA Settles ==
  ASSUME NEW d \in Futures, NEW r \in Decided, Outcome[d] = "pending",
         Source[d] # NoFuture => Outcome[Source[d]] \in Decided,
         Source[d] # NoFuture /\ Rule[d] = "same" => r = Outcome[Source[d]],
         Source[d] # NoFuture /\ Rule[d] = "pass" /\ Outcome[Source[d]] \in Failed
            => r \in {Outcome[Source[d]], "broken"},
         Outcome' = [Outcome EXCEPT ![d] = r], Source' = Source, Rule' = Rule
  PROVE  Contract!Next
  <1>1. r \in Contract!Allowed(d)
    BY DEF Contract!Allowed, Contract!Settled, Contract!Failures, Source, Rule, Failed, Decided
  <1>2. Contract!Settle(d)
    BY <1>1 DEF Contract!Settle, Source, Rule
  <1> QED
    BY <1>2 DEF Contract!Next, Contract!Waiting

LEMMA Cancels ==
  ASSUME NEW C \in SUBSET Futures, C # {},
         \A d \in C : Outcome[d] = "pending",
         \A d \in Futures \ C : Outcome[d] = "pending" => Source[d] \notin C,
         Outcome' = [d \in Futures |-> IF d \in C THEN "canceled" ELSE Outcome[d]],
         Source' = Source, Rule' = Rule
  PROVE  Contract!Next
  <1>1. Contract!Cancel(C)
    BY DEF Contract!Cancel, Source, Rule
  <1> QED
    BY <1>1 DEF Contract!Next, Contract!Waiting

LEMMA Unseen ==
  ASSUME Outcome' = Outcome, Source' = Source, Rule' = Rule
  PROVE  UNCHANGED Contract!cvars
  BY DEF Contract!cvars, Source, Rule

-----------------------------------------------------------------------------
(***************************************************************************)
(* What a user sees of a step.                                             *)
(***************************************************************************)
Looks(x) ==
  /\ ~Visible(x) => Outcome[x] = "absent"
  /\ Visible(x) /\ ready[x] => Outcome[x] = Shown(result[x])
  /\ Visible(x) /\ ~ready[x] /\ x \in Live => Outcome[x] = "pending"
  /\ Visible(x) /\ ~ready[x] /\ x \notin Live => Outcome[x] = "canceled"
  /\ Source[x] = IF hold[x] # NoFuture THEN at[hold[x]]
                 ELSE IF Visible(x) THEN at[x] ELSE NoFuture
  /\ Rule[x] = IF hold[x] # NoFuture THEN "same"
               ELSE IF kind[x] = "then" THEN "pass" ELSE "free"

LEMMA Seen == \A x \in Futures : Looks(x)
  <1> SUFFICES ASSUME NEW x \in Futures
               PROVE  Looks(x)
    OBVIOUS
  <1> HIDE DEF Live, Visible
  <1>1. ~Visible(x) => Outcome[x] = "absent"
    BY DEF Outcome
  <1>2. Visible(x) /\ ready[x] => Outcome[x] = Shown(result[x])
    BY DEF Outcome, Shown
  <1>3. Visible(x) /\ ~ready[x] /\ x \in Live => Outcome[x] = "pending"
    BY DEF Outcome
  <1>4. Visible(x) /\ ~ready[x] /\ x \notin Live => Outcome[x] = "canceled"
    BY DEF Outcome
  <1> QED
    BY <1>1, <1>2, <1>3, <1>4 DEF Looks, Source, Rule

LEMMA SeenNext == \A x \in Futures : Looks(x)'
  <1>1. (\A x \in Futures : Looks(x))'
    BY Seen, PTL
  <1> QED
    BY <1>1

\* What a user sees is a function on Futures, now and after a step.
LEMMA Views ==
  /\ Outcome = [x \in Futures |-> Outcome[x]] /\ Outcome' = [x \in Futures |-> Outcome'[x]]
  /\ Source = [x \in Futures |-> Source[x]] /\ Source' = [x \in Futures |-> Source'[x]]
  /\ Rule = [x \in Futures |-> Rule[x]] /\ Rule' = [x \in Futures |-> Rule'[x]]
  BY DEF Outcome, Source, Rule

\* A settled future shows a value or a failure.
LEMMA ShowsResult ==
  ASSUME RInv, NEW x \in Futures, Visible(x), ready[x]
  PROVE  Outcome[x] = Shown(result[x]) /\ Outcome[x] \in Decided
  <1>1. result[x] \in {"value", "error", "broken", "moved"}
    BY DEF RInv, LInv, IInv, TypeOK, Results, HasResult
  <1> QED
    BY <1>1, Seen DEF Shown, Decided, Failed, Looks

\* A future whose function has not finished keeps the future that it owns.
LEMMA SourceOf ==
  ASSUME LInv, NEW x \in Live, at[x] # NoFuture, kind[x] \in {"then", "recover", "hold"}
  PROVE  at[x] \in Futures /\ (at[x] \in Live \/ ready[at[x]])
  <1>0. TypeOK /\ Known /\ Phases /\ SourceReady /\ x \in Futures
    BY LiveRoots DEF LInv, IInv
  <1>1. CASE invoke[x] = "done"
    BY <1>0, <1>1 DEF Known, Phases, SourceReady
  <1>2. CASE invoke[x] # "done"
    BY <1>0, <1>2, Keeps DEF Known
  <1> QED
    BY <1>1, <1>2

LEMMA KeepsSource == RInv => SourceKept
  <1> SUFFICES ASSUME RInv, NEW d \in Live, Visible(d), ~ready[d], Source[d] # NoFuture
               PROVE  Source[d] \in Live \/ ready[Source[d]]
    BY DEF SourceKept
  <1>0. LInv /\ TypeOK /\ Origins /\ d \in Futures
    BY LiveRoots DEF RInv, LInv, IInv
  <1>1. CASE hold[d] # NoFuture
    <2>1. hold[d] \in Live /\ kind[hold[d]] = "hold"
      BY <1>0, <1>1, Keeps DEF Origins
    <2>2. Source[d] = at[hold[d]]
      BY <1>0, <1>1, Seen DEF Looks
    <2> QED
      BY <1>0, <2>1, <2>2, SourceOf
  <1>2. CASE hold[d] = NoFuture
    <2>1. Source[d] = at[d]
      BY <1>0, <1>2, Seen DEF Looks
    <2>2. kind[d] \in {"then", "recover"}
      BY <1>0, <2>1 DEF Origins, TypeOK, Kinds, Callback, Visible, IsFuture
    <2> QED
      BY <1>0, <2>1, <2>2, SourceOf
  <1> QED
    BY <1>1, <1>2

LEMMA KeepsSourceNext == (RInv => SourceKept)'
  BY KeepsSource, PTL

\* A step does not change how a user finds x, though it may release it.
Steady(x) ==
  \/ /\ kind'[x] = kind[x] /\ at'[x] = at[x] /\ hold'[x] = hold[x]
     /\ ready'[x] = ready[x]
  \/ /\ kind[x] \in {"none", "hold"} /\ kind'[x] \in {"none", "hold", "watch", "detach"}
     /\ hold'[x] = hold[x]

LEMMA SteadyView ==
  ASSUME RInv, [Next]_vars, NEW x \in Futures, Steady(x)
  PROVE  /\ Source'[x] = Source[x] /\ Rule'[x] = Rule[x]
         /\ Outcome'[x] = IF Visible(x) /\ ~ready[x] /\ x \in Live /\ x \notin Live'
                          THEN "canceled" ELSE Outcome[x]
  <1>0. TypeOK /\ Origins /\ LInv
    BY DEF RInv, LInv, IInv
  <1>1. CASE kind[x] \in {"none", "hold"} /\ kind'[x] \in {"none", "hold", "watch", "detach"}
             /\ hold'[x] = hold[x]
    <2>1. ~Visible(x) /\ ~Visible(x)' /\ hold[x] = NoFuture /\ kind[x] # "then" /\ kind'[x] # "then"
      BY <1>0, <1>1 DEF Visible, IsFuture, Callback, Origins
    <2> QED
      BY <1>1, <2>1, Seen, SeenNext DEF Looks
  <1>2. CASE kind'[x] = kind[x] /\ at'[x] = at[x] /\ hold'[x] = hold[x] /\ ready'[x] = ready[x]
    <2>1. hold[x] # NoFuture => at'[hold[x]] = at[hold[x]]
      BY <1>0, MadeOnce DEF TypeOK, Origins
    <2>2. Visible(x)' <=> Visible(x)
      BY <1>2 DEF Visible, IsFuture
    <2>3. Source'[x] = Source[x] /\ Rule'[x] = Rule[x]
      BY <1>2, <2>1, <2>2, Seen, SeenNext DEF Looks
    <2>4. ready[x] => Shown(result'[x]) = Shown(result[x])
      BY ShownStep
    <2>5. Visible(x) => (x \in Live' => x \in Live)
      BY <1>0, LiveStep DEF Visible, IsFuture, Fresh
    <2> QED
      BY <1>2, <2>2, <2>3, <2>4, <2>5, Seen, SeenNext DEF Looks
  <1> QED
    BY <1>1, <1>2 DEF Steady

\* A step that changes nothing but who is wanted cancels those that are no longer.
LEMMA Quiet ==
  ASSUME RInv, RInv', [Next]_vars, \A x \in Futures : Steady(x)
  PROVE  [Contract!Next]_(Contract!cvars)
  <1> DEFINE C == {x \in Futures : Visible(x) /\ ~ready[x] /\ x \in Live /\ x \notin Live'}
  <1>1. Source' = Source /\ Rule' = Rule
    BY SteadyView, Views
  <1>2. \A x \in Futures : Outcome'[x] = IF x \in C THEN "canceled" ELSE Outcome[x]
    BY SteadyView
  <1>3. CASE C = {}
    <2>1. Outcome' = Outcome
      BY <1>2, <1>3, Views
    <2> QED
      BY <1>1, <2>1, Unseen
  <1>4. CASE C # {}
    <2>1. Outcome' = [x \in Futures |-> IF x \in C THEN "canceled" ELSE Outcome[x]]
      BY <1>2, Views
    <2>2. \A x \in C : Outcome[x] = "pending"
      BY Seen DEF Looks
    <2>3. ASSUME NEW x \in Futures \ C, Outcome[x] = "pending", Source[x] \in C
          PROVE  FALSE
      <3>1. Visible(x) /\ ~ready[x] /\ x \in Live'
        <4>1. Visible(x) /\ ~ready[x] /\ x \in Live
          <5>1. ~(Visible(x) /\ ready[x])
            BY <2>3, ShowsResult DEF Decided, Failed
          <5> QED
            BY <2>3, <5>1, Seen DEF Looks
        <4> QED
          BY <4>1
      <3>2. Outcome'[x] = "pending"
        BY <1>2, <2>3
      <3>3. Visible(x)' /\ ~ready'[x]
        <4>1. kind[x] \notin {"none", "hold"}
          BY <3>1 DEF Visible, IsFuture
        <4> QED
          BY <3>1, <4>1 DEF Steady, Visible, IsFuture
      <3>4. Source'[x] = Source[x] /\ Source[x] # NoFuture /\ Source[x] \in Futures
        BY <1>1, <2>3, FutureAssumption DEF FutureAssumption
      <3>5. Source[x] \in Live' \/ ready'[Source[x]]
        BY <3>1, <3>3, <3>4, KeepsSourceNext DEF SourceKept
      <3>6. ready'[Source[x]] = ready[Source[x]]
        BY <2>3 DEF Steady, Visible, IsFuture
      <3> QED
        BY <2>3, <3>5, <3>6
    <2> HIDE DEF C
    <2>4. C \in SUBSET Futures
      BY DEF C
    <2>5. Contract!Next
      BY <1>1, <1>4, <2>1, <2>2, <2>3, <2>4, Cancels
    <2> QED
      BY <2>5
  <1> QED
    BY <1>3, <1>4

\* A step that leaves every owner in its place releases nobody.
LEMMA LiveClosed == Live \subseteq Futures /\ \A d \in Live : Owns(d) \cap Futures \subseteq Live
  BY LiveRoots, LiveOwned

LEMMA LiveClosedNext ==
  (Live \subseteq Futures /\ \A d \in Live : Owns(d) \cap Futures \subseteq Live)'
  BY LiveClosed, PTL

LEMMA Spared ==
  ASSUME TypeOK, Anchors \subseteq Live',
         \A x \in Futures : src[x] \in {NoFuture, src'[x]} /\ hold[x] \in {NoFuture, hold'[x]}
  PROVE  Live \subseteq Live'
  <1>1. Live' \in SUBSET Futures
    BY LiveClosedNext
  <1>2. \A x \in Live' : Owns(x) \subseteq Owns(x)' /\ Owns(x) \subseteq Futures
    BY <1>1 DEF Owns, TypeOK
  <1>3. \A x \in Live' : Owns(x) \subseteq Live'
    BY <1>2, LiveClosedNext
  <1> QED
    BY <1>1, <1>3, LiveLeast

\* What a user sees when one future is made or settled and nobody is released.
LEMMA OneChanged ==
  ASSUME RInv, [Next]_vars, Live \subseteq Live', NEW d \in Futures,
         \A x \in Futures : x # d => Steady(x)
  PROVE  /\ Outcome' = [Outcome EXCEPT ![d] = Outcome'[d]]
         /\ Source' = [Source EXCEPT ![d] = Source'[d]]
         /\ Rule' = [Rule EXCEPT ![d] = Rule'[d]]
  <1>1. \A x \in Futures : x # d =>
           Outcome'[x] = Outcome[x] /\ Source'[x] = Source[x] /\ Rule'[x] = Rule[x]
    BY SteadyView
  <1> QED
    BY <1>1, Views

-----------------------------------------------------------------------------
(* The steps that make, reduce or settle a future. *)

LEMMA AsyncCreates ==
  ASSUME RInv, RInv', [Next]_vars, NEW c \in Clients, NEW d \in Futures, NEW e,
         AsyncMade(c, d, e)
  PROVE  Contract!Next
  <1>0. IInv /\ TypeOK /\ Origins /\ Returning /\ TypeOK'
    BY DEF RInv, LInv, IInv
  <1>1. kind[d] = "none" /\ at[d] = NoFuture /\ hold[d] = NoFuture /\ ~ready[d]
    BY <1>0, Unmade DEF AsyncMade, IInv, Phases
  <1>2. /\ kind'[d] = "async" /\ at'[d] = NoFuture /\ hold'[d] = NoFuture /\ ~ready'[d]
        /\ \A x \in Futures : x # d => Steady(x)
    BY <1>0, <1>1 DEF AsyncMade, Steady, TypeOK
  <1>3. Anchors \subseteq Anchors' /\ d \in Anchors'
    <2>1. \A b \in Clients : b # c => op'[b].d = op[b].d
      BY DEF AsyncMade, Enters
    <2>2. op'[c].d = d /\ op[c].d = NoFuture
      BY <1>0 DEF AsyncMade, Enters, Returning
    <2>3. \A x \in Futures : Running(x)' = Running(x) /\ (Pending(x) => Pending(x)')
      BY <1>0, <1>1 DEF AsyncMade, Running, Pending, IsCallback, Callback, TypeOK
    <2>4. handles' = handles
      BY DEF AsyncMade
    <2> QED
      BY <2>1, <2>2, <2>3, <2>4, FutureAssumption DEF Anchors, FutureAssumption
  <1>4. Live \subseteq Live' /\ d \in Live'
    BY <1>0, <1>3, LiveRootsNext, Spared DEF AsyncMade
  <1>5. Outcome[d] = "absent" /\ Outcome'[d] = "pending" /\ Source'[d] = NoFuture /\ Rule'[d] = "free"
    BY <1>1, <1>2, <1>4, Seen, SeenNext DEF Looks, Visible, IsFuture, Callback
  <1> QED
    BY <1>2, <1>4, <1>5, OneChanged, Creates

LEMMA ReadyCreates ==
  ASSUME RInv, RInv', [Next]_vars, NEW c \in Clients, NEW d \in Futures, NEW r,
         ReadyMade(c, d, r)
  PROVE  Contract!Next
  <1>0. IInv /\ TypeOK /\ Origins /\ TypeOK'
    BY DEF RInv, LInv, IInv
  <1>1. kind[d] = "none" /\ at[d] = NoFuture /\ hold[d] = NoFuture
    BY <1>0, Unmade DEF ReadyMade
  <1>2. /\ kind'[d] = "ready" /\ at'[d] = NoFuture /\ hold'[d] = NoFuture /\ ready'[d]
        /\ result'[d] = r /\ r \in {"value", "error", "broken"}
        /\ \A x \in Futures : x # d => Steady(x)
    BY <1>0, <1>1 DEF ReadyMade, Steady, TypeOK
  <1>3. Anchors \subseteq Anchors'
    <2>1. \A x \in Futures : Running(x)' = Running(x) /\ (Pending(x) => Pending(x)')
      BY <1>0, <1>1 DEF ReadyMade, Running, Pending, IsCallback, Callback, TypeOK
    <2>2. op' = op /\ \A b \in Clients : handles[b] \subseteq handles'[b]
      BY <1>0 DEF ReadyMade, TypeOK
    <2> QED
      BY <2>1, <2>2 DEF Anchors
  <1>4. Live \subseteq Live'
    BY <1>0, <1>3, LiveRootsNext, Spared DEF ReadyMade
  <1>5. Outcome[d] = "absent" /\ Outcome'[d] = r /\ Source'[d] = NoFuture /\ Rule'[d] = "free"
    BY <1>1, <1>2, Seen, SeenNext DEF Looks, Shown, Visible, IsFuture, Callback
  <1>6. r \in Decided
    BY <1>2 DEF Decided, Failed
  <1> QED
    BY <1>2, <1>4, <1>5, <1>6, OneChanged, Creates

LEMMA ChainsCreates ==
  ASSUME RInv, RInv', [Next]_vars, NEW c \in Clients, NEW s \in Futures, NEW d \in Futures,
         NEW k \in {"then", "recover"}, NEW e, NEW H \in SUBSET handles[c],
         Chains(c, s, d, k, e, H)
  PROVE  Contract!Next
  <1>0. IInv /\ TypeOK /\ Origins /\ Returning /\ TypeOK'
    BY DEF RInv, LInv, IInv
  <1>1. kind[d] = "none" /\ hold[d] = NoFuture /\ src[d] = NoFuture /\ ~ready[d]
    BY <1>0, Unmade DEF Chains, IInv, Phases
  <1>2. /\ kind'[d] = k /\ at'[d] = s /\ hold'[d] = NoFuture /\ ~ready'[d] /\ src'[d] = s
        /\ \A x \in Futures : x # d => Steady(x)
    BY <1>0, <1>1 DEF Chains, Steady, TypeOK
  <1>3. d \in Anchors' /\ s \in Live'
    <2>1. d \in Anchors'
      BY DEF Anchors, Chains, Enters
    <2>2. s \in Owns(d)'
      BY <1>2, FutureAssumption DEF Owns, FutureAssumption
    <2> QED
      BY <2>1, <2>2, LiveRootsNext, LiveClosedNext
  <1>4. Anchors \subseteq Anchors' \cup {s}
    <2>1. \A b \in Clients : b # c => op'[b].d = op[b].d
      BY DEF Chains, Enters
    <2>2. op[c].d = NoFuture
      BY <1>0 DEF Chains, Returning
    <2>3. \A x \in Futures : Running(x)' = Running(x) /\ (Pending(x) => Pending(x)')
      BY <1>0, <1>1 DEF Chains, Running, Pending, IsCallback, Callback, TypeOK
    <2>4. \A b \in Clients : handles[b] \subseteq handles'[b] \cup {s}
      BY <1>0 DEF Chains, TypeOK
    <2> QED
      BY <2>1, <2>2, <2>3, <2>4, FutureAssumption DEF Anchors, FutureAssumption
  <1>5. Live \subseteq Live' /\ d \in Live'
    <2>1. Anchors \subseteq Live'
      BY <1>3, <1>4, LiveRootsNext
    <2>2. \A x \in Futures : src[x] \in {NoFuture, src'[x]} /\ hold[x] \in {NoFuture, hold'[x]}
      BY <1>0, <1>1 DEF Chains, TypeOK
    <2> QED
      BY <1>0, <1>3, <2>1, <2>2, LiveRootsNext, Spared
  <1>6. /\ Outcome[d] = "absent" /\ Outcome'[d] = "pending" /\ Source'[d] = s
        /\ Rule'[d] \in {"free", "pass"}
    BY <1>1, <1>2, <1>5, Seen, SeenNext DEF Looks, Visible, IsFuture, Callback
  <1>7. Outcome[s] \in Decided \cup {"pending"}
    <2>1. Visible(s) /\ s \in Live
      BY <1>0, LiveRoots DEF Chains, Origins, Anchors
    <2> QED
      BY <2>1, ShowsResult, Seen DEF Looks
  <1>8. s # NoFuture
    BY FutureAssumption DEF FutureAssumption
  <1> QED
    BY <1>2, <1>5, <1>6, <1>7, <1>8, OneChanged, Creates

LEMMA ReducingReduces ==
  ASSUME RInv, RInv', [Next]_vars, NEW d \in Futures, NEW q \in Futures, NEW h \in Futures,
         Reducing(d, q, h)
  PROVE  Contract!Next
  <1>0. IInv /\ TypeOK /\ Origins /\ Referred /\ Phases /\ TypeOK'
    BY DEF RInv, LInv, IInv
  <1>1. /\ invoke[d] = "run" /\ ~ready[d] /\ hold[d] = NoFuture /\ kind[d] \notin {"none", "hold"}
        /\ Visible(d)
    BY <1>0, NotYetReduced, Busy DEF Reducing, Phases, Referred, Visible, IsFuture
  <1>2. /\ kind[q] = "none" /\ at[q] = NoFuture /\ hold[q] = NoFuture /\ ~ready[q]
        /\ kind[h] = "none" /\ hold[h] = NoFuture /\ src[h] = NoFuture /\ q # h /\ d # q /\ d # h
    BY <1>0, <1>1, Unmade DEF Reducing, Phases
  <1>3. /\ kind'[q] = "async" /\ at'[q] = NoFuture /\ hold'[q] = NoFuture /\ ~ready'[q]
        /\ hold'[d] = h /\ at'[h] = q /\ src'[h] = q /\ kind'[d] = kind[d] /\ ~ready'[d]
        /\ kind'[h] = "hold" /\ hold'[h] = NoFuture
    BY <1>0, <1>1, <1>2 DEF Reducing, TypeOK
  <1>4. \A x \in Futures : x # d /\ x # q => Steady(x)
    BY <1>0, <1>1, <1>2, <1>3 DEF Reducing, Steady, TypeOK
  <1>5. Anchors \subseteq Anchors' /\ d \in Anchors'
    <2>1. \A x \in Futures : (Running(x) => Running(x)') /\ (Pending(x) => Pending(x)')
      BY <1>0, <1>1, <1>2 DEF Reducing, Running, Pending, IsCallback, Callback, TypeOK
    <2>2. Running(d)
      BY <1>1 DEF Running
    <2>3. op' = op /\ handles' = handles
      BY DEF Reducing
    <2> QED
      BY <2>1, <2>2, <2>3 DEF Anchors
  <1>6. Live \subseteq Live'
    <2>1. \A x \in Futures : src[x] \in {NoFuture, src'[x]} /\ hold[x] \in {NoFuture, hold'[x]}
      BY <1>0, <1>1, <1>2 DEF Reducing, TypeOK
    <2>2. Anchors \subseteq Live'
      BY <1>5, LiveRootsNext
    <2> QED
      BY <1>0, <2>1, <2>2, Spared
  <1>7. q \in Live'
    <2>1. d \in Live' /\ h \in Owns(d)' /\ q \in Owns(h)'
      BY <1>3, <1>5, LiveRootsNext, FutureAssumption DEF Owns, FutureAssumption
    <2> QED
      BY <2>1, LiveClosedNext
  <1>8. d \in Live
    BY <1>1, LiveRoots DEF Anchors, Running
  <1>9. /\ Outcome[d] = "pending" /\ Outcome[q] = "absent"
        /\ Outcome'[d] = "pending" /\ Outcome'[q] = "pending"
    <2>1. Visible(q)' /\ Visible(d)' /\ ~Visible(q) /\ d \in Live'
      BY <1>1, <1>2, <1>3, <1>6, <1>8 DEF Visible, IsFuture, Callback
    <2> QED
      BY <1>1, <1>3, <1>7, <1>8, <2>1, Seen, SeenNext DEF Looks
  <1>10. /\ Source'[d] = q /\ Rule'[d] = "same"
         /\ Source'[q] = Source[q] /\ Rule'[q] = Rule[q]
    <2>1. hold'[d] # NoFuture
      BY <1>3, FutureAssumption DEF FutureAssumption
    <2> QED
      BY <1>2, <1>3, <2>1, Seen, SeenNext DEF Looks, Visible, IsFuture
  <1>11. \A x \in Futures : x # d /\ x # q =>
            Outcome'[x] = Outcome[x] /\ Source'[x] = Source[x] /\ Rule'[x] = Rule[x]
    BY <1>4, <1>6, SteadyView
  <1>12. /\ Outcome' = [Outcome EXCEPT ![q] = "pending"]
         /\ Source' = [Source EXCEPT ![d] = q]
         /\ Rule' = [Rule EXCEPT ![d] = "same"]
    BY <1>2, <1>9, <1>10, <1>11, Views
  <1> QED
    BY <1>9, <1>12, ReducesTo

LEMMA PublishSettles ==
  ASSUME RInv, RInv', [Next]_vars, NEW d \in Futures, kind[d] # "hold", Publish(d)
  PROVE  Contract!Next
  <1>0. IInv /\ TypeOK /\ Origins /\ Referred /\ Phases /\ SourceReady /\ DueResults /\ TypeOK'
    BY DEF RInv, LInv, IInv
  <1>1. /\ settle[d] = "publish" /\ Visible(d) /\ ~ready[d] /\ Due(d) /\ task[d] = "spent"
        /\ kind[d] # "none"
    BY <1>0, Unmade DEF Publish, Phases, Referred, DueResults, Visible, IsFuture
  <1>2. /\ kind' = kind /\ at' = at /\ hold' = hold /\ ready'[d] /\ result' = result
        /\ \A x \in Futures : x # d => Steady(x)
    BY <1>0 DEF Publish, Steady, TypeOK
  <1>3. Anchors \subseteq Anchors' /\ d \in Live
    <2>1. \A x \in Futures : (Running(x) => Running(x)') /\ (Pending(x) => Pending(x)')
      BY <1>0 DEF Publish, Running, Pending, IsCallback, Callback, TypeOK
    <2>2. op' = op /\ handles' = handles
      BY DEF Publish
    <2> QED
      BY <1>1, <2>1, <2>2, LiveRoots DEF Anchors, Running
  <1>4. Live \subseteq Live'
    BY <1>0, <1>3, LiveRootsNext, Spared DEF Publish
  <1>5. Outcome[d] = "pending"
    BY <1>1, <1>3, Seen DEF Looks
  <1>6. Outcome'[d] = result[d] /\ result[d] \in Decided
    <2>1. Visible(d)' /\ result[d] \in {"value", "error", "broken"}
      BY <1>1, <1>2 DEF Visible, IsFuture, Due
    <2> QED
      BY <1>2, <2>1, SeenNext DEF Looks, Shown, Decided, Failed
  <1>7. Source'[d] = Source[d] /\ Rule'[d] = Rule[d]
    BY <1>2, Seen, SeenNext DEF Looks, Visible, IsFuture
  <1>8. Source' = Source /\ Rule' = Rule /\ Outcome' = [Outcome EXCEPT ![d] = result[d]]
    <2>1. \A x \in Futures : x # d =>
             Outcome'[x] = Outcome[x] /\ Source'[x] = Source[x] /\ Rule'[x] = Rule[x]
      BY <1>2, <1>4, SteadyView
    <2> QED
      BY <1>6, <1>7, <2>1, Views
  <1>9. ASSUME Source[d] # NoFuture
        PROVE  /\ Outcome[Source[d]] = Shown(result[Source[d]])
               /\ Outcome[Source[d]] \in Decided
    <2>1. CASE hold[d] # NoFuture
      <3>1. Source[d] = at[hold[d]] /\ hold[d] \in Futures /\ ready[at[hold[d]]]
        BY <1>0, <1>1, <2>1, Seen DEF Looks, Due, TypeOK
      <3>2. at[hold[d]] \in Futures /\ Visible(at[hold[d]])
        BY <1>0, <1>9, <3>1 DEF Referred, TypeOK
      <3> QED
        BY <3>1, <3>2, ShowsResult
    <2>2. CASE hold[d] = NoFuture
      <3>1. Source[d] = at[d]
        BY <1>1, <2>2, Seen DEF Looks
      <3>2. at[d] \in Futures /\ Visible(at[d]) /\ ready[at[d]]
        BY <1>0, <1>1, <1>9, <3>1 DEF Referred, TypeOK, SourceReady
      <3> QED
        BY <3>1, <3>2, ShowsResult
    <2> QED
      BY <2>1, <2>2
  <1>10. ASSUME Source[d] # NoFuture, Rule[d] = "same"
         PROVE  result[d] = Outcome[Source[d]]
    <2>1. hold[d] # NoFuture
      BY <1>10, Seen DEF Looks
    <2>2. Source[d] = at[hold[d]] /\ result[d] = Shown(result[at[hold[d]]])
      BY <1>1, <2>1, Seen DEF Looks, Due
    <2> QED
      BY <1>9, <1>10, <2>2
  <1>11. ASSUME Source[d] # NoFuture, Rule[d] = "pass", Outcome[Source[d]] \in Failed
         PROVE  result[d] \in {Outcome[Source[d]], "broken"}
    <2>1. hold[d] = NoFuture /\ kind[d] = "then" /\ Source[d] = at[d]
      BY <1>1, <1>11, Seen DEF Looks
    <2>2. result[at[d]] \in {"error", "broken"} /\ Outcome[Source[d]] = result[at[d]]
      BY <1>9, <1>11, <2>1 DEF Shown, Failed
    <2> QED
      BY <1>1, <2>1, <2>2 DEF Due
  <1> QED
    BY <1>5, <1>6, <1>8, <1>9, <1>10, <1>11, Settles

\* Every step of Future is a step of the contract, or changes nothing a user sees.
LEMMA RefinementStep ==
  RInv /\ RInv' /\ [Next]_vars => [Contract!Next]_(Contract!cvars)
  <1> DEFINE Kept == [Contract!Next]_(Contract!cvars)
  <1> SUFFICES ASSUME RInv, RInv', [Next]_vars PROVE Kept
    OBVIOUS
  <1>0. TypeOK /\ Flat
    BY Flattened DEF RInv, LInv, IInv
  <1>1. ASSUME NEW c \in Clients, NEW d \in Futures,
               NEW e \in Executors, AsyncMade(c, d, e)
         PROVE  Kept
    BY <1>1, AsyncCreates
  <1>2. ASSUME NEW c \in Clients, NEW d \in Futures,
               NEW r \in Outcomes \cup {"broken"}, ReadyMade(c, d, r)
         PROVE  Kept
    BY <1>2, ReadyCreates
  <1>3. ASSUME NEW c \in Clients, NEW s \in Futures, NEW d \in Futures,
               NEW e \in Executors \cup {"immediate"}, Watches(c, s, d, e)
         PROVE  Kept
    <2>9. \A x \in Futures : Steady(x)
      BY <1>3, <1>0 DEF Watches, Enters, Steady, TypeOK
    <2> QED
      BY <2>9, Quiet
  <1>4. ASSUME NEW c \in Clients, NEW s \in Futures, NEW d \in Futures,
               NEW k \in {"then", "recover", "detach"},
               NEW e \in Executors \cup {"immediate"},
               NEW H \in SUBSET handles[c], Chains(c, s, d, k, e, H)
         PROVE  Kept
    <2>1. CASE k = "detach"
      <3>1. \A x \in Futures : Steady(x)
        BY <1>4, <2>1, <1>0 DEF Chains, Steady, TypeOK
      <3> QED
        BY <3>1, Quiet
    <2>2. CASE k \in {"then", "recover"}
      BY <1>4, <2>2, ChainsCreates
    <2> QED
      BY <1>4, <2>1, <2>2
  <1>5. ASSUME NEW c \in Clients, NEW s \in Futures,
               NEW d \in Futures, Detaches(c, s, d)
         PROVE  Kept
    <2>9. \A x \in Futures : Steady(x)
      BY <1>5, <1>0 DEF Detaches, Steady, TypeOK
    <2> QED
      BY <2>9, Quiet
  <1>6. ASSUME NEW c \in Clients, NEW s \in Futures,
               NEW d \in Futures, AttachFirst(c, s, d)
         PROVE  Kept
    <2>9. \A x \in Futures : Steady(x)
      BY <1>6, <1>0 DEF AttachFirst, NoOp, Steady, TypeOK
    <2> QED
      BY <2>9, Quiet
  <1>7. ASSUME NEW c \in Clients, NEW d \in Futures, SubmitCalls(c, d)
         PROVE  Kept
    <2>9. \A x \in Futures : Steady(x)
      BY <1>7, <1>0 DEF SubmitCalls, Steady, TypeOK
    <2> QED
      BY <2>9, Quiet
  <1>8. ASSUME NEW c \in Clients, NEW d \in Futures, SubmitQueues(c, d)
         PROVE  Kept
    <2>9. \A x \in Futures : Steady(x)
      BY <1>8, <1>0 DEF SubmitQueues, NoOp, Steady, TypeOK
    <2> QED
      BY <2>9, Quiet
  <1>9. ASSUME NEW c \in Clients, NEW d \in Futures, Returns(c, d)
         PROVE  Kept
    <2>9. \A x \in Futures : Steady(x)
      BY <1>9, <1>0 DEF Returns, NoOp, Steady, TypeOK
    <2> QED
      BY <2>9, Quiet
  <1>10. ASSUME NEW c \in Clients, AttachLate(c)
         PROVE  Kept
    <2>9. \A x \in Futures : Steady(x)
      BY <1>10, <1>0 DEF AttachLate, Steady, TypeOK
    <2> QED
      BY <2>9, Quiet
  <1>11. ASSUME NEW c \in Clients, NEW s \in Futures, Release(c, s)
         PROVE  Kept
    <2>9. \A x \in Futures : Steady(x)
      BY <1>11, <1>0 DEF Release, Idle, Steady, TypeOK
    <2> QED
      BY <2>9, Quiet
  <1>12. ASSUME NEW c \in Clients, NEW s \in Futures,
               NEW u \in BOOLEAN, Takes(c, s, u)
         PROVE  Kept
    <2>9. \A x \in Futures : Steady(x)
      BY <1>12, <1>0 DEF Takes, Enters, Steady, TypeOK
    <2> QED
      BY <2>9, Quiet
  <1>13. ASSUME NEW c \in Clients, NEW s \in Futures, TakeMoves(c, s)
         PROVE  Kept
    <2>9. \A x \in Futures : Steady(x)
      BY <1>13, <1>0 DEF TakeMoves, NoOp, Steady, TypeOK
    <2> QED
      BY <2>9, Quiet
  <1>14. ASSUME NEW c \in Clients, NEW H \in SUBSET handles[c], TakeCopies(c, H)
         PROVE  Kept
    <2>9. \A x \in Futures : Steady(x)
      BY <1>14, <1>0 DEF TakeCopies, NoOp, Steady, TypeOK
    <2> QED
      BY <2>9, Quiet
  <1>15. ASSUME NEW c \in Clients, NEW s \in Futures,
               NEW other \in Clients, Share(c, other, s)
         PROVE  Kept
    <2>9. \A x \in Futures : Steady(x)
      BY <1>15, <1>0 DEF Share, Idle, Steady, TypeOK
    <2> QED
      BY <2>9, Quiet
  <1>16. ASSUME NEW d \in Futures, Called(d)
         PROVE  Kept
    <2>9. \A x \in Futures : Steady(x)
      BY <1>16, <1>0 DEF Called, Steady, TypeOK
    <2> QED
      BY <2>9, Quiet
  <1>17. ASSUME NEW d \in Futures, Canceled(d)
         PROVE  Kept
    <2>9. \A x \in Futures : Steady(x)
      BY <1>17, <1>0 DEF Canceled, Steady, TypeOK
    <2> QED
      BY <2>9, Quiet
  <1>18. ASSUME NEW d \in Futures, Begins(d)
         PROVE  Kept
    <2>9. \A x \in Futures : Steady(x)
      BY <1>18, <1>0 DEF Begins, Steady, TypeOK
    <2> QED
      BY <2>9, Quiet
  <1>19. ASSUME NEW d \in Futures, Breaks(d)
         PROVE  Kept
    <2>9. \A x \in Futures : Steady(x)
      BY <1>19, <1>0 DEF Breaks, Steady, TypeOK
    <2> QED
      BY <2>9, Quiet
  <1>20. ASSUME NEW d \in Futures, NEW r, NEW res, Runs(d, r, res)
         PROVE  Kept
    <2>9. \A x \in Futures : Steady(x)
      BY <1>20, <1>0 DEF Runs, Steady, TypeOK
    <2> QED
      BY <2>9, Quiet
  <1>21. ASSUME NEW d \in Futures, NEW q \in Futures,
               NEW h \in Futures, Reducing(d, q, h)
         PROVE  Kept
    BY <1>21, ReducingReduces
  <1>22. ASSUME NEW d \in Futures, NEW h \in Futures, HoldCalled(d, h)
         PROVE  Kept
    <2>9. \A x \in Futures : Steady(x)
      BY <1>22, <1>0 DEF HoldCalled, Steady, TypeOK
    <2> QED
      BY <2>9, Quiet
  <1>23. ASSUME NEW d \in Futures, NEW h \in Futures,
               NEW q \in Futures, HoldAttached(d, h, q)
         PROVE  Kept
    <2>9. \A x \in Futures : Steady(x)
      BY <1>23, <1>0 DEF HoldAttached, Steady, TypeOK
    <2> QED
      BY <2>9, Quiet
  <1>24. ASSUME NEW d \in Futures, Finish(d)
         PROVE  Kept
    <2>9. \A x \in Futures : Steady(x)
      BY <1>24, <1>0 DEF Finish, Steady, TypeOK
    <2> QED
      BY <2>9, Quiet
  <1>25. ASSUME NEW d \in Futures, Ends(d)
         PROVE  Kept
    <2>9. \A x \in Futures : Steady(x)
      BY <1>25, <1>0 DEF Ends, Steady, TypeOK
    <2> QED
      BY <2>9, Quiet
  <1>26. ASSUME NEW d \in Futures, NEW res, Relays(d, res)
         PROVE  Kept
    <2>9. \A x \in Futures : Steady(x)
      BY <1>26, <1>0 DEF Relays, Steady, TypeOK
    <2> QED
      BY <2>9, Quiet
  <1>27. ASSUME NEW d \in Futures, Publish(d)
         PROVE  Kept
    <2>1. CASE kind[d] = "hold"
      <3>1. \A x \in Futures : Steady(x)
        BY <1>27, <2>1, <1>0 DEF Publish, Steady, TypeOK
      <3> QED
        BY <3>1, Quiet
    <2>2. CASE kind[d] # "hold"
      BY <1>27, <2>2, PublishSettles
    <2> QED
      BY <2>1, <2>2
  <1>28. ASSUME NEW d \in Futures, DispatchReturn(d)
         PROVE  Kept
    <2>9. \A x \in Futures : Steady(x)
      BY <1>28, <1>0 DEF DispatchReturn, Rest, Steady, TypeOK
    <2> QED
      BY <2>9, Quiet
  <1>29. ASSUME NEW d \in Futures, Settled(d)
         PROVE  Kept
    <2>9. \A x \in Futures : Steady(x)
      BY <1>29, <1>0 DEF Settled, Steady, TypeOK
    <2> QED
      BY <2>9, Quiet
  <1>30. ASSUME NEW d \in Futures, NEW e \in Futures, DispatchCalls(d, e)
         PROVE  Kept
    <2>9. \A x \in Futures : Steady(x)
      BY <1>30, <1>0 DEF DispatchCalls, Steady, TypeOK
    <2> QED
      BY <2>9, Quiet
  <1>31. ASSUME NEW d \in Futures, NEW e \in Futures, DispatchQueues(d, e)
         PROVE  Kept
    <2>9. \A x \in Futures : Steady(x)
      BY <1>31, <1>0 DEF DispatchQueues, Steady, TypeOK
    <2> QED
      BY <2>9, Quiet
  <1>32. CASE UNCHANGED vars
    <2>9. \A x \in Futures : Steady(x)
      BY <1>32, <1>0 DEF vars, Steady, TypeOK
    <2> QED
      BY <2>9, Quiet
  <1> HIDE DEF Kept
  <1>33. ASSUME NEW c \in Clients, NEW d \in Futures, Makes(c, d)
         PROVE  Kept
    BY <1>33, <1>1, <1>2, <1>3, <1>5 DEF Makes
  <1>34. ASSUME NEW c \in Clients, NEW d \in Futures, Continues(c, d)
         PROVE  Kept
    BY <1>34, <1>4 DEF Continues
  <1>35. ASSUME NEW c \in Clients, NEW d \in Futures, Gives(c, d)
         PROVE  Kept
    BY <1>35, <1>6, <1>7, <1>8, <1>9 DEF Gives
  <1>36. ASSUME NEW c \in Clients, Uses(c)
         PROVE  Kept
    BY <1>36, <1>10, <1>11, <1>12, <1>13, <1>14, <1>15 DEF Uses
  <1>37. ASSUME NEW d \in Futures, Works(d)
         PROVE  Kept
    BY <1>37, <1>16, <1>17, <1>18, <1>19, <1>20, <1>21, <1>22, <1>23, <1>24, <1>25, <1>26,
       <1>27, <1>28, <1>29, <1>30, <1>31 DEF Works
  <1> QED
    BY <1>0, <1>32, <1>33, <1>34, <1>35, <1>36, <1>37 DEF Flat

LEMMA ContractInit == Init => Contract!Init
  <1> SUFFICES ASSUME Init PROVE Contract!Init
    OBVIOUS
  <1>1. \A x \in Futures : kind[x] = "none" /\ hold[x] = NoFuture
    BY DEF Init
  <1>2. \A x \in Futures : Outcome[x] = "absent" /\ Source[x] = NoFuture /\ Rule[x] = "free"
    BY <1>1, Seen DEF Looks, Visible, IsFuture
  <1>3. /\ Outcome = [x \in Futures |-> "absent"]
        /\ Source = [x \in Futures |-> NoFuture]
        /\ Rule = [x \in Futures |-> "free"]
    BY <1>2, Views
  <1> QED
    BY <1>3 DEF Contract!Init, Source, Rule

(***************************************************************************)
(* Futures keep FutureContract: whatever threads do and in whatever order, *)
(* a future settles once, after its source, with a result its source       *)
(* allows; one that is canceled is wanted by nobody; and nothing that is    *)
(* wanted loses the source it waits for.                                   *)
(***************************************************************************)
THEOREM KeepsContract == Spec => RefinesContract
  <1>1. Init => Contract!Init
    BY ContractInit
  <1>2. RInv /\ RInv' /\ [Next]_vars => [Contract!Next]_(Contract!cvars)
    BY RefinementStep
  <1> QED
    BY <1>1, <1>2, RefinementInv, PTL DEF Spec, RefinesContract, Contract!Spec

=============================================================================
