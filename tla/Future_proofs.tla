---------------------------- MODULE Future_proofs ----------------------------
(***************************************************************************)
(* Proofs about Future for any number of futures and clients, move-only or *)
(* copyable, with any executors.  The inductive invariant follows a task   *)
(* from the call that makes it through the one list it may be in and the   *)
(* one executor it is given to, to the one time its state is settled.      *)
(***************************************************************************)
EXTENDS Future, TLAPS, SequenceTheorems

Created(d) == kind[d] # "none"

\* Nothing refers to, and nothing has happened to, a member before it is created.
Blank ==
    \A d \in Futures : kind[d] = "none" =>
        /\ task[d] = "none"
        /\ at[d] = NoFuture /\ src[d] = NoFuture
        /\ then[d] = <<>>

\* What is referred to has been created.
Known ==
    /\ \A c \in Clients : \A s \in handles[c] : Created(s)
    /\ \A d \in Futures : at[d] # NoFuture => at[d] \in Futures /\ Created(at[d])
    /\ \A d \in Futures : src[d] \in {at[d], NoFuture}
    /\ \A d \in Futures : kind[d] \in {"then", "recover", "hold"} /\ invoke[d] # "done"
                             => src[d] # NoFuture

\* A task runs once, and its state is settled once.
Phases ==
    \A d \in Futures :
        /\ task[d] # "spent" => invoke[d] = "idle" /\ settle[d] = "idle"
        /\ invoke[d] \in {"run", "relay", "attach"} => settle[d] = "idle"
        /\ ready[d] <=> kind[d] = "ready" \/ settle[d] \in {"dispatch", "call", "done"}
        /\ kind[d] = "ready" => task[d] = "spent" /\ invoke[d] = "idle" /\ settle[d] = "idle"

\* The continuation inside a reduction completes the outer future, and nobody else does.
Reductions ==
    /\ \A h \in Futures : kind[h] = "hold" =>
          /\ into[h] \in Futures
          /\ kind[into[h]] # "ready"
          /\ hold[into[h]] = h
          /\ invoke[into[h]] \in {"attach", "call", "keep", "done"}
          /\ invoke[h] \in {"idle", "run"} => settle[into[h]] = "idle"
    /\ \A d \in Futures : invoke[d] = "attach" =>
          /\ hold[d] \in Futures
          /\ kind[hold[d]] = "hold"
          /\ into[hold[d]] = d
          /\ task[hold[d]] = "local"
          /\ at[hold[d]] # NoFuture

OneEach(q) == \A i, j \in DOMAIN q : q[i] = q[j] => i = j

\* A continuation is in one list, once, until it is submitted.
ListsOf(x) ==
    /\ Range(then[x]) \subseteq {d \in Futures : task[d] = "attached" /\ at[d] = x}
    /\ OneEach(then[x])
    /\ Range(todo[x]) \subseteq
          {d \in Futures : /\ at[d] = x
                           /\ \/ task[d] = "attached"
                              \/ /\ settle[x] = "call" /\ d = Head(todo[x])
                                 /\ task[d] \in {"called", "spent"}}
    /\ OneEach(todo[x])
    /\ todo[x] # <<>> => settle[x] \in {"dispatch", "call"}
    /\ settle[x] = "call" => todo[x] # <<>>
    /\ ready[x] => then[x] = <<>>

Lists == \A x \in Futures : ListsOf(x)

\* A call that has made a continuation and not yet attached or submitted it is the only one.
Calls ==
    /\ \A c \in Clients : op[c].pc \in {"attach", "submit"} =>
          /\ op[c].d \in Futures
          /\ task[op[c].d] = "local"
          /\ kind[op[c].d] \notin {"none", "hold"}
    /\ \A c \in Clients : op[c].pc = "call" => op[c].d \in Futures /\ Created(op[c].d)
    /\ \A c \in Clients : op[c].pc = "attach" => op[c].s \in Futures /\ at[op[c].d] = op[c].s
    /\ \A c \in Clients : op[c].pc = "take" => op[c].s \in Futures
    /\ \A b, c \in Clients : op[b].pc \in {"attach", "submit"} /\ op[c].pc \in {"attach", "submit"}
                                /\ op[b].d = op[c].d => b = c

\* A continuation is submitted only when its source is ready.
SourceReady ==
    /\ \A d \in Futures : task[d] \in {"queued", "called", "spent"} /\ at[d] # NoFuture => ready[at[d]]
    /\ \A c \in Clients : op[c].pc = "submit" /\ at[op[c].d] # NoFuture => ready[at[op[c].d]]

IInv ==
    /\ TypeOK /\ Blank /\ Known /\ Phases
    /\ Reductions /\ Lists /\ Calls /\ SourceReady

-----------------------------------------------------------------------------

\* A call that moves on to its next step is still a call.
LEMMA Goes == ASSUME NEW f \in [Clients -> [pc : OpPc, s : Futures \cup {NoFuture},
                                          d : Futures \cup {NoFuture}, unique : BOOLEAN]],
                     NEW c \in Clients, NEW p \in OpPc
              PROVE  [f EXCEPT ![c] = [f[c] EXCEPT !.pc = p]]
                        \in [Clients -> [pc : OpPc, s : Futures \cup {NoFuture},
                                        d : Futures \cup {NoFuture}, unique : BOOLEAN]]
  BY DEF OpPc

\* Attaching d, to a list or in the single slot of the move-only state, adds it once.
Extended(q, d) == IF MoveOnly THEN << d >> ELSE Append(q, d)

\* It is a list still, with each continuation once.
LEMMA Extending ==
  ASSUME NEW q \in Seq(Futures), NEW d \in Futures, d \notin Range(q), OneEach(q)
  PROVE  /\ Extended(q, d) \in Seq(Futures)
         /\ Range(Extended(q, d)) \subseteq Range(q) \cup {d}
         /\ OneEach(Extended(q, d))
  <1>1. CASE MoveOnly
    <2>1. DOMAIN << d >> = {1} /\ << d >>[1] = d /\ << d >> \in Seq(Futures)
      OBVIOUS
    <2> QED
      BY <1>1, <2>1 DEF Extended, Range, OneEach
  <1>2. CASE ~MoveOnly
    <2>1. /\ DOMAIN Append(q, d) = 1 .. Len(q) + 1
          /\ DOMAIN q = 1 .. Len(q) /\ Len(q) \in Nat
          /\ Append(q, d) \in Seq(Futures)
      BY AppendProperties
    <2>2. /\ \A i \in 1 .. Len(q) : Append(q, d)[i] = q[i]
          /\ Append(q, d)[Len(q) + 1] = d
      BY AppendProperties
    <2>3. \A i \in 1 .. Len(q) + 1 : i \in 1 .. Len(q) \/ i = Len(q) + 1
      BY <2>1
    <2> QED
      BY <1>2, <2>1, <2>2, <2>3 DEF Extended, Range, OneEach
  <1> QED
    BY <1>1, <1>2

\* Taking the first continuation off leaves the others, and not that one.
LEMMA Shortening ==
  ASSUME NEW q \in Seq(Futures), q # <<>>, OneEach(q)
  PROVE  /\ Head(q) \in Futures /\ Head(q) \in Range(q)
         /\ Tail(q) \in Seq(Futures)
         /\ Range(Tail(q)) \subseteq Range(q) \ {Head(q)}
         /\ OneEach(Tail(q))
  <1>1. /\ DOMAIN Tail(q) = 1 .. Len(q) - 1 /\ DOMAIN q = 1 .. Len(q)
        /\ Len(q) \in Nat \ {0}
        /\ Head(q) = q[1] /\ Head(q) \in Futures
        /\ Tail(q) \in Seq(Futures)
    BY HeadTailProperties
  <1>2. \A i \in 1 .. Len(q) - 1 : Tail(q)[i] = q[i + 1] /\ i + 1 \in 1 .. Len(q) /\ i + 1 # 1
    BY <1>1, HeadTailProperties
  <1>3. 1 \in 1 .. Len(q)
    BY <1>1
  <1>4. Range(Tail(q)) \subseteq Range(q) \ {Head(q)}
    BY <1>1, <1>2, <1>3 DEF Range, OneEach
  <1>5. OneEach(Tail(q))
    <2> SUFFICES ASSUME NEW i \in 1 .. Len(q) - 1, NEW j \in 1 .. Len(q) - 1,
                        Tail(q)[i] = Tail(q)[j]
                 PROVE  i = j
      BY <1>1 DEF OneEach
    <2>1. i + 1 = j + 1
      BY <1>1, <1>2 DEF OneEach
    <2> QED
      BY <1>1, <2>1
  <1> QED
    BY <1>1, <1>3, <1>4, <1>5 DEF Range

\* The empty list.
LEMMA Empty == Range(<<>>) = {} /\ OneEach(<<>>) /\ <<>> \in Seq(Futures)
  BY DEF Range, OneEach

\* A task that has not been attached is in no list.
LEMMA Unlisted ==
  ASSUME TypeOK, Lists, NEW d \in Futures, task[d] \in {"none", "local"}
  PROVE  \A x \in Futures : d \notin Range(then[x]) /\ d \notin Range(todo[x])
  BY DEF Lists, ListsOf

\* What happens to a task in neither list of x, with the lists of x unchanged.
LEMMA OtherList ==
  ASSUME NEW x, NEW e, ListsOf(x), e \notin Range(then[x]), e \notin Range(todo[x]),
         then'[x] = then[x], todo'[x] = todo[x], settle'[x] = settle[x], ready'[x] = ready[x],
         \A y \in Futures \ {e} : task'[y] = task[y] /\ at'[y] = at[y]
  PROVE  ListsOf(x)'
  BY DEF ListsOf

LEMMA OtherLists ==
  ASSUME NEW x, NEW d, NEW e, ListsOf(x), d \notin Range(then[x]), d \notin Range(todo[x]),
         e \notin Range(then[x]), e \notin Range(todo[x]),
         then'[x] = then[x], todo'[x] = todo[x], settle'[x] = settle[x], ready'[x] = ready[x],
         \A y \in Futures \ {d, e} : task'[y] = task[y] /\ at'[y] = at[y]
  PROVE  ListsOf(x)'
  BY DEF ListsOf

\* d is added to _then of s.
LEMMA ListExtended ==
  ASSUME NEW s \in Futures, NEW d \in Futures, then[s] \in Seq(Futures), ListsOf(s), ~ready[s],
         d \notin Range(then[s]), d \notin Range(todo[s]),
         then'[s] = Extended(then[s], d), task'[d] = "attached", at'[d] = s,
         \A y \in Futures \ {d} : task'[y] = task[y] /\ at'[y] = at[y],
         todo'[s] = todo[s], settle'[s] = settle[s], ready'[s] = ready[s]
  PROVE  ListsOf(s)'
  <1>1. /\ Range(Extended(then[s], d)) \subseteq Range(then[s]) \cup {d}
        /\ OneEach(Extended(then[s], d))
    BY Extending DEF ListsOf
  <1>2. Range(then'[s]) \subseteq {y \in Futures : task'[y] = "attached" /\ at'[y] = s}
    BY <1>1 DEF ListsOf
  <1> QED
    BY <1>1, <1>2 DEF ListsOf

\* A task that has not started is not being completed by a reduction.
LEMMA NotReduced ==
  ASSUME Reductions, NEW d \in Futures, invoke[d] = "idle"
  PROVE  \A h \in Futures : kind[h] = "hold" => into[h] # d
  <1> SUFFICES ASSUME NEW h \in Futures, kind[h] = "hold" PROVE into[h] # d
    OBVIOUS
  <1>1. invoke[into[h]] \in {"attach", "call", "keep", "done"}
    BY DEF Reductions
  <1> QED
    BY <1>1

\* Only its creation touches a member that is not created.
LEMMA BlankStep == IInv /\ [Next]_vars => Blank'
  <1> SUFFICES ASSUME IInv, [Next]_vars PROVE Blank'
    OBVIOUS
  <1> USE DEF IInv, TypeOK, Blank, Known, Kinds, Callback, Created, Fresh
  <1>1. ASSUME NEW c \in Clients, NEW d \in Fresh, NEW e \in Executors,
                  Async(c, d, e)
           PROVE  Blank'
    BY <1>1 DEF Async
  <1>2. ASSUME NEW c \in Clients, NEW d \in Fresh, NEW r \in Outcomes \cup {"broken"},
                  MakeReady(c, d, r)
           PROVE  Blank'
    BY <1>2 DEF MakeReady
  <1>3. ASSUME NEW c \in Clients, NEW s \in handles[c], NEW d \in Fresh,
                  NEW k \in {"then", "recover", "watch", "detach"},
                  NEW e \in Executors \cup {"immediate"}, NEW consume \in BOOLEAN,
                  Package(c, s, d, k, e, consume)
           PROVE  Blank'
    BY <1>3 DEF Package, Captured, Remaining
  <1>4. ASSUME NEW c \in Clients, NEW s \in handles[c], NEW d \in Fresh,
                  Detach(c, s, d)
           PROVE  Blank'
    BY <1>4 DEF Detach, AlreadyReady
  <1>5. ASSUME NEW c \in Clients, NEW s \in handles[c], Release(c, s) PROVE Blank'
    BY <1>5 DEF Release
  <1>6. ASSUME NEW c \in Clients, NEW s \in handles[c], NEW other \in Clients,
                  Share(c, other, s)
           PROVE  Blank'
    BY <1>6 DEF Share
  <1>7. ASSUME NEW c \in Clients, NEW s \in handles[c], Take(c, s) PROVE Blank'
    BY <1>7 DEF Take, MayMove
  <1>8. ASSUME NEW c \in Clients, Attach(c) PROVE Blank'
    <2>1. op[c].s \in Futures /\ op[c].d \in Futures /\ kind[op[c].d] # "none" /\ kind[op[c].s] # "none"
      BY <1>8, FutureAssumption DEF Attach, Calls, Known, Created, FutureAssumption
    <2>2. CASE AlreadyReady(op[c].s)
      <3>1. op' = [op EXCEPT ![c] = [op[c] EXCEPT !.pc = "submit"]]
        BY <1>8, <2>2 DEF Attach
      <3>2. UNCHANGED << task, then, handles >>
        BY <1>8, <2>2 DEF Attach
      <3> QED
        BY <1>8, <2>1, <2>2, <3>1, <3>2 DEF Attach
    <2>3. CASE ~AlreadyReady(op[c].s)
      <3>1. then' = [then EXCEPT ![op[c].s] = IF MoveOnly THEN << op[c].d >> ELSE Append(@, op[c].d)]
        BY <1>8, <2>3 DEF Attach
      <3>2. task' = [task EXCEPT ![op[c].d] = "attached"]
        BY <1>8, <2>3 DEF Attach
      <3>3. handles' = [handles EXCEPT ![c] = IF IsFuture(op[c].d) THEN @ \cup {op[c].d} ELSE @]
        BY <1>8, <2>3 DEF Attach
      <3>4. op' = [op EXCEPT ![c] = NoOp]
        BY <1>8, <2>3 DEF Attach
      <3> QED
        BY <1>8, <2>1, <2>3, <3>1, <3>2, <3>3, <3>4 DEF Attach
    <2>4. QED
      BY <2>2, <2>3
  <1>9. ASSUME NEW c \in Clients, Submit(c) PROVE Blank'
    BY <1>9 DEF Submit, Submitted, Give, IsFuture, Calls
  <1>10. ASSUME NEW c \in Clients, Return(c) PROVE Blank'
    BY <1>10 DEF Return, Give, IsFuture
  <1>11. ASSUME NEW c \in Clients, TakeLocked(c) PROVE Blank'
    BY <1>11 DEF TakeLocked, HandlesLeft
  <1>12. ASSUME NEW d \in Futures, Begin(d) PROVE Blank'
    BY <1>12 DEF Begin
  <1>13. ASSUME NEW d \in Futures, Drop(d) PROVE Blank'
    BY <1>13 DEF Drop, Droppable
  <1>14. ASSUME NEW d \in Futures, Run(d) PROVE Blank'
    BY <1>14 DEF Run
  <1>15. ASSUME NEW d \in Futures, NEW q \in Fresh, NEW h \in Fresh \ {q},
                  RunReducing(d, q, h)
           PROVE  Blank'
    BY <1>15 DEF RunReducing
  <1>16. ASSUME NEW d \in Futures, AttachHold(d) PROVE Blank'
    BY <1>16 DEF AttachHold, AlreadyReady, Reductions
  <1>17. ASSUME NEW d \in Futures, Finish(d) PROVE Blank'
    BY <1>17 DEF Finish
  <1>18. ASSUME NEW d \in Futures, RunHold(d) PROVE Blank'
    BY <1>18 DEF RunHold
  <1>19. ASSUME NEW d \in Futures, Relay(d) PROVE Blank'
    BY <1>19 DEF Relay
  <1>20. ASSUME NEW d \in Futures, Publish(d) PROVE Blank'
    BY <1>20 DEF Publish, MovedFrom
  <1>21. ASSUME NEW d \in Futures, Dispatch(d) PROVE Blank'
    <2>1. todo[d] \in Seq(Futures) /\ todo[d] # <<>> /\ OneEach(todo[d])
      BY <1>21 DEF Dispatch, Lists, ListsOf
    <2>2. Head(todo[d]) \in Futures /\ Head(todo[d]) \in Range(todo[d])
      BY <1>21, <2>1, Shortening
    <2>3. task[Head(todo[d])] = "attached" /\ at[Head(todo[d])] = d
      BY <1>21, <2>1, <2>2 DEF Dispatch, Lists, ListsOf
    <2>4. kind[Head(todo[d])] # "none"
      BY <2>2, <2>3
    <2>5. CASE exec[Head(todo[d])] = "immediate"
      <3>1. task' = [task EXCEPT ![Head(todo[d])] = "called"]
        BY <1>21, <2>5 DEF Dispatch, Submitted, Rest
      <3>2. settle' = [settle EXCEPT ![d] = "call"] /\ UNCHANGED todo
        BY <1>21, <2>5 DEF Dispatch, Submitted, Rest
      <3> QED
        BY <1>21, <2>1, <2>2, <2>3, <2>4, <2>5, <3>1, <3>2 DEF Dispatch
    <2>6. CASE exec[Head(todo[d])] # "immediate"
      <3>1. task' = [task EXCEPT ![Head(todo[d])] = "queued"]
        BY <1>21, <2>6 DEF Dispatch, Submitted, Rest
      <3>2. todo' = [todo EXCEPT ![d] = Tail(todo[d])] /\ UNCHANGED settle
        BY <1>21, <2>6 DEF Dispatch, Submitted, Rest
      <3> QED
        BY <1>21, <2>1, <2>2, <2>3, <2>4, <2>6, <3>1, <3>2 DEF Dispatch
    <2>7. QED
      BY <2>5, <2>6
  <1>22. ASSUME NEW d \in Futures, DispatchReturn(d) PROVE Blank'
    BY <1>22 DEF DispatchReturn, Rest
  <1>23. ASSUME NEW d \in Futures, Settled(d) PROVE Blank'
    BY <1>23 DEF Settled
  <1>24. CASE UNCHANGED vars
    BY <1>24 DEF vars
  <1>25. QED
    <2> HIDE DEF IInv, TypeOK, Blank, Known, Kinds, Callback, Created, Fresh
    <2> QED
      BY <1>1, <1>2, <1>3, <1>4, <1>5, <1>6, <1>7, <1>8, <1>9, <1>10, <1>11, <1>12,
         <1>13, <1>14, <1>15, <1>16, <1>17, <1>18, <1>19, <1>20, <1>21, <1>22, <1>23, <1>24
      DEF Next, Call, Continue, Frame

\* Each action keeps the types.
LEMMA TypeStep == IInv /\ [Next]_vars => TypeOK'
  <1> SUFFICES ASSUME IInv, [Next]_vars PROVE TypeOK'
    OBVIOUS
  <1> USE DEF IInv, TypeOK, Kinds, Callback, OpPc, NoOp, Fresh
  <1>1. ASSUME NEW c \in Clients, NEW d \in Fresh, NEW e \in Executors,
                  Async(c, d, e)
           PROVE  TypeOK'
    BY <1>1, FutureAssumption DEF Async, FutureAssumption
  <1>2. ASSUME NEW c \in Clients, NEW d \in Fresh, NEW r \in Outcomes \cup {"broken"},
                  MakeReady(c, d, r)
           PROVE  TypeOK'
    BY <1>2, FutureAssumption DEF MakeReady, FutureAssumption
  <1>3. ASSUME NEW c \in Clients, NEW s \in handles[c], NEW d \in Fresh,
                  NEW k \in {"then", "recover", "watch", "detach"},
                  NEW e \in Executors \cup {"immediate"}, NEW consume \in BOOLEAN,
                  Package(c, s, d, k, e, consume)
           PROVE  TypeOK'
    BY <1>3, FutureAssumption DEF Package, Captured, Remaining, FutureAssumption
  <1>4. ASSUME NEW c \in Clients, NEW s \in handles[c], NEW d \in Fresh,
                  Detach(c, s, d)
           PROVE  TypeOK'
    BY <1>4, AppendProperties, FutureAssumption DEF Detach, AlreadyReady, FutureAssumption
  <1>5. ASSUME NEW c \in Clients, NEW s \in handles[c], Release(c, s) PROVE TypeOK'
    BY <1>5 DEF Release
  <1>6. ASSUME NEW c \in Clients, NEW s \in handles[c], NEW other \in Clients,
                  Share(c, other, s)
           PROVE  TypeOK'
    BY <1>6 DEF Share
  <1>7. ASSUME NEW c \in Clients, NEW s \in handles[c], Take(c, s) PROVE TypeOK'
    BY <1>7 DEF Take, MayMove
  <1>8. ASSUME NEW c \in Clients, Attach(c) PROVE TypeOK'
    <2>1. op[c].s \in Futures /\ op[c].d \in Futures
      BY <1>8 DEF Attach, Calls
    <2>2. CASE AlreadyReady(op[c].s)
      <3>1. op' = [op EXCEPT ![c] = [op[c] EXCEPT !.pc = "submit"]]
        BY <1>8, <2>2 DEF Attach
      <3>2. UNCHANGED << task, then, handles >>
        BY <1>8, <2>2 DEF Attach
      <3>3. op' \in [Clients -> [pc : OpPc, s : Futures \cup {NoFuture}, d : Futures \cup {NoFuture}, unique : BOOLEAN]]
        BY <1>8, <2>2, <3>1, Goes
      <3> QED
        BY <1>8, <2>1, <2>2, <3>1, <3>2, <3>3, AppendProperties, FutureAssumption DEF Attach, FutureAssumption
    <2>3. CASE ~AlreadyReady(op[c].s)
      <3>1. then' = [then EXCEPT ![op[c].s] = IF MoveOnly THEN << op[c].d >> ELSE Append(@, op[c].d)]
        BY <1>8, <2>3 DEF Attach
      <3>2. task' = [task EXCEPT ![op[c].d] = "attached"]
        BY <1>8, <2>3 DEF Attach
      <3>3. handles' = [handles EXCEPT ![c] = IF IsFuture(op[c].d) THEN @ \cup {op[c].d} ELSE @]
        BY <1>8, <2>3 DEF Attach
      <3>4. op' = [op EXCEPT ![c] = NoOp]
        BY <1>8, <2>3 DEF Attach
      <3> QED
        BY <1>8, <2>1, <2>3, <3>1, <3>2, <3>3, <3>4, AppendProperties, FutureAssumption DEF Attach, FutureAssumption
    <2>4. QED
      BY <2>2, <2>3
  <1>9. ASSUME NEW c \in Clients, Submit(c) PROVE TypeOK'
    <2>1. op[c].d \in Futures
      BY <1>9 DEF Submit, Calls
    <2>2. CASE exec[op[c].d] = "immediate"
      <3>1. task' = [task EXCEPT ![op[c].d] = "called"]
        BY <1>9, <2>2 DEF Submit, Submitted, Give
      <3>2. op' = [op EXCEPT ![c] = [op[c] EXCEPT !.pc = "call"]] /\ UNCHANGED handles
        BY <1>9, <2>2 DEF Submit, Submitted, Give
      <3>3. op' \in [Clients -> [pc : OpPc, s : Futures \cup {NoFuture}, d : Futures \cup {NoFuture}, unique : BOOLEAN]]
        BY <1>9, <2>2, <3>2, Goes
      <3> QED
        BY <1>9, <2>1, <2>2, <3>1, <3>2, <3>3, FutureAssumption DEF Submit, FutureAssumption
    <2>3. CASE exec[op[c].d] # "immediate"
      <3>1. task' = [task EXCEPT ![op[c].d] = "queued"]
        BY <1>9, <2>3 DEF Submit, Submitted, Give
      <3>2. handles' = [handles EXCEPT ![c] = IF IsFuture(op[c].d) THEN @ \cup {op[c].d} ELSE @]
        BY <1>9, <2>3 DEF Submit, Submitted, Give
      <3>3. op' = [op EXCEPT ![c] = NoOp]
        BY <1>9, <2>3 DEF Submit, Submitted, Give
      <3> QED
        BY <1>9, <2>1, <2>3, <3>1, <3>2, <3>3, FutureAssumption DEF Submit, FutureAssumption
    <2>4. QED
      BY <2>2, <2>3
  <1>10. ASSUME NEW c \in Clients, Return(c) PROVE TypeOK'
    BY <1>10, FutureAssumption DEF Return, Give, IsFuture, Calls, FutureAssumption
  <1>11. ASSUME NEW c \in Clients, TakeLocked(c) PROVE TypeOK'
    <2>1. op[c].s \in Futures
      BY <1>11 DEF TakeLocked, HandlesLeft, Calls
    <2>2. CASE ready[op[c].s]
      <3>1. result' = Extract(op[c].s, op[c].unique)
        BY <1>11, <2>2 DEF TakeLocked, HandlesLeft
      <3>2. handles' = [handles EXCEPT ![c] = IF MoveOnly THEN @ ELSE @ \ {op[c].s}]
        BY <1>11, <2>2 DEF TakeLocked, HandlesLeft
      <3> QED
        BY <1>11, <2>1, <2>2, <3>1, <3>2, FutureAssumption DEF TakeLocked, HandlesLeft, Extract, FutureAssumption
    <2>3. CASE ~ready[op[c].s]
      <3>1. UNCHANGED << result, handles >>
        BY <1>11, <2>3 DEF TakeLocked, HandlesLeft
      <3> QED
        BY <1>11, <2>1, <2>3, <3>1, FutureAssumption DEF TakeLocked, HandlesLeft, Extract, FutureAssumption
    <2>4. QED
      BY <2>2, <2>3
  <1>12. ASSUME NEW d \in Futures, Begin(d) PROVE TypeOK'
    BY <1>12 DEF Begin
  <1>13. ASSUME NEW d \in Futures, Drop(d) PROVE TypeOK'
    <2>1. d \in Futures
      BY <1>13
    <2>2. CASE IsCallback(d)
      BY <1>13, <2>1, <2>2 DEF Drop
    <2>3. CASE ~IsCallback(d)
      BY <1>13, <2>1, <2>3, ZenonT(60) DEF Drop
    <2>4. QED
      BY <2>2, <2>3
  <1>14. ASSUME NEW d \in Futures, Run(d) PROVE TypeOK'
    <2>1. MayReturn(d) \subseteq {"none", "value", "error", "broken", "moved"}
      BY <1>14, FutureAssumption DEF Run, MayReturn, FunctionCalled, FutureAssumption, Known
    <2>2. Arguments(d) \subseteq [Futures -> {"none", "value", "error", "broken", "moved"}]
      BY <1>14 DEF Arguments, Extract
    <2>3. QED
      BY <1>14, <2>1, <2>2 DEF Run
  <1>15. ASSUME NEW d \in Futures, NEW q \in Fresh, NEW h \in Fresh \ {q},
                  RunReducing(d, q, h)
           PROVE  TypeOK'
    <2>1. Arguments(d) \subseteq [Futures -> {"none", "value", "error", "broken", "moved"}]
      BY <1>15 DEF Arguments, Extract
    <2>2. QED
      BY <1>15, <2>1 DEF RunReducing
  <1>16. ASSUME NEW d \in Futures, AttachHold(d) PROVE TypeOK'
    <2>1. hold[d] \in Futures /\ at[hold[d]] \in Futures
      BY <1>16 DEF AttachHold, Reductions, Known
    <2>2. CASE AlreadyReady(at[hold[d]])
      <3>1. task' = [task EXCEPT ![hold[d]] = "called"]
        BY <1>16, <2>2 DEF AttachHold
      <3>2. invoke' = [invoke EXCEPT ![d] = "call"]
        BY <1>16, <2>2 DEF AttachHold
      <3>3. UNCHANGED << then, src >>
        BY <1>16, <2>2 DEF AttachHold
      <3> QED
        BY <1>16, <2>1, <2>2, <3>1, <3>2, <3>3, AppendProperties DEF AttachHold
    <2>3. CASE ~AlreadyReady(at[hold[d]])
      <3>1. then' = [then EXCEPT ![at[hold[d]]] = IF MoveOnly THEN << hold[d] >> ELSE Append(@, hold[d])]
        BY <1>16, <2>3 DEF AttachHold
      <3>2. task' = [task EXCEPT ![hold[d]] = "attached"]
        BY <1>16, <2>3 DEF AttachHold
      <3>3. invoke' = [invoke EXCEPT ![d] = "keep"]
        BY <1>16, <2>3 DEF AttachHold
      <3>4. UNCHANGED src
        BY <1>16, <2>3 DEF AttachHold
      <3> QED
        BY <1>16, <2>1, <2>3, <3>1, <3>2, <3>3, <3>4, AppendProperties DEF AttachHold
    <2>4. QED
      BY <2>2, <2>3
  <1>17. ASSUME NEW d \in Futures, Finish(d) PROVE TypeOK'
    BY <1>17 DEF Finish
  <1>18. ASSUME NEW d \in Futures, RunHold(d) PROVE TypeOK'
    <2>1. into[d] \in Futures /\ src[d] \in Futures
      BY <1>18 DEF RunHold, Reductions, Known
    <2>2. Arguments(d) \subseteq [Futures -> {"none", "value", "error", "broken", "moved"}]
      BY <1>18 DEF Arguments, Extract
    <2>3. CASE Wanted(into[d])
      <3>1. \E res \in Arguments(d) : result' = [res EXCEPT ![into[d]] = result[src[d]]]
        BY <1>18, <2>3 DEF RunHold
      <3>2. settle' = [settle EXCEPT ![into[d]] = "publish"]
        BY <1>18, <2>3 DEF RunHold
      <3>3. invoke' = [invoke EXCEPT ![d] = "relay"]
        BY <1>18, <2>3 DEF RunHold
      <3> QED
        BY <1>18, <2>1, <2>2, <2>3, <3>1, <3>2, <3>3 DEF RunHold
    <2>4. CASE ~Wanted(into[d])
      <3>1. result' = [result EXCEPT ![d] = "value"]
        BY <1>18, <2>4 DEF RunHold
      <3>2. settle' = [settle EXCEPT ![d] = "publish"]
        BY <1>18, <2>4 DEF RunHold
      <3>3. invoke' = [invoke EXCEPT ![d] = "wait"]
        BY <1>18, <2>4 DEF RunHold
      <3> QED
        BY <1>18, <2>1, <2>2, <2>4, <3>1, <3>2, <3>3 DEF RunHold
    <2>5. QED
      BY <2>3, <2>4
  <1>19. ASSUME NEW d \in Futures, Relay(d) PROVE TypeOK'
    BY <1>19 DEF Relay
  <1>20. ASSUME NEW d \in Futures, Publish(d) PROVE TypeOK'
    BY <1>20, EmptySeq DEF Publish, MovedFrom
  <1>21. ASSUME NEW d \in Futures, Dispatch(d) PROVE TypeOK'
    <2>1. todo[d] # <<>> => Head(todo[d]) \in Futures /\ Tail(todo[d]) \in Seq(Futures)
      BY <1>21, HeadTailProperties
    <2>2. CASE exec[Head(todo[d])] = "immediate"
      BY <1>21, <2>1, <2>2 DEF Dispatch, Submitted, Rest
    <2>3. CASE exec[Head(todo[d])] # "immediate"
      BY <1>21, <2>1, <2>3, ZenonT(60) DEF Dispatch, Submitted, Rest
    <2>4. QED
      BY <2>2, <2>3
  <1>22. ASSUME NEW d \in Futures, DispatchReturn(d) PROVE TypeOK'
    BY <1>22, HeadTailProperties DEF DispatchReturn, Rest, Lists, ListsOf
  <1>23. ASSUME NEW d \in Futures, Settled(d) PROVE TypeOK'
    BY <1>23 DEF Settled
  <1>24. CASE UNCHANGED vars
    BY <1>24 DEF vars
  <1>25. QED
    <2> HIDE DEF IInv, TypeOK, Kinds, Callback, OpPc, NoOp, Fresh
    <2> QED
      BY <1>1, <1>2, <1>3, <1>4, <1>5, <1>6, <1>7, <1>8, <1>9, <1>10, <1>11, <1>12,
         <1>13, <1>14, <1>15, <1>16, <1>17, <1>18, <1>19, <1>20, <1>21, <1>22, <1>23, <1>24
      DEF Next, Call, Continue, Frame

\* References are made to created members only, and src is given up with the frame.
LEMMA KnownStep == IInv /\ [Next]_vars => Known'
  <1> SUFFICES ASSUME IInv, [Next]_vars PROVE Known'
    OBVIOUS
  <1> USE DEF IInv, TypeOK, Known, Blank, Created, Kinds, Callback, Fresh
  <1>1. ASSUME NEW c \in Clients, NEW d \in Fresh, NEW e \in Executors,
                  Async(c, d, e)
           PROVE  Known'
    BY <1>1 DEF Async
  <1>2. ASSUME NEW c \in Clients, NEW d \in Fresh, NEW r \in Outcomes \cup {"broken"},
                  MakeReady(c, d, r)
           PROVE  Known'
    BY <1>2 DEF MakeReady
  <1>3. ASSUME NEW c \in Clients, NEW s \in handles[c], NEW d \in Fresh,
                  NEW k \in {"then", "recover", "watch", "detach"},
                  NEW e \in Executors \cup {"immediate"}, NEW consume \in BOOLEAN,
                  Package(c, s, d, k, e, consume)
           PROVE  Known'
    BY <1>3, FutureAssumption DEF Package, Captured, Remaining, FutureAssumption, Phases
  <1>4. ASSUME NEW c \in Clients, NEW s \in handles[c], NEW d \in Fresh,
                  Detach(c, s, d)
           PROVE  Known'
    BY <1>4, FutureAssumption DEF Detach, AlreadyReady, FutureAssumption
  <1>5. ASSUME NEW c \in Clients, NEW s \in handles[c], Release(c, s) PROVE Known'
    BY <1>5 DEF Release
  <1>6. ASSUME NEW c \in Clients, NEW s \in handles[c], NEW other \in Clients,
                  Share(c, other, s)
           PROVE  Known'
    BY <1>6 DEF Share
  <1>7. ASSUME NEW c \in Clients, NEW s \in handles[c], Take(c, s) PROVE Known'
    BY <1>7 DEF Take, MayMove
  <1>8. ASSUME NEW c \in Clients, Attach(c) PROVE Known'
    <2>1. op[c].s \in Futures /\ op[c].d \in Futures /\ kind[op[c].d] # "none" /\ kind[op[c].s] # "none"
      BY <1>8, FutureAssumption DEF Attach, Calls, Known, Created, FutureAssumption
    <2>2. CASE AlreadyReady(op[c].s)
      <3>1. op' = [op EXCEPT ![c] = [op[c] EXCEPT !.pc = "submit"]]
        BY <1>8, <2>2 DEF Attach
      <3>2. UNCHANGED << task, then, handles >>
        BY <1>8, <2>2 DEF Attach
      <3> QED
        BY <1>8, <2>1, <2>2, <3>1, <3>2 DEF Attach, NoOp, IsFuture
    <2>3. CASE ~AlreadyReady(op[c].s)
      <3>1. then' = [then EXCEPT ![op[c].s] = IF MoveOnly THEN << op[c].d >> ELSE Append(@, op[c].d)]
        BY <1>8, <2>3 DEF Attach
      <3>2. task' = [task EXCEPT ![op[c].d] = "attached"]
        BY <1>8, <2>3 DEF Attach
      <3>3. handles' = [handles EXCEPT ![c] = IF IsFuture(op[c].d) THEN @ \cup {op[c].d} ELSE @]
        BY <1>8, <2>3 DEF Attach
      <3>4. op' = [op EXCEPT ![c] = NoOp]
        BY <1>8, <2>3 DEF Attach
      <3> QED
        BY <1>8, <2>1, <2>3, <3>1, <3>2, <3>3, <3>4 DEF Attach, NoOp, IsFuture
    <2>4. QED
      BY <2>2, <2>3
  <1>9. ASSUME NEW c \in Clients, Submit(c) PROVE Known'
    BY <1>9 DEF Submit, Submitted, Give, IsFuture, Calls
  <1>10. ASSUME NEW c \in Clients, Return(c) PROVE Known'
    BY <1>10 DEF Return, Give, IsFuture, Calls
  <1>11. ASSUME NEW c \in Clients, TakeLocked(c) PROVE Known'
    <2>1. op[c].s \in Futures
      BY <1>11 DEF TakeLocked, HandlesLeft, Calls
    <2>2. CASE ready[op[c].s]
      <3>1. result' = Extract(op[c].s, op[c].unique)
        BY <1>11, <2>2 DEF TakeLocked, HandlesLeft
      <3>2. handles' = [handles EXCEPT ![c] = IF MoveOnly THEN @ ELSE @ \ {op[c].s}]
        BY <1>11, <2>2 DEF TakeLocked, HandlesLeft
      <3> QED
        BY <1>11, <2>1, <2>2, <3>1, <3>2 DEF TakeLocked, HandlesLeft
    <2>3. CASE ~ready[op[c].s]
      <3>1. UNCHANGED << result, handles >>
        BY <1>11, <2>3 DEF TakeLocked, HandlesLeft
      <3> QED
        BY <1>11, <2>1, <2>3, <3>1 DEF TakeLocked, HandlesLeft
    <2>4. QED
      BY <2>2, <2>3
  <1>12. ASSUME NEW d \in Futures, Begin(d) PROVE Known'
    <2>1. invoke[d] = "idle"
      BY <1>12 DEF Begin, Phases
    <2>2. CASE IsCallback(d)
      <3>1. src' = [src EXCEPT ![d] = NoFuture]
        BY <1>12, <2>2 DEF Begin
      <3>2. UNCHANGED invoke
        BY <1>12, <2>2 DEF Begin
      <3> QED
        BY <1>12, <2>1, <2>2, <3>1, <3>2 DEF Begin, IsCallback
    <2>3. CASE ~IsCallback(d)
      <3>1. invoke' \in {invoke, [invoke EXCEPT ![d] = "run"]}
        BY <1>12, <2>3 DEF Begin
      <3>2. UNCHANGED src
        BY <1>12, <2>3 DEF Begin
      <3> QED
        BY <1>12, <2>1, <2>3, <3>1, <3>2 DEF Begin, IsCallback
    <2>4. QED
      BY <2>2, <2>3
  <1>13. ASSUME NEW d \in Futures, Drop(d) PROVE Known'
    <2>1. task[d] = "queued" /\ invoke[d] = "idle"
      BY <1>13 DEF Drop, Droppable, Phases
    <2>2. CASE IsCallback(d)
      <3>1. src' = [src EXCEPT ![d] = NoFuture]
        BY <1>13, <2>2 DEF Drop
      <3>2. UNCHANGED << result, invoke, settle >>
        BY <1>13, <2>2 DEF Drop
      <3> QED
        BY <1>13, <2>1, <2>2, <3>1, <3>2 DEF Drop, IsCallback
    <2>3. CASE ~IsCallback(d)
      <3>1. \/ /\ result' = [result EXCEPT ![d] = "broken"]
              /\ invoke' = [invoke EXCEPT ![d] = "wait"]
              /\ settle' = [settle EXCEPT ![d] = "publish"]
           \/ UNCHANGED << result, invoke, settle >>
        BY <1>13, <2>3 DEF Drop
      <3>2. UNCHANGED src
        BY <1>13, <2>3 DEF Drop
      <3> QED
        BY <1>13, <2>1, <2>3, <3>1, <3>2 DEF Drop, IsCallback
    <2>4. QED
      BY <2>2, <2>3
  <1>14. ASSUME NEW d \in Futures, Run(d) PROVE Known'
    BY <1>14 DEF Run
  <1>15. ASSUME NEW d \in Futures, NEW q \in Fresh, NEW h \in Fresh \ {q},
                  RunReducing(d, q, h)
           PROVE  Known'
    BY <1>15, FutureAssumption DEF RunReducing, FutureAssumption, Phases
  <1>16. ASSUME NEW d \in Futures, AttachHold(d) PROVE Known'
    <2>1. hold[d] \in Futures /\ at[hold[d]] \in Futures
      BY <1>16 DEF AttachHold, Reductions
    <2>2. CASE AlreadyReady(at[hold[d]])
      <3>1. task' = [task EXCEPT ![hold[d]] = "called"]
        BY <1>16, <2>2 DEF AttachHold
      <3>2. invoke' = [invoke EXCEPT ![d] = "call"]
        BY <1>16, <2>2 DEF AttachHold
      <3>3. UNCHANGED << then, src >>
        BY <1>16, <2>2 DEF AttachHold
      <3> QED
        BY <1>16, <2>1, <2>2, <3>1, <3>2, <3>3 DEF AttachHold
    <2>3. CASE ~AlreadyReady(at[hold[d]])
      <3>1. then' = [then EXCEPT ![at[hold[d]]] = IF MoveOnly THEN << hold[d] >> ELSE Append(@, hold[d])]
        BY <1>16, <2>3 DEF AttachHold
      <3>2. task' = [task EXCEPT ![hold[d]] = "attached"]
        BY <1>16, <2>3 DEF AttachHold
      <3>3. invoke' = [invoke EXCEPT ![d] = "keep"]
        BY <1>16, <2>3 DEF AttachHold
      <3>4. UNCHANGED src
        BY <1>16, <2>3 DEF AttachHold
      <3> QED
        BY <1>16, <2>1, <2>3, <3>1, <3>2, <3>3, <3>4 DEF AttachHold
    <2>4. QED
      BY <2>2, <2>3
  <1>17. ASSUME NEW d \in Futures, Finish(d) PROVE Known'
    BY <1>17 DEF Finish
  <1>18. ASSUME NEW d \in Futures, RunHold(d) PROVE Known'
    BY <1>18 DEF RunHold
  <1>19. ASSUME NEW d \in Futures, Relay(d) PROVE Known'
    BY <1>19 DEF Relay
  <1>20. ASSUME NEW d \in Futures, Publish(d) PROVE Known'
    BY <1>20 DEF Publish, MovedFrom
  <1>21. ASSUME NEW d \in Futures, Dispatch(d) PROVE Known'
    BY <1>21 DEF Dispatch, Submitted, Rest
  <1>22. ASSUME NEW d \in Futures, DispatchReturn(d) PROVE Known'
    BY <1>22 DEF DispatchReturn, Rest
  <1>23. ASSUME NEW d \in Futures, Settled(d) PROVE Known'
    BY <1>23 DEF Settled
  <1>24. CASE UNCHANGED vars
    BY <1>24 DEF vars
  <1>25. QED
    <2> HIDE DEF IInv, TypeOK, Known, Blank, Created, Kinds, Callback, Fresh
    <2> QED
      BY <1>1, <1>2, <1>3, <1>4, <1>5, <1>6, <1>7, <1>8, <1>9, <1>10, <1>11, <1>12,
         <1>13, <1>14, <1>15, <1>16, <1>17, <1>18, <1>19, <1>20, <1>21, <1>22, <1>23, <1>24
      DEF Next, Call, Continue, Frame

\* Each action moves a task and its two frames forward.
LEMMA PhasesStep == IInv /\ [Next]_vars => Phases'
  <1> SUFFICES ASSUME IInv, [Next]_vars PROVE Phases'
    OBVIOUS
  <1> USE DEF IInv, TypeOK, Phases, Blank, Kinds, Callback, Created, Fresh
  <1>1. ASSUME NEW c \in Clients, NEW d \in Fresh, NEW e \in Executors,
                  Async(c, d, e)
           PROVE  Phases'
    BY <1>1 DEF Async
  <1>2. ASSUME NEW c \in Clients, NEW d \in Fresh, NEW r \in Outcomes \cup {"broken"},
                  MakeReady(c, d, r)
           PROVE  Phases'
    BY <1>2 DEF MakeReady
  <1>3. ASSUME NEW c \in Clients, NEW s \in handles[c], NEW d \in Fresh,
                  NEW k \in {"then", "recover", "watch", "detach"},
                  NEW e \in Executors \cup {"immediate"}, NEW consume \in BOOLEAN,
                  Package(c, s, d, k, e, consume)
           PROVE  Phases'
    BY <1>3 DEF Package, Captured, Remaining
  <1>4. ASSUME NEW c \in Clients, NEW s \in handles[c], NEW d \in Fresh,
                  Detach(c, s, d)
           PROVE  Phases'
    BY <1>4 DEF Detach, AlreadyReady
  <1>5. ASSUME NEW c \in Clients, NEW s \in handles[c], Release(c, s) PROVE Phases'
    BY <1>5 DEF Release
  <1>6. ASSUME NEW c \in Clients, NEW s \in handles[c], NEW other \in Clients,
                  Share(c, other, s)
           PROVE  Phases'
    BY <1>6 DEF Share
  <1>7. ASSUME NEW c \in Clients, NEW s \in handles[c], Take(c, s) PROVE Phases'
    BY <1>7 DEF Take, MayMove
  <1>8. ASSUME NEW c \in Clients, Attach(c) PROVE Phases'
    BY <1>8 DEF Attach, AlreadyReady, Calls
  <1>9. ASSUME NEW c \in Clients, Submit(c) PROVE Phases'
    BY <1>9 DEF Submit, Submitted, Give, Calls
  <1>10. ASSUME NEW c \in Clients, Return(c) PROVE Phases'
    BY <1>10 DEF Return, Give, IsFuture
  <1>11. ASSUME NEW c \in Clients, TakeLocked(c) PROVE Phases'
    BY <1>11 DEF TakeLocked, HandlesLeft
  <1>12. ASSUME NEW d \in Futures, Begin(d) PROVE Phases'
    BY <1>12 DEF Begin
  <1>13. ASSUME NEW d \in Futures, Drop(d) PROVE Phases'
    BY <1>13 DEF Drop, Droppable
  <1>14. ASSUME NEW d \in Futures, Run(d) PROVE Phases'
    BY <1>14 DEF Run
  <1>15. ASSUME NEW d \in Futures, NEW q \in Fresh, NEW h \in Fresh \ {q},
                  RunReducing(d, q, h)
           PROVE  Phases'
    BY <1>15 DEF RunReducing
  <1>16. ASSUME NEW d \in Futures, AttachHold(d) PROVE Phases'
    BY <1>16 DEF AttachHold, AlreadyReady, Reductions
  <1>17. ASSUME NEW d \in Futures, Finish(d) PROVE Phases'
    BY <1>17 DEF Finish
  <1>18. ASSUME NEW d \in Futures, RunHold(d) PROVE Phases'
    <2>1. /\ into[d] \in Futures /\ hold[into[d]] = d /\ kind[into[d]] # "ready"
         /\ settle[into[d]] = "idle" /\ invoke[into[d]] \in {"attach", "call", "keep", "done"}
      BY <1>18 DEF RunHold, Reductions
    <2>2. task[d] = "spent"
      BY <1>18 DEF RunHold, Phases
    <2>3. into[d] # d /\ invoke[into[d]] # "attach"
      BY <1>18, <2>1, <2>2 DEF RunHold, Reductions
    <2>4. task[into[d]] = "spent"
      BY <1>18, <2>1 DEF Phases
    <2>5. CASE Wanted(into[d])
      <3>1. \E res \in Arguments(d) : result' = [res EXCEPT ![into[d]] = result[src[d]]]
        BY <1>18, <2>5 DEF RunHold
      <3>2. settle' = [settle EXCEPT ![into[d]] = "publish"]
        BY <1>18, <2>5 DEF RunHold
      <3>3. invoke' = [invoke EXCEPT ![d] = "relay"]
        BY <1>18, <2>5 DEF RunHold
      <3> QED
        BY <1>18, <2>1, <2>2, <2>3, <2>4, <2>5, <3>1, <3>2, <3>3 DEF RunHold
    <2>6. CASE ~Wanted(into[d])
      <3>1. result' = [result EXCEPT ![d] = "value"]
        BY <1>18, <2>6 DEF RunHold
      <3>2. settle' = [settle EXCEPT ![d] = "publish"]
        BY <1>18, <2>6 DEF RunHold
      <3>3. invoke' = [invoke EXCEPT ![d] = "wait"]
        BY <1>18, <2>6 DEF RunHold
      <3> QED
        BY <1>18, <2>1, <2>2, <2>3, <2>4, <2>6, <3>1, <3>2, <3>3 DEF RunHold
    <2>7. QED
      BY <2>5, <2>6
  <1>19. ASSUME NEW d \in Futures, Relay(d) PROVE Phases'
    BY <1>19 DEF Relay, Reductions
  <1>20. ASSUME NEW d \in Futures, Publish(d) PROVE Phases'
    BY <1>20 DEF Publish, MovedFrom
  <1>21. ASSUME NEW d \in Futures, Dispatch(d) PROVE Phases'
    <2>1. todo[d] \in Seq(Futures) /\ todo[d] # <<>> /\ OneEach(todo[d])
      BY <1>21 DEF Dispatch, Lists, ListsOf
    <2>2. Head(todo[d]) \in Futures /\ Head(todo[d]) \in Range(todo[d])
      BY <1>21, <2>1, Shortening
    <2>3. task[Head(todo[d])] = "attached" /\ at[Head(todo[d])] = d
      BY <1>21, <2>1, <2>2 DEF Dispatch, Lists, ListsOf
    <2>4. CASE exec[Head(todo[d])] = "immediate"
      <3>1. task' = [task EXCEPT ![Head(todo[d])] = "called"]
        BY <1>21, <2>4 DEF Dispatch, Submitted, Rest
      <3>2. settle' = [settle EXCEPT ![d] = "call"] /\ UNCHANGED todo
        BY <1>21, <2>4 DEF Dispatch, Submitted, Rest
      <3> QED
        BY <1>21, <2>1, <2>2, <2>3, <2>4, <3>1, <3>2, SMTT(30) DEF Dispatch
    <2>5. CASE exec[Head(todo[d])] # "immediate"
      <3>1. task' = [task EXCEPT ![Head(todo[d])] = "queued"]
        BY <1>21, <2>5 DEF Dispatch, Submitted, Rest
      <3>2. todo' = [todo EXCEPT ![d] = Tail(todo[d])] /\ UNCHANGED settle
        BY <1>21, <2>5 DEF Dispatch, Submitted, Rest
      <3> QED
        BY <1>21, <2>1, <2>2, <2>3, <2>5, <3>1, <3>2 DEF Dispatch
    <2>6. QED
      BY <2>4, <2>5
  <1>22. ASSUME NEW d \in Futures, DispatchReturn(d) PROVE Phases'
    BY <1>22 DEF DispatchReturn, Rest
  <1>23. ASSUME NEW d \in Futures, Settled(d) PROVE Phases'
    BY <1>23 DEF Settled
  <1>24. CASE UNCHANGED vars
    BY <1>24 DEF vars
  <1>25. QED
    <2> HIDE DEF IInv, TypeOK, Phases, Blank, Kinds, Callback, Created, Fresh
    <2> QED
      BY <1>1, <1>2, <1>3, <1>4, <1>5, <1>6, <1>7, <1>8, <1>9, <1>10, <1>11, <1>12,
         <1>13, <1>14, <1>15, <1>16, <1>17, <1>18, <1>19, <1>20, <1>21, <1>22, <1>23, <1>24
      DEF Next, Call, Continue, Frame

\* One continuation stands in for a reducing future, until it completes it.
LEMMA ReductionsStep == IInv /\ [Next]_vars => Reductions'
  <1> SUFFICES ASSUME IInv, [Next]_vars PROVE Reductions'
    OBVIOUS
  <1> USE DEF IInv, TypeOK, Reductions, Phases, Blank, Known, Kinds, Callback, Created, Fresh
  <1>1. ASSUME NEW c \in Clients, NEW d \in Fresh, NEW e \in Executors,
                  Async(c, d, e)
           PROVE  Reductions'
    BY <1>1 DEF Async
  <1>2. ASSUME NEW c \in Clients, NEW d \in Fresh, NEW r \in Outcomes \cup {"broken"},
                  MakeReady(c, d, r)
           PROVE  Reductions'
    BY <1>2 DEF MakeReady
  <1>3. ASSUME NEW c \in Clients, NEW s \in handles[c], NEW d \in Fresh,
                  NEW k \in {"then", "recover", "watch", "detach"},
                  NEW e \in Executors \cup {"immediate"}, NEW consume \in BOOLEAN,
                  Package(c, s, d, k, e, consume)
           PROVE  Reductions'
    BY <1>3, FutureAssumption DEF Package, FutureAssumption
  <1>4. ASSUME NEW c \in Clients, NEW s \in handles[c], NEW d \in Fresh,
                  Detach(c, s, d)
           PROVE  Reductions'
    BY <1>4, FutureAssumption DEF Detach, FutureAssumption
  <1>5. ASSUME NEW c \in Clients, NEW s \in handles[c], Release(c, s) PROVE Reductions'
    BY <1>5 DEF Release
  <1>6. ASSUME NEW c \in Clients, NEW s \in handles[c], NEW other \in Clients,
                  Share(c, other, s)
           PROVE  Reductions'
    BY <1>6 DEF Share
  <1>7. ASSUME NEW c \in Clients, NEW s \in handles[c], Take(c, s) PROVE Reductions'
    BY <1>7 DEF Take, MayMove
  <1>8. ASSUME NEW c \in Clients, Attach(c) PROVE Reductions'
    BY <1>8 DEF Attach, AlreadyReady, Calls
  <1>9. ASSUME NEW c \in Clients, Submit(c) PROVE Reductions'
    BY <1>9 DEF Submit, Submitted, Give, Calls
  <1>10. ASSUME NEW c \in Clients, Return(c) PROVE Reductions'
    BY <1>10 DEF Return, Give, IsFuture
  <1>11. ASSUME NEW c \in Clients, TakeLocked(c) PROVE Reductions'
    BY <1>11 DEF TakeLocked, HandlesLeft
  <1>12. ASSUME NEW d \in Futures, Begin(d) PROVE Reductions'
    <2>1. invoke[d] = "idle" /\ task[d] \in {"queued", "called"}
      BY <1>12 DEF Begin, Phases
    <2>2. \A h \in Futures : kind[h] = "hold" => into[h] # d
      BY <2>1, NotReduced
    <2>3. \A h \in Futures : invoke[h] = "attach" => h # d /\ hold[h] # d
      BY <2>1 DEF Reductions
    <2>4. CASE IsCallback(d)
      <3>1. src' = [src EXCEPT ![d] = NoFuture]
        BY <1>12, <2>4 DEF Begin
      <3>2. UNCHANGED invoke
        BY <1>12, <2>4 DEF Begin
      <3> QED
        BY <1>12, <2>1, <2>2, <2>3, <2>4, <3>1, <3>2 DEF Begin
    <2>5. CASE ~IsCallback(d) /\ Wanted(d)
      <3>1. invoke' = [invoke EXCEPT ![d] = "run"]
        BY <1>12, <2>5 DEF Begin
      <3>2. UNCHANGED src
        BY <1>12, <2>5 DEF Begin
      <3> QED
        BY <1>12, <2>1, <2>2, <2>3, <2>5, <3>1, <3>2 DEF Begin
    <2>6. CASE ~IsCallback(d) /\ ~Wanted(d)
      <3>1. UNCHANGED << invoke, src >>
        BY <1>12, <2>6 DEF Begin
      <3> QED
        BY <1>12, <2>1, <2>2, <2>3, <2>6, <3>1 DEF Begin
    <2>7. QED
      BY <2>4, <2>5, <2>6
  <1>13. ASSUME NEW d \in Futures, Drop(d) PROVE Reductions'
    <2>1. invoke[d] = "idle" /\ task[d] = "queued"
      BY <1>13 DEF Drop, Droppable, Phases
    <2>2. \A h \in Futures : kind[h] = "hold" => into[h] # d
      BY <2>1, NotReduced
    <2>3. \A h \in Futures : invoke[h] = "attach" => h # d /\ hold[h] # d
      BY <2>1 DEF Reductions
    <2>4. CASE IsCallback(d)
      <3>1. src' = [src EXCEPT ![d] = NoFuture]
        BY <1>13, <2>4 DEF Drop
      <3>2. UNCHANGED << result, invoke, settle >>
        BY <1>13, <2>4 DEF Drop
      <3> QED
        BY <1>13, <2>1, <2>2, <2>3, <2>4, <3>1, <3>2 DEF Drop
    <2>5. CASE ~IsCallback(d) /\ Wanted(d)
      <3>1. result' = [result EXCEPT ![d] = "broken"]
        BY <1>13, <2>5 DEF Drop
      <3>2. invoke' = [invoke EXCEPT ![d] = "wait"]
        BY <1>13, <2>5 DEF Drop
      <3>3. settle' = [settle EXCEPT ![d] = "publish"]
        BY <1>13, <2>5 DEF Drop
      <3>4. UNCHANGED src
        BY <1>13, <2>5 DEF Drop
      <3> QED
        BY <1>13, <2>1, <2>2, <2>3, <2>5, <3>1, <3>2, <3>3, <3>4 DEF Drop
    <2>6. CASE ~IsCallback(d) /\ ~Wanted(d)
      <3>1. UNCHANGED << result, invoke, settle, src >>
        BY <1>13, <2>6 DEF Drop
      <3> QED
        BY <1>13, <2>1, <2>2, <2>3, <2>6, <3>1 DEF Drop
    <2>7. QED
      BY <2>4, <2>5, <2>6
  <1>14. ASSUME NEW d \in Futures, Run(d) PROVE Reductions'
    BY <1>14 DEF Run
  <1>15. ASSUME NEW d \in Futures, NEW q \in Fresh, NEW h \in Fresh \ {q},
                  RunReducing(d, q, h)
           PROVE  Reductions'
    <2>1. q \in Futures /\ h \in Futures /\ q # h
      BY <1>15
    <2>2. task[d] = "spent" /\ settle[d] = "idle" /\ kind[d] # "ready"
      BY <1>15 DEF RunReducing, Phases
    <2>3. d # q /\ d # h
      BY <1>15, <2>2
    <2>4. QED
      BY <1>15, <2>1, <2>2, <2>3, FutureAssumption DEF RunReducing, FutureAssumption
  <1>16. ASSUME NEW d \in Futures, AttachHold(d) PROVE Reductions'
    <2>1. /\ hold[d] \in Futures /\ kind[hold[d]] = "hold"
         /\ into[hold[d]] = d /\ task[hold[d]] = "local"
      BY <1>16 DEF AttachHold, Reductions
    <2>2. at[hold[d]] \in Futures
      BY <1>16, <2>1 DEF AttachHold, Reductions, Known
    <2>3. CASE AlreadyReady(at[hold[d]])
      <3>1. task' = [task EXCEPT ![hold[d]] = "called"]
        BY <1>16, <2>3 DEF AttachHold
      <3>2. invoke' = [invoke EXCEPT ![d] = "call"]
        BY <1>16, <2>3 DEF AttachHold
      <3>3. UNCHANGED << then, src >>
        BY <1>16, <2>3 DEF AttachHold
      <3> QED
        BY <1>16, <2>1, <2>2, <2>3, <3>1, <3>2, <3>3 DEF AttachHold
    <2>4. CASE ~AlreadyReady(at[hold[d]])
      <3>1. then' = [then EXCEPT ![at[hold[d]]] = IF MoveOnly THEN << hold[d] >> ELSE Append(@, hold[d])]
        BY <1>16, <2>4 DEF AttachHold
      <3>2. task' = [task EXCEPT ![hold[d]] = "attached"]
        BY <1>16, <2>4 DEF AttachHold
      <3>3. invoke' = [invoke EXCEPT ![d] = "keep"]
        BY <1>16, <2>4 DEF AttachHold
      <3>4. UNCHANGED src
        BY <1>16, <2>4 DEF AttachHold
      <3> QED
        BY <1>16, <2>1, <2>2, <2>4, <3>1, <3>2, <3>3, <3>4 DEF AttachHold
    <2>5. QED
      BY <2>3, <2>4
  <1>17. ASSUME NEW d \in Futures, Finish(d) PROVE Reductions'
    BY <1>17 DEF Finish
  <1>18. ASSUME NEW d \in Futures, RunHold(d) PROVE Reductions'
    <2>1. /\ into[d] \in Futures /\ hold[into[d]] = d /\ kind[into[d]] # "ready"
         /\ settle[into[d]] = "idle" /\ invoke[into[d]] \in {"attach", "call", "keep", "done"}
      BY <1>18 DEF RunHold, Reductions
    <2>2. task[d] = "spent"
      BY <1>18 DEF RunHold, Phases
    <2>3. into[d] # d /\ invoke[into[d]] # "attach"
      BY <1>18, <2>1, <2>2 DEF RunHold, Reductions
    <2>4. task[into[d]] = "spent"
      BY <1>18, <2>1 DEF Phases
    <2>5. CASE Wanted(into[d])
      <3>1. \E res \in Arguments(d) : result' = [res EXCEPT ![into[d]] = result[src[d]]]
        BY <1>18, <2>5 DEF RunHold
      <3>2. settle' = [settle EXCEPT ![into[d]] = "publish"]
        BY <1>18, <2>5 DEF RunHold
      <3>3. invoke' = [invoke EXCEPT ![d] = "relay"]
        BY <1>18, <2>5 DEF RunHold
      <3> QED
        BY <1>18, <2>1, <2>2, <2>3, <2>4, <2>5, <3>1, <3>2, <3>3 DEF RunHold
    <2>6. CASE ~Wanted(into[d])
      <3>1. result' = [result EXCEPT ![d] = "value"]
        BY <1>18, <2>6 DEF RunHold
      <3>2. settle' = [settle EXCEPT ![d] = "publish"]
        BY <1>18, <2>6 DEF RunHold
      <3>3. invoke' = [invoke EXCEPT ![d] = "wait"]
        BY <1>18, <2>6 DEF RunHold
      <3> QED
        BY <1>18, <2>1, <2>2, <2>3, <2>4, <2>6, <3>1, <3>2, <3>3 DEF RunHold
    <2>7. QED
      BY <2>5, <2>6
  <1>19. ASSUME NEW d \in Futures, Relay(d) PROVE Reductions'
    BY <1>19 DEF Relay
  <1>20. ASSUME NEW d \in Futures, Publish(d) PROVE Reductions'
    BY <1>20 DEF Publish, MovedFrom
  <1>21. ASSUME NEW d \in Futures, Dispatch(d) PROVE Reductions'
    <2>1. todo[d] \in Seq(Futures) /\ todo[d] # <<>> /\ OneEach(todo[d])
      BY <1>21 DEF Dispatch, Lists, ListsOf
    <2>2. Head(todo[d]) \in Futures /\ Head(todo[d]) \in Range(todo[d])
      BY <1>21, <2>1, Shortening
    <2>3. task[Head(todo[d])] = "attached" /\ at[Head(todo[d])] = d
      BY <1>21, <2>1, <2>2 DEF Dispatch, Lists, ListsOf
    <2>4. CASE exec[Head(todo[d])] = "immediate"
      <3>1. task' = [task EXCEPT ![Head(todo[d])] = "called"]
        BY <1>21, <2>4 DEF Dispatch, Submitted, Rest
      <3>2. settle' = [settle EXCEPT ![d] = "call"] /\ UNCHANGED todo
        BY <1>21, <2>4 DEF Dispatch, Submitted, Rest
      <3> QED
        BY <1>21, <2>1, <2>2, <2>3, <2>4, <3>1, <3>2 DEF Dispatch
    <2>5. CASE exec[Head(todo[d])] # "immediate"
      <3>1. task' = [task EXCEPT ![Head(todo[d])] = "queued"]
        BY <1>21, <2>5 DEF Dispatch, Submitted, Rest
      <3>2. todo' = [todo EXCEPT ![d] = Tail(todo[d])] /\ UNCHANGED settle
        BY <1>21, <2>5 DEF Dispatch, Submitted, Rest
      <3> QED
        BY <1>21, <2>1, <2>2, <2>3, <2>5, <3>1, <3>2 DEF Dispatch
    <2>6. QED
      BY <2>4, <2>5
  <1>22. ASSUME NEW d \in Futures, DispatchReturn(d) PROVE Reductions'
    BY <1>22 DEF DispatchReturn, Rest
  <1>23. ASSUME NEW d \in Futures, Settled(d) PROVE Reductions'
    BY <1>23 DEF Settled
  <1>24. CASE UNCHANGED vars
    BY <1>24 DEF vars
  <1>25. QED
    <2> HIDE DEF IInv, TypeOK, Reductions, Phases, Blank, Known, Kinds, Callback, Created, Fresh
    <2> QED
      BY <1>1, <1>2, <1>3, <1>4, <1>5, <1>6, <1>7, <1>8, <1>9, <1>10, <1>11, <1>12,
         <1>13, <1>14, <1>15, <1>16, <1>17, <1>18, <1>19, <1>20, <1>21, <1>22, <1>23, <1>24
      DEF Next, Call, Continue, Frame

\* Attaching, publishing and dispatching keep each continuation in one list.
LEMMA ListsStep == IInv /\ [Next]_vars => Lists'
  <1> SUFFICES ASSUME IInv, [Next]_vars PROVE Lists'
    OBVIOUS
  <1> USE DEF IInv, TypeOK, Lists, ListsOf, Phases, Blank, Known, Kinds, Callback, Created, Fresh
  <1>1. ASSUME NEW c \in Clients, NEW d \in Fresh, NEW e \in Executors,
                  Async(c, d, e)
           PROVE  Lists'
    BY <1>1 DEF Async
  <1>2. ASSUME NEW c \in Clients, NEW d \in Fresh, NEW r \in Outcomes \cup {"broken"},
                  MakeReady(c, d, r)
           PROVE  Lists'
    BY <1>2 DEF MakeReady
  <1>3. ASSUME NEW c \in Clients, NEW s \in handles[c], NEW d \in Fresh,
                  NEW k \in {"then", "recover", "watch", "detach"},
                  NEW e \in Executors \cup {"immediate"}, NEW consume \in BOOLEAN,
                  Package(c, s, d, k, e, consume)
           PROVE  Lists'
    BY <1>3, FutureAssumption DEF Package, FutureAssumption
  <1>4. ASSUME NEW c \in Clients, NEW s \in handles[c], NEW d \in Fresh,
                  Detach(c, s, d)
           PROVE  Lists'
    <2> HIDE DEF ListsOf
    <2>1. /\ s \in Futures /\ d \in Futures /\ d # s /\ ~ready[s] /\ task[d] = "none"
      BY <1>4 DEF Detach, AlreadyReady
    <2>2. \A x \in Futures : d \notin Range(then[x]) /\ d \notin Range(todo[x])
      BY <2>1, Unlisted
    <2>3. then' = [then EXCEPT ![s] = Extended(then[s], d)]
      BY <1>4, <2>1 DEF Detach, Extended
    <2>4. ASSUME NEW x \in Futures, x # s PROVE ListsOf(x)'
      <3>1. ListsOf(x) /\ d \notin Range(then[x]) /\ d \notin Range(todo[x])
        BY <2>4, <1>4, <2>1, <2>2, <2>3 DEF Lists
      <3>2. /\ then'[x] = then[x] /\ todo'[x] = todo[x]
           /\ settle'[x] = settle[x] /\ ready'[x] = ready[x]
        BY <2>4, <1>4, <2>1, <2>2, <2>3 DEF Detach
      <3>3. \A y \in Futures \ {d} : task'[y] = task[y] /\ at'[y] = at[y]
        BY <2>4, <1>4, <2>1, <2>2, <2>3 DEF Detach
      <3> QED
        BY <2>4, <3>1, <3>2, <3>3, OtherList
    <2>5. ASSUME NEW x \in Futures, x = s PROVE ListsOf(x)'
      <3>1. /\ ListsOf(x) /\ then[x] \in Seq(Futures) /\ ~ready[x]
           /\ d \in Futures /\ d \notin Range(then[x]) /\ d \notin Range(todo[x])
        BY <2>5, <1>4, <2>1, <2>2, <2>3 DEF Lists
      <3>2. /\ then'[x] = Extended(then[x], d) /\ task'[d] = "attached" /\ at'[d] = x
           /\ todo'[x] = todo[x] /\ settle'[x] = settle[x] /\ ready'[x] = ready[x]
        BY <2>5, <1>4, <2>1, <2>2, <2>3 DEF Detach
      <3>3. \A y \in Futures \ {d} : task'[y] = task[y] /\ at'[y] = at[y]
        BY <2>5, <1>4, <2>1, <2>2, <2>3 DEF Detach
      <3> QED
        BY <2>5, <3>1, <3>2, <3>3, ListExtended
    <2> QED
      BY <2>4, <2>5, <2>1 DEF Lists
  <1>5. ASSUME NEW c \in Clients, NEW s \in handles[c], Release(c, s) PROVE Lists'
    BY <1>5 DEF Release
  <1>6. ASSUME NEW c \in Clients, NEW s \in handles[c], NEW other \in Clients,
                  Share(c, other, s)
           PROVE  Lists'
    BY <1>6 DEF Share
  <1>7. ASSUME NEW c \in Clients, NEW s \in handles[c], Take(c, s) PROVE Lists'
    BY <1>7 DEF Take, MayMove
  <1>8. ASSUME NEW c \in Clients, Attach(c) PROVE Lists'
    <2> HIDE DEF ListsOf
    <2>1. /\ op[c].s \in Futures /\ op[c].d \in Futures
         /\ task[op[c].d] = "local" /\ at[op[c].d] = op[c].s
      BY <1>8 DEF Attach, Calls
    <2>2. \A x \in Futures : op[c].d \notin Range(then[x]) /\ op[c].d \notin Range(todo[x])
      BY <2>1, Unlisted
    <2>3. CASE AlreadyReady(op[c].s)
      BY <1>8, <2>1, <2>3 DEF Attach, ListsOf
    <2>4. CASE ~AlreadyReady(op[c].s)
      <3>1. ~ready[op[c].s]
        BY <1>8, <2>4 DEF AlreadyReady
      <3>2. task' = [task EXCEPT ![op[c].d] = "attached"]
        BY <1>8, <2>4 DEF Attach
      <3>3. then' = [then EXCEPT ![op[c].s] = Extended(then[op[c].s], op[c].d)]
        BY <1>8, <2>4 DEF Attach, Extended
      <3>4. ASSUME NEW x \in Futures, x # op[c].s PROVE ListsOf(x)'
        <4>1. ListsOf(x) /\ op[c].d \notin Range(then[x]) /\ op[c].d \notin Range(todo[x])
          BY <3>4, <1>8, <2>1, <2>2, <3>1, <3>2, <3>3 DEF Lists
        <4>2. /\ then'[x] = then[x] /\ todo'[x] = todo[x]
             /\ settle'[x] = settle[x] /\ ready'[x] = ready[x]
          BY <3>4, <1>8, <2>1, <2>2, <3>1, <3>2, <3>3 DEF Attach
        <4>3. \A y \in Futures \ {op[c].d} : task'[y] = task[y] /\ at'[y] = at[y]
          BY <3>4, <1>8, <2>1, <2>2, <3>1, <3>2, <3>3 DEF Attach
        <4> QED
          BY <3>4, <4>1, <4>2, <4>3, OtherList
      <3>5. ASSUME NEW x \in Futures, x = op[c].s PROVE ListsOf(x)'
        <4>1. /\ ListsOf(x) /\ then[x] \in Seq(Futures) /\ ~ready[x]
             /\ op[c].d \in Futures /\ op[c].d \notin Range(then[x]) /\ op[c].d \notin Range(todo[x])
          BY <3>5, <1>8, <2>1, <2>2, <3>1, <3>2, <3>3 DEF Lists
        <4>2. /\ then'[x] = Extended(then[x], op[c].d) /\ task'[op[c].d] = "attached" /\ at'[op[c].d] = x
             /\ todo'[x] = todo[x] /\ settle'[x] = settle[x] /\ ready'[x] = ready[x]
          BY <3>5, <1>8, <2>1, <2>2, <3>1, <3>2, <3>3 DEF Attach
        <4>3. \A y \in Futures \ {op[c].d} : task'[y] = task[y] /\ at'[y] = at[y]
          BY <3>5, <1>8, <2>1, <2>2, <3>1, <3>2, <3>3 DEF Attach
        <4> QED
          BY <3>5, <4>1, <4>2, <4>3, ListExtended
      <3> QED
        BY <3>4, <3>5, <2>1 DEF Lists
    <2>5. QED
      BY <2>3, <2>4
  <1>9. ASSUME NEW c \in Clients, Submit(c) PROVE Lists'
    BY <1>9 DEF Submit, Submitted, Give, Calls
  <1>10. ASSUME NEW c \in Clients, Return(c) PROVE Lists'
    BY <1>10 DEF Return, Give, IsFuture
  <1>11. ASSUME NEW c \in Clients, TakeLocked(c) PROVE Lists'
    BY <1>11 DEF TakeLocked, HandlesLeft
  <1>12. ASSUME NEW d \in Futures, Begin(d) PROVE Lists'
    BY <1>12 DEF Begin
  <1>13. ASSUME NEW d \in Futures, Drop(d) PROVE Lists'
    <2>1. task[d] = "queued" /\ settle[d] = "idle" /\ todo[d] = <<>>
      BY <1>13 DEF Drop, Droppable
    <2>2. CASE IsCallback(d)
      <3>1. src' = [src EXCEPT ![d] = NoFuture]
        BY <1>13, <2>2 DEF Drop
      <3>2. UNCHANGED << result, invoke, settle >>
        BY <1>13, <2>2 DEF Drop
      <3> QED
        BY <1>13, <2>1, <2>2, <3>1, <3>2 DEF Drop
    <2>3. CASE ~IsCallback(d)
      <3>1. \/ /\ result' = [result EXCEPT ![d] = "broken"]
              /\ invoke' = [invoke EXCEPT ![d] = "wait"]
              /\ settle' = [settle EXCEPT ![d] = "publish"]
           \/ UNCHANGED << result, invoke, settle >>
        BY <1>13, <2>3 DEF Drop
      <3>2. UNCHANGED src
        BY <1>13, <2>3 DEF Drop
      <3> QED
        BY <1>13, <2>1, <2>3, <3>1, <3>2 DEF Drop
    <2>4. QED
      BY <2>2, <2>3
  <1>14. ASSUME NEW d \in Futures, Run(d) PROVE Lists'
    <2>1. settle[d] = "idle" /\ todo[d] = <<>>
      BY <1>14 DEF Run
    <2>2. QED
      BY <1>14, <2>1 DEF Run
  <1>15. ASSUME NEW d \in Futures, NEW q \in Fresh, NEW h \in Fresh \ {q},
                  RunReducing(d, q, h)
           PROVE  Lists'
    <2>1. q \in Futures /\ h \in Futures /\ q # h
      BY <1>15
    <2>2. task[d] = "spent" /\ settle[d] = "idle" /\ kind[d] # "ready"
      BY <1>15 DEF RunReducing, Phases
    <2>3. d # q /\ d # h
      BY <1>15, <2>2
    <2>4. task[q] = "none" /\ task[h] = "none" /\ at[h] = NoFuture /\ at[q] = NoFuture
      BY <1>15
    <2>5. \A x \in Futures : h \notin Range(then[x]) /\ h \notin Range(todo[x])
      BY <2>4, Unlisted
    <2>6. \A x \in Futures : q \notin Range(then[x]) /\ q \notin Range(todo[x])
      BY <2>4, Unlisted
    <2>7. UNCHANGED << then, ready, settle, todo >>
      BY <1>15 DEF RunReducing
    <2>8. \A y \in Futures \ {q, h} : task'[y] = task[y] /\ at'[y] = at[y]
      BY <1>15, <2>1 DEF RunReducing
    <2>9. ASSUME NEW x \in Futures PROVE ListsOf(x)'
      <3> HIDE DEF ListsOf
      <3>1. /\ ListsOf(x) /\ h \notin Range(then[x]) /\ h \notin Range(todo[x])
           /\ q \notin Range(then[x]) /\ q \notin Range(todo[x])
        BY <2>5, <2>6, <2>9 DEF Lists
      <3>2. /\ then'[x] = then[x] /\ todo'[x] = todo[x]
           /\ settle'[x] = settle[x] /\ ready'[x] = ready[x]
        BY <2>7
      <3> HIDE DEF IInv, TypeOK, Lists, Phases, Blank, Known, Kinds, Callback, Created, Fresh
      <3> QED
        BY <2>8, <3>1, <3>2, OtherLists
    <2> QED
      BY <2>9
  <1>16. ASSUME NEW d \in Futures, AttachHold(d) PROVE Lists'
    <2> HIDE DEF ListsOf
    <2>1. /\ hold[d] \in Futures /\ kind[hold[d]] = "hold"
         /\ into[hold[d]] = d /\ task[hold[d]] = "local"
      BY <1>16 DEF AttachHold, Reductions
    <2>2. at[hold[d]] \in Futures
      BY <1>16, <2>1 DEF AttachHold, Reductions, Known
    <2>3. \A x \in Futures : hold[d] \notin Range(then[x]) /\ hold[d] \notin Range(todo[x])
      BY <2>1, Unlisted
    <2>4. at[hold[d]] # NoFuture
      BY <2>2, FutureAssumption DEF FutureAssumption
    <2>5. CASE AlreadyReady(at[hold[d]])
      BY <1>16, <2>1, <2>5 DEF AttachHold, ListsOf
    <2>6. CASE ~AlreadyReady(at[hold[d]])
      <3>1. ~ready[at[hold[d]]]
        BY <1>16, <2>6 DEF AlreadyReady
      <3>2. task' = [task EXCEPT ![hold[d]] = "attached"]
        BY <1>16, <2>6 DEF AttachHold
      <3>3. then' = [then EXCEPT ![at[hold[d]]] = Extended(then[at[hold[d]]], hold[d])]
        BY <1>16, <2>6 DEF AttachHold, Extended
      <3>4. ASSUME NEW x \in Futures, x # at[hold[d]] PROVE ListsOf(x)'
        <4>1. ListsOf(x) /\ hold[d] \notin Range(then[x]) /\ hold[d] \notin Range(todo[x])
          BY <3>4, <1>16, <2>1, <2>2, <2>3, <2>4, <3>1, <3>2, <3>3 DEF Lists
        <4>2. /\ then'[x] = then[x] /\ todo'[x] = todo[x]
             /\ settle'[x] = settle[x] /\ ready'[x] = ready[x]
          BY <3>4, <1>16, <2>1, <2>2, <2>3, <2>4, <3>1, <3>2, <3>3 DEF AttachHold
        <4>3. \A y \in Futures \ {hold[d]} : task'[y] = task[y] /\ at'[y] = at[y]
          BY <3>4, <1>16, <2>1, <2>2, <2>3, <2>4, <3>1, <3>2, <3>3 DEF AttachHold
        <4> QED
          BY <3>4, <4>1, <4>2, <4>3, OtherList
      <3>5. ASSUME NEW x \in Futures, x = at[hold[d]] PROVE ListsOf(x)'
        <4>1. /\ ListsOf(x) /\ then[x] \in Seq(Futures) /\ ~ready[x]
             /\ hold[d] \in Futures /\ hold[d] \notin Range(then[x]) /\ hold[d] \notin Range(todo[x])
          BY <3>5, <1>16, <2>1, <2>2, <2>3, <2>4, <3>1, <3>2, <3>3 DEF Lists
        <4>2. /\ then'[x] = Extended(then[x], hold[d]) /\ task'[hold[d]] = "attached" /\ at'[hold[d]] = x
             /\ todo'[x] = todo[x] /\ settle'[x] = settle[x] /\ ready'[x] = ready[x]
          BY <3>5, <1>16, <2>1, <2>2, <2>3, <2>4, <3>1, <3>2, <3>3 DEF AttachHold
        <4>3. \A y \in Futures \ {hold[d]} : task'[y] = task[y] /\ at'[y] = at[y]
          BY <3>5, <1>16, <2>1, <2>2, <2>3, <2>4, <3>1, <3>2, <3>3 DEF AttachHold
        <4> QED
          BY <3>5, <4>1, <4>2, <4>3, ListExtended
      <3> QED
        BY <3>4, <3>5, <2>1 DEF Lists
    <2>7. QED
      BY <2>5, <2>6
  <1>17. ASSUME NEW d \in Futures, Finish(d) PROVE Lists'
    BY <1>17 DEF Finish
  <1>18. ASSUME NEW d \in Futures, RunHold(d) PROVE Lists'
    BY <1>18 DEF RunHold, Reductions
  <1>19. ASSUME NEW d \in Futures, Relay(d) PROVE Lists'
    BY <1>19 DEF Relay, Reductions
  <1>20. ASSUME NEW d \in Futures, Publish(d) PROVE Lists'
    <2>1. todo[d] = <<>> /\ ready[d] = FALSE
      BY <1>20 DEF Publish
    <2>2. QED
      BY <1>20, <2>1, Empty DEF Publish, MovedFrom
  <1>21. ASSUME NEW d \in Futures, Dispatch(d) PROVE Lists'
    <2> HIDE DEF ListsOf
    <2>1. todo[d] \in Seq(Futures) /\ todo[d] # <<>> /\ OneEach(todo[d])
      BY <1>21 DEF Dispatch, Lists, ListsOf
    <2>2. Head(todo[d]) \in Futures /\ Head(todo[d]) \in Range(todo[d])
      BY <1>21, <2>1, Shortening
    <2>3. task[Head(todo[d])] = "attached" /\ at[Head(todo[d])] = d
      BY <1>21, <2>1, <2>2 DEF Dispatch, Lists, ListsOf
    <2>4. then[d] = <<>> /\ \A x \in Futures : Head(todo[d]) \notin Range(then[x])
      BY <1>21, <2>2, <2>3, Empty DEF Dispatch, ListsOf
    <2>5. \A x \in Futures : Head(todo[d]) \in Range(todo[x]) => x = d
      BY <1>21, <2>2, <2>3 DEF ListsOf
    <2>6. /\ Tail(todo[d]) \in Seq(Futures) /\ OneEach(Tail(todo[d]))
         /\ Range(Tail(todo[d])) \subseteq Range(todo[d]) \ {Head(todo[d])}
      BY <1>21, <2>1, Shortening
    <2>7. CASE exec[Head(todo[d])] = "immediate"
      <3>1. task' = [task EXCEPT ![Head(todo[d])] = "called"]
        BY <1>21, <2>7 DEF Dispatch, Submitted
      <3>2. settle' = [settle EXCEPT ![d] = "call"] /\ UNCHANGED todo
        BY <1>21, <2>7 DEF Dispatch, Rest
      <3>3. ASSUME NEW x \in Futures, x # d PROVE ListsOf(x)'
        <4>1. /\ ListsOf(x) /\ Head(todo[d]) \notin Range(then[x])
              /\ Head(todo[d]) \notin Range(todo[x])
          BY <3>3, <2>4, <2>5 DEF Lists
        <4>2. /\ then'[x] = then[x] /\ todo'[x] = todo[x]
              /\ settle'[x] = settle[x] /\ ready'[x] = ready[x]
          BY <3>3, <1>21, <3>2 DEF Dispatch
        <4>3. \A y \in Futures \ {Head(todo[d])} : task'[y] = task[y] /\ at'[y] = at[y]
          BY <1>21, <3>1 DEF Dispatch
        <4> QED
          BY <3>3, <4>1, <4>2, <4>3, OtherList
      <3>4. ListsOf(d)'
        BY <1>21, <2>1, <2>2, <2>3, <2>4, <2>5, <2>6, <3>1, <3>2 DEF Dispatch, ListsOf, Lists
      <3> QED
        BY <3>3, <3>4 DEF Lists
    <2>8. CASE exec[Head(todo[d])] # "immediate"
      <3>1. task' = [task EXCEPT ![Head(todo[d])] = "queued"]
        BY <1>21, <2>8 DEF Dispatch, Submitted
      <3>2. todo' = [todo EXCEPT ![d] = Tail(todo[d])] /\ UNCHANGED settle
        BY <1>21, <2>8 DEF Dispatch, Rest
      <3>3. ASSUME NEW x \in Futures, x # d PROVE ListsOf(x)'
        <4>1. /\ ListsOf(x) /\ Head(todo[d]) \notin Range(then[x])
              /\ Head(todo[d]) \notin Range(todo[x])
          BY <3>3, <2>4, <2>5 DEF Lists
        <4>2. /\ then'[x] = then[x] /\ todo'[x] = todo[x]
              /\ settle'[x] = settle[x] /\ ready'[x] = ready[x]
          BY <3>3, <1>21, <3>2 DEF Dispatch
        <4>3. \A y \in Futures \ {Head(todo[d])} : task'[y] = task[y] /\ at'[y] = at[y]
          BY <1>21, <3>1 DEF Dispatch
        <4> QED
          BY <3>3, <4>1, <4>2, <4>3, OtherList
      <3>4. ListsOf(d)'
        BY <1>21, <2>1, <2>2, <2>3, <2>4, <2>5, <2>6, <3>1, <3>2 DEF Dispatch, ListsOf, Lists
      <3> QED
        BY <3>3, <3>4 DEF Lists
    <2>9. QED
      BY <2>7, <2>8
  <1>22. ASSUME NEW d \in Futures, DispatchReturn(d) PROVE Lists'
    <2>1. todo[d] \in Seq(Futures) /\ todo[d] # <<>>
      BY <1>22 DEF DispatchReturn
    <2>2. /\ Tail(todo[d]) \in Seq(Futures) /\ OneEach(Tail(todo[d]))
         /\ Range(Tail(todo[d])) \subseteq Range(todo[d]) \ {Head(todo[d])}
      BY <1>22, <2>1, Shortening
    <2>3. ASSUME NEW x \in Futures, x # d PROVE ListsOf(x)'
      BY <2>3, <1>22, <2>1, <2>2 DEF DispatchReturn, Rest
    <2>4. ASSUME NEW x \in Futures, x = d PROVE ListsOf(x)'
      BY <2>4, <1>22, <2>1, <2>2 DEF DispatchReturn, Rest
    <2> HIDE DEF ListsOf
    <2> QED
      BY <2>1, <2>3, <2>4 DEF Lists
  <1>23. ASSUME NEW d \in Futures, Settled(d) PROVE Lists'
    BY <1>23 DEF Settled
  <1>24. CASE UNCHANGED vars
    BY <1>24 DEF vars
  <1>25. QED
    <2> HIDE DEF IInv, TypeOK, Lists, ListsOf, Phases, Blank, Known, Kinds, Callback, Created, Fresh
    <2> QED
      BY <1>1, <1>2, <1>3, <1>4, <1>5, <1>6, <1>7, <1>8, <1>9, <1>10, <1>11, <1>12,
         <1>13, <1>14, <1>15, <1>16, <1>17, <1>18, <1>19, <1>20, <1>21, <1>22, <1>23, <1>24
      DEF Next, Call, Continue, Frame

\* A call in progress owns the continuation it made.
LEMMA CallsStep == IInv /\ [Next]_vars => Calls'
  <1> SUFFICES ASSUME IInv, [Next]_vars PROVE Calls'
    OBVIOUS
  <1> USE DEF IInv, TypeOK, Calls, Phases, Blank, Known, Kinds, Callback, Created, Fresh, NoOp
  <1>1. ASSUME NEW c \in Clients, NEW d \in Fresh, NEW e \in Executors,
                  Async(c, d, e)
           PROVE  Calls'
    BY <1>1 DEF Async
  <1>2. ASSUME NEW c \in Clients, NEW d \in Fresh, NEW r \in Outcomes \cup {"broken"},
                  MakeReady(c, d, r)
           PROVE  Calls'
    BY <1>2 DEF MakeReady
  <1>3. ASSUME NEW c \in Clients, NEW s \in handles[c], NEW d \in Fresh,
                  NEW k \in {"then", "recover", "watch", "detach"},
                  NEW e \in Executors \cup {"immediate"}, NEW consume \in BOOLEAN,
                  Package(c, s, d, k, e, consume)
           PROVE  Calls'
    BY <1>3, FutureAssumption, SMTT(30) DEF Package, FutureAssumption
  <1>4. ASSUME NEW c \in Clients, NEW s \in handles[c], NEW d \in Fresh,
                  Detach(c, s, d)
           PROVE  Calls'
    BY <1>4 DEF Detach, AlreadyReady
  <1>5. ASSUME NEW c \in Clients, NEW s \in handles[c], Release(c, s) PROVE Calls'
    BY <1>5 DEF Release
  <1>6. ASSUME NEW c \in Clients, NEW s \in handles[c], NEW other \in Clients,
                  Share(c, other, s)
           PROVE  Calls'
    BY <1>6 DEF Share
  <1>7. ASSUME NEW c \in Clients, NEW s \in handles[c], Take(c, s) PROVE Calls'
    BY <1>7 DEF Take, MayMove
  <1>8. ASSUME NEW c \in Clients, Attach(c) PROVE Calls'
    <2>1. /\ op[c].s \in Futures /\ op[c].d \in Futures
         /\ task[op[c].d] = "local" /\ at[op[c].d] = op[c].s
      BY <1>8 DEF Attach, Calls
    <2>2. CASE AlreadyReady(op[c].s)
      <3>1. op' = [op EXCEPT ![c] = [op[c] EXCEPT !.pc = "submit"]]
        BY <1>8, <2>2 DEF Attach
      <3>2. UNCHANGED << task, then, handles >>
        BY <1>8, <2>2 DEF Attach
      <3> QED
        BY <1>8, <2>1, <2>2, <3>1, <3>2 DEF Attach
    <2>3. CASE ~AlreadyReady(op[c].s)
      <3>1. then' = [then EXCEPT ![op[c].s] = IF MoveOnly THEN << op[c].d >> ELSE Append(@, op[c].d)]
        BY <1>8, <2>3 DEF Attach
      <3>2. task' = [task EXCEPT ![op[c].d] = "attached"]
        BY <1>8, <2>3 DEF Attach
      <3>3. handles' = [handles EXCEPT ![c] = IF IsFuture(op[c].d) THEN @ \cup {op[c].d} ELSE @]
        BY <1>8, <2>3 DEF Attach
      <3>4. op' = [op EXCEPT ![c] = NoOp]
        BY <1>8, <2>3 DEF Attach
      <3> QED
        BY <1>8, <2>1, <2>3, <3>1, <3>2, <3>3, <3>4 DEF Attach
    <2>4. QED
      BY <2>2, <2>3
  <1>9. ASSUME NEW c \in Clients, Submit(c) PROVE Calls'
    <2>1. op[c].d \in Futures /\ task[op[c].d] = "local"
      BY <1>9 DEF Submit, Calls
    <2>2. CASE exec[op[c].d] = "immediate"
      <3>1. task' = [task EXCEPT ![op[c].d] = "called"]
        BY <1>9, <2>2 DEF Submit, Submitted, Give
      <3>2. op' = [op EXCEPT ![c] = [op[c] EXCEPT !.pc = "call"]] /\ UNCHANGED handles
        BY <1>9, <2>2 DEF Submit, Submitted, Give
      <3> QED
        BY <1>9, <2>1, <2>2, <3>1, <3>2 DEF Submit
    <2>3. CASE exec[op[c].d] # "immediate"
      <3>1. task' = [task EXCEPT ![op[c].d] = "queued"]
        BY <1>9, <2>3 DEF Submit, Submitted, Give
      <3>2. handles' = [handles EXCEPT ![c] = IF IsFuture(op[c].d) THEN @ \cup {op[c].d} ELSE @]
        BY <1>9, <2>3 DEF Submit, Submitted, Give
      <3>3. op' = [op EXCEPT ![c] = NoOp]
        BY <1>9, <2>3 DEF Submit, Submitted, Give
      <3> QED
        BY <1>9, <2>1, <2>3, <3>1, <3>2, <3>3 DEF Submit
    <2>4. QED
      BY <2>2, <2>3
  <1>10. ASSUME NEW c \in Clients, Return(c) PROVE Calls'
    BY <1>10 DEF Return, Give, IsFuture
  <1>11. ASSUME NEW c \in Clients, TakeLocked(c) PROVE Calls'
    BY <1>11 DEF TakeLocked, HandlesLeft
  <1>12. ASSUME NEW d \in Futures, Begin(d) PROVE Calls'
    BY <1>12 DEF Begin
  <1>13. ASSUME NEW d \in Futures, Drop(d) PROVE Calls'
    BY <1>13 DEF Drop, Droppable
  <1>14. ASSUME NEW d \in Futures, Run(d) PROVE Calls'
    BY <1>14 DEF Run
  <1>15. ASSUME NEW d \in Futures, NEW q \in Fresh, NEW h \in Fresh \ {q},
                  RunReducing(d, q, h)
           PROVE  Calls'
    <2>1. q \in Futures /\ h \in Futures /\ q # h
      BY <1>15
    <2>2. task[d] = "spent" /\ settle[d] = "idle" /\ kind[d] # "ready"
      BY <1>15 DEF RunReducing, Phases
    <2>3. d # q /\ d # h
      BY <1>15, <2>2
    <2>4. QED
      BY <1>15, <2>1, <2>2, <2>3, FutureAssumption DEF RunReducing, FutureAssumption
  <1>16. ASSUME NEW d \in Futures, AttachHold(d) PROVE Calls'
    BY <1>16 DEF AttachHold, AlreadyReady, Reductions
  <1>17. ASSUME NEW d \in Futures, Finish(d) PROVE Calls'
    BY <1>17 DEF Finish
  <1>18. ASSUME NEW d \in Futures, RunHold(d) PROVE Calls'
    BY <1>18 DEF RunHold
  <1>19. ASSUME NEW d \in Futures, Relay(d) PROVE Calls'
    BY <1>19 DEF Relay
  <1>20. ASSUME NEW d \in Futures, Publish(d) PROVE Calls'
    BY <1>20 DEF Publish, MovedFrom
  <1>21. ASSUME NEW d \in Futures, Dispatch(d) PROVE Calls'
    <2>1. todo[d] \in Seq(Futures) /\ todo[d] # <<>> /\ OneEach(todo[d])
      BY <1>21 DEF Dispatch, Lists, ListsOf
    <2>2. Head(todo[d]) \in Futures /\ Head(todo[d]) \in Range(todo[d])
      BY <1>21, <2>1, Shortening
    <2>3. task[Head(todo[d])] = "attached" /\ at[Head(todo[d])] = d
      BY <1>21, <2>1, <2>2 DEF Dispatch, Lists, ListsOf
    <2>4. CASE exec[Head(todo[d])] = "immediate"
      <3>1. task' = [task EXCEPT ![Head(todo[d])] = "called"]
        BY <1>21, <2>4 DEF Dispatch, Submitted, Rest
      <3>2. settle' = [settle EXCEPT ![d] = "call"] /\ UNCHANGED todo
        BY <1>21, <2>4 DEF Dispatch, Submitted, Rest
      <3> QED
        BY <1>21, <2>1, <2>2, <2>3, <2>4, <3>1, <3>2 DEF Dispatch
    <2>5. CASE exec[Head(todo[d])] # "immediate"
      <3>1. task' = [task EXCEPT ![Head(todo[d])] = "queued"]
        BY <1>21, <2>5 DEF Dispatch, Submitted, Rest
      <3>2. todo' = [todo EXCEPT ![d] = Tail(todo[d])] /\ UNCHANGED settle
        BY <1>21, <2>5 DEF Dispatch, Submitted, Rest
      <3> QED
        BY <1>21, <2>1, <2>2, <2>3, <2>5, <3>1, <3>2, SMTT(30) DEF Dispatch
    <2>6. QED
      BY <2>4, <2>5
  <1>22. ASSUME NEW d \in Futures, DispatchReturn(d) PROVE Calls'
    BY <1>22 DEF DispatchReturn, Rest
  <1>23. ASSUME NEW d \in Futures, Settled(d) PROVE Calls'
    BY <1>23 DEF Settled
  <1>24. CASE UNCHANGED vars
    BY <1>24 DEF vars
  <1>25. QED
    <2> HIDE DEF IInv, TypeOK, Calls, Phases, Blank, Known, Kinds, Callback, Created, Fresh, NoOp
    <2> QED
      BY <1>1, <1>2, <1>3, <1>4, <1>5, <1>6, <1>7, <1>8, <1>9, <1>10, <1>11, <1>12,
         <1>13, <1>14, <1>15, <1>16, <1>17, <1>18, <1>19, <1>20, <1>21, <1>22, <1>23, <1>24
      DEF Next, Call, Continue, Frame

\* Who submits a continuation has seen its source ready.
LEMMA SourceReadyStep == IInv /\ [Next]_vars => SourceReady'
  <1> SUFFICES ASSUME IInv, [Next]_vars PROVE SourceReady'
    OBVIOUS
  <1> USE DEF IInv, TypeOK, SourceReady, Calls, Phases, Blank, Known, Kinds, Callback, Created, Fresh, NoOp
  <1>1. ASSUME NEW c \in Clients, NEW d \in Fresh, NEW e \in Executors,
                  Async(c, d, e)
           PROVE  SourceReady'
    BY <1>1 DEF Async
  <1>2. ASSUME NEW c \in Clients, NEW d \in Fresh, NEW r \in Outcomes \cup {"broken"},
                  MakeReady(c, d, r)
           PROVE  SourceReady'
    BY <1>2 DEF MakeReady
  <1>3. ASSUME NEW c \in Clients, NEW s \in handles[c], NEW d \in Fresh,
                  NEW k \in {"then", "recover", "watch", "detach"},
                  NEW e \in Executors \cup {"immediate"}, NEW consume \in BOOLEAN,
                  Package(c, s, d, k, e, consume)
           PROVE  SourceReady'
    BY <1>3, FutureAssumption DEF Package, FutureAssumption
  <1>4. ASSUME NEW c \in Clients, NEW s \in handles[c], NEW d \in Fresh,
                  Detach(c, s, d)
           PROVE  SourceReady'
    BY <1>4 DEF Detach, AlreadyReady
  <1>5. ASSUME NEW c \in Clients, NEW s \in handles[c], Release(c, s) PROVE SourceReady'
    BY <1>5 DEF Release
  <1>6. ASSUME NEW c \in Clients, NEW s \in handles[c], NEW other \in Clients,
                  Share(c, other, s)
           PROVE  SourceReady'
    BY <1>6 DEF Share
  <1>7. ASSUME NEW c \in Clients, NEW s \in handles[c], Take(c, s) PROVE SourceReady'
    BY <1>7 DEF Take, MayMove
  <1>8. ASSUME NEW c \in Clients, Attach(c) PROVE SourceReady'
    <2>1. /\ op[c].s \in Futures /\ op[c].d \in Futures
         /\ task[op[c].d] = "local" /\ at[op[c].d] = op[c].s
      BY <1>8 DEF Attach, Calls
    <2>2. CASE AlreadyReady(op[c].s)
      <3>1. op' = [op EXCEPT ![c] = [op[c] EXCEPT !.pc = "submit"]]
        BY <1>8, <2>2 DEF Attach
      <3>2. UNCHANGED << task, then, handles >>
        BY <1>8, <2>2 DEF Attach
      <3> QED
        BY <1>8, <2>1, <2>2, <3>1, <3>2 DEF Attach, AlreadyReady
    <2>3. CASE ~AlreadyReady(op[c].s)
      <3>1. then' = [then EXCEPT ![op[c].s] = IF MoveOnly THEN << op[c].d >> ELSE Append(@, op[c].d)]
        BY <1>8, <2>3 DEF Attach
      <3>2. task' = [task EXCEPT ![op[c].d] = "attached"]
        BY <1>8, <2>3 DEF Attach
      <3>3. handles' = [handles EXCEPT ![c] = IF IsFuture(op[c].d) THEN @ \cup {op[c].d} ELSE @]
        BY <1>8, <2>3 DEF Attach
      <3>4. op' = [op EXCEPT ![c] = NoOp]
        BY <1>8, <2>3 DEF Attach
      <3> QED
        BY <1>8, <2>1, <2>3, <3>1, <3>2, <3>3, <3>4 DEF Attach, AlreadyReady
    <2>4. QED
      BY <2>2, <2>3
  <1>9. ASSUME NEW c \in Clients, Submit(c) PROVE SourceReady'
    <2>1. op[c].d \in Futures /\ task[op[c].d] = "local"
      BY <1>9 DEF Submit, Calls
    <2>2. CASE exec[op[c].d] = "immediate"
      <3>1. task' = [task EXCEPT ![op[c].d] = "called"]
        BY <1>9, <2>2 DEF Submit, Submitted, Give
      <3>2. op' = [op EXCEPT ![c] = [op[c] EXCEPT !.pc = "call"]] /\ UNCHANGED handles
        BY <1>9, <2>2 DEF Submit, Submitted, Give
      <3> QED
        BY <1>9, <2>1, <2>2, <3>1, <3>2 DEF Submit
    <2>3. CASE exec[op[c].d] # "immediate"
      <3>1. task' = [task EXCEPT ![op[c].d] = "queued"]
        BY <1>9, <2>3 DEF Submit, Submitted, Give
      <3>2. handles' = [handles EXCEPT ![c] = IF IsFuture(op[c].d) THEN @ \cup {op[c].d} ELSE @]
        BY <1>9, <2>3 DEF Submit, Submitted, Give
      <3>3. op' = [op EXCEPT ![c] = NoOp]
        BY <1>9, <2>3 DEF Submit, Submitted, Give
      <3> QED
        BY <1>9, <2>1, <2>3, <3>1, <3>2, <3>3 DEF Submit
    <2>4. QED
      BY <2>2, <2>3
  <1>10. ASSUME NEW c \in Clients, Return(c) PROVE SourceReady'
    BY <1>10 DEF Return, Give, IsFuture
  <1>11. ASSUME NEW c \in Clients, TakeLocked(c) PROVE SourceReady'
    BY <1>11 DEF TakeLocked, HandlesLeft
  <1>12. ASSUME NEW d \in Futures, Begin(d) PROVE SourceReady'
    BY <1>12 DEF Begin
  <1>13. ASSUME NEW d \in Futures, Drop(d) PROVE SourceReady'
    BY <1>13 DEF Drop, Droppable
  <1>14. ASSUME NEW d \in Futures, Run(d) PROVE SourceReady'
    BY <1>14 DEF Run
  <1>15. ASSUME NEW d \in Futures, NEW q \in Fresh, NEW h \in Fresh \ {q},
                  RunReducing(d, q, h)
           PROVE  SourceReady'
    <2>1. q \in Futures /\ h \in Futures /\ q # h
      BY <1>15
    <2>2. task[d] = "spent" /\ settle[d] = "idle" /\ kind[d] # "ready"
      BY <1>15 DEF RunReducing, Phases
    <2>3. d # q /\ d # h
      BY <1>15, <2>2
    <2>4. QED
      BY <1>15, <2>1, <2>2, <2>3, FutureAssumption DEF RunReducing, FutureAssumption
  <1>16. ASSUME NEW d \in Futures, AttachHold(d) PROVE SourceReady'
    BY <1>16 DEF AttachHold, AlreadyReady, Reductions
  <1>17. ASSUME NEW d \in Futures, Finish(d) PROVE SourceReady'
    BY <1>17 DEF Finish
  <1>18. ASSUME NEW d \in Futures, RunHold(d) PROVE SourceReady'
    BY <1>18 DEF RunHold
  <1>19. ASSUME NEW d \in Futures, Relay(d) PROVE SourceReady'
    BY <1>19 DEF Relay
  <1>20. ASSUME NEW d \in Futures, Publish(d) PROVE SourceReady'
    BY <1>20 DEF Publish, MovedFrom
  <1>21. ASSUME NEW d \in Futures, Dispatch(d) PROVE SourceReady'
    <2>1. todo[d] \in Seq(Futures) /\ todo[d] # <<>> /\ OneEach(todo[d])
      BY <1>21 DEF Dispatch, Lists, ListsOf
    <2>2. Head(todo[d]) \in Futures /\ Head(todo[d]) \in Range(todo[d])
      BY <1>21, <2>1, Shortening
    <2>3. task[Head(todo[d])] = "attached" /\ at[Head(todo[d])] = d
      BY <1>21, <2>1, <2>2 DEF Dispatch, Lists, ListsOf
    <2>4. CASE exec[Head(todo[d])] = "immediate"
      <3>1. task' = [task EXCEPT ![Head(todo[d])] = "called"]
        BY <1>21, <2>4 DEF Dispatch, Submitted, Rest
      <3>2. settle' = [settle EXCEPT ![d] = "call"] /\ UNCHANGED todo
        BY <1>21, <2>4 DEF Dispatch, Submitted, Rest
      <3> QED
        BY <1>21, <2>1, <2>2, <2>3, <2>4, <3>1, <3>2 DEF Dispatch
    <2>5. CASE exec[Head(todo[d])] # "immediate"
      <3>1. task' = [task EXCEPT ![Head(todo[d])] = "queued"]
        BY <1>21, <2>5 DEF Dispatch, Submitted, Rest
      <3>2. todo' = [todo EXCEPT ![d] = Tail(todo[d])] /\ UNCHANGED settle
        BY <1>21, <2>5 DEF Dispatch, Submitted, Rest
      <3> QED
        BY <1>21, <2>1, <2>2, <2>3, <2>5, <3>1, <3>2 DEF Dispatch
    <2>6. QED
      BY <2>4, <2>5
  <1>22. ASSUME NEW d \in Futures, DispatchReturn(d) PROVE SourceReady'
    BY <1>22 DEF DispatchReturn, Rest
  <1>23. ASSUME NEW d \in Futures, Settled(d) PROVE SourceReady'
    BY <1>23 DEF Settled
  <1>24. CASE UNCHANGED vars
    BY <1>24 DEF vars
  <1>25. QED
    <2> HIDE DEF IInv, TypeOK, SourceReady, Calls, Phases, Blank, Known, Kinds, Callback, Created, Fresh, NoOp
    <2> QED
      BY <1>1, <1>2, <1>3, <1>4, <1>5, <1>6, <1>7, <1>8, <1>9, <1>10, <1>11, <1>12,
         <1>13, <1>14, <1>15, <1>16, <1>17, <1>18, <1>19, <1>20, <1>21, <1>22, <1>23, <1>24
      DEF Next, Call, Continue, Frame

\* Nothing is created yet.
LEMMA InitInv == Init => IInv
  <1> SUFFICES ASSUME Init PROVE IInv
    OBVIOUS
  <1> USE DEF Init
  <1>1. TypeOK
    BY Empty DEF TypeOK, Kinds, OpPc, NoOp
  <1>2. Blank /\ Known
    BY DEF Blank, Known, Created
  <1>3. Phases /\ Reductions
    BY DEF Phases, Reductions
  <1>4. Lists
    BY Empty DEF Lists, ListsOf
  <1>5. Calls /\ SourceReady
    BY DEF Calls, SourceReady, NoOp
  <1> QED
    BY <1>1, <1>2, <1>3, <1>4, <1>5 DEF IInv

\* The parts together.
LEMMA StepInv == IInv /\ [Next]_vars => IInv'
  BY TypeStep, BlankStep, KnownStep, PhasesStep, ReductionsStep, ListsStep, CallsStep,
     SourceReadyStep DEF IInv

\* The inductive invariant holds in every reachable state.
LEMMA Invariant == Spec => []IInv
  BY InitInv, StepInv, PTL DEF Spec

(***************************************************************************)
(* Every variable keeps its type: a continuation taken out of a list, the   *)
(* future a reduction completes and the future a call attaches to are       *)
(* members, never the empty handle.                                         *)
(***************************************************************************)
THEOREM Typing == Spec => []TypeOK
  <1>1. IInv => TypeOK
    BY DEF IInv
  <1> QED
    BY <1>1, Invariant, PTL

(***************************************************************************)
(* A completed future keeps no continuation: recover and the completion     *)
(* decide under one lock who submits it.                                    *)
(***************************************************************************)
THEOREM NoContinuationLost == Spec => []NoneLeftBehind
  <1>1. IInv => NoneLeftBehind
    BY DEF IInv, Lists, ListsOf, NoneLeftBehind
  <1> QED
    BY <1>1, Invariant, PTL

(***************************************************************************)
(* A function runs only when the future it owns is ready, whichever of the  *)
(* attaching thread and the completing one submits it.                      *)
(***************************************************************************)
RunsAfterSource ==
    \A d \in Futures : invoke[d] = "run" /\ src[d] # NoFuture => ready[src[d]]

\* In package's function, the future moved into it is always ready.
THEOREM SourceFirst == Spec => []RunsAfterSource
  <1>1. IInv => RunsAfterSource
    <2> SUFFICES ASSUME IInv, NEW d \in Futures, invoke[d] = "run", src[d] # NoFuture
                 PROVE  ready[src[d]]
      BY DEF RunsAfterSource
    <2>1. task[d] = "spent"
      BY DEF IInv, TypeOK, Phases
    <2>2. src[d] = at[d]
      BY DEF IInv, Known
    <2> QED
      BY <2>1, <2>2 DEF IInv, SourceReady
  <1> QED
    BY <1>1, Invariant, PTL

\* One step of ResultFinal.
Final == \A d \in Futures : ready[d] => ready'[d] /\ result'[d] \in {result[d], "moved"}

\* Each action changes the result of a future that is not ready, or takes a value out.
LEMMA FinalStep == IInv /\ [Next]_vars => Final
  <1> SUFFICES ASSUME IInv, [Next]_vars PROVE Final
    OBVIOUS
  <1> USE DEF IInv, TypeOK, Final, Phases, Blank, Known, Reductions, Fresh, Kinds, Callback
  <1>1. ASSUME NEW c \in Clients, NEW d \in Fresh, NEW e \in Executors,
                  Async(c, d, e)
           PROVE  Final
    BY <1>1 DEF Async
  <1>2. ASSUME NEW c \in Clients, NEW d \in Fresh, NEW r \in Outcomes \cup {"broken"},
                  MakeReady(c, d, r)
           PROVE  Final
    <2>1. d \in Futures /\ ~ready[d]
      BY <1>2
    <2>2. QED
      BY <1>2, <2>1 DEF MakeReady
  <1>3. ASSUME NEW c \in Clients, NEW s \in handles[c], NEW d \in Fresh,
                  NEW k \in {"then", "recover", "watch", "detach"},
                  NEW e \in Executors \cup {"immediate"}, NEW consume \in BOOLEAN,
                  Package(c, s, d, k, e, consume)
           PROVE  Final
    BY <1>3 DEF Package
  <1>4. ASSUME NEW c \in Clients, NEW s \in handles[c], NEW d \in Fresh,
                  Detach(c, s, d)
           PROVE  Final
    BY <1>4 DEF Detach, AlreadyReady
  <1>5. ASSUME NEW c \in Clients, NEW s \in handles[c], Release(c, s) PROVE Final
    BY <1>5 DEF Release
  <1>6. ASSUME NEW c \in Clients, NEW s \in handles[c], NEW other \in Clients,
                  Share(c, other, s)
           PROVE  Final
    BY <1>6 DEF Share
  <1>7. ASSUME NEW c \in Clients, NEW s \in handles[c], Take(c, s) PROVE Final
    BY <1>7 DEF Take, MayMove
  <1>8. ASSUME NEW c \in Clients, Attach(c) PROVE Final
    BY <1>8 DEF Attach
  <1>9. ASSUME NEW c \in Clients, Submit(c) PROVE Final
    BY <1>9 DEF Submit, Give
  <1>10. ASSUME NEW c \in Clients, Return(c) PROVE Final
    BY <1>10 DEF Return, Give, IsFuture
  <1>11. ASSUME NEW c \in Clients, TakeLocked(c) PROVE Final
    <2>1. op[c].s \in Futures
      BY <1>11 DEF TakeLocked, HandlesLeft, Calls
    <2>2. CASE ready[op[c].s]
      <3>1. result' = Extract(op[c].s, op[c].unique)
        BY <1>11, <2>2 DEF TakeLocked, HandlesLeft
      <3>2. handles' = [handles EXCEPT ![c] = IF MoveOnly THEN @ ELSE @ \ {op[c].s}]
        BY <1>11, <2>2 DEF TakeLocked, HandlesLeft
      <3> QED
        BY <1>11, <2>1, <2>2, <3>1, <3>2 DEF TakeLocked, HandlesLeft, Extract
    <2>3. CASE ~ready[op[c].s]
      <3>1. UNCHANGED << result, handles >>
        BY <1>11, <2>3 DEF TakeLocked, HandlesLeft
      <3> QED
        BY <1>11, <2>1, <2>3, <3>1 DEF TakeLocked, HandlesLeft, Extract
    <2>4. QED
      BY <2>2, <2>3
  <1>12. ASSUME NEW d \in Futures, Begin(d) PROVE Final
    BY <1>12 DEF Begin
  <1>13. ASSUME NEW d \in Futures, Drop(d) PROVE Final
    <2>1. task[d] = "queued" /\ ~ready[d]
      BY <1>13 DEF Drop, Droppable
    <2>2. CASE IsCallback(d)
      <3>1. src' = [src EXCEPT ![d] = NoFuture]
        BY <1>13, <2>2 DEF Drop
      <3>2. UNCHANGED << result, invoke, settle >>
        BY <1>13, <2>2 DEF Drop
      <3> QED
        BY <1>13, <2>1, <2>2, <3>1, <3>2 DEF Drop
    <2>3. CASE ~IsCallback(d) /\ Wanted(d)
      <3>1. result' = [result EXCEPT ![d] = "broken"]
        BY <1>13, <2>3 DEF Drop
      <3>2. invoke' = [invoke EXCEPT ![d] = "wait"]
        BY <1>13, <2>3 DEF Drop
      <3>3. settle' = [settle EXCEPT ![d] = "publish"]
        BY <1>13, <2>3 DEF Drop
      <3>4. UNCHANGED src
        BY <1>13, <2>3 DEF Drop
      <3> QED
        BY <1>13, <2>1, <2>3, <3>1, <3>2, <3>3, <3>4 DEF Drop
    <2>4. CASE ~IsCallback(d) /\ ~Wanted(d)
      <3>1. UNCHANGED << result, invoke, settle, src >>
        BY <1>13, <2>4 DEF Drop
      <3> QED
        BY <1>13, <2>1, <2>4, <3>1 DEF Drop
    <2>5. QED
      BY <2>2, <2>3, <2>4
  <1>14. ASSUME NEW d \in Futures, Run(d) PROVE Final
    <2>1. ~ready[d] /\ d \in Futures
      BY <1>14 DEF Run
    <2>2. \A res \in Arguments(d), x \in Futures : res[x] \in {result[x], "moved"}
      BY <1>14 DEF Arguments, Extract
    <2>3. Arguments(d) \subseteq [Futures -> {"none", "value", "error", "broken", "moved"}]
      BY <1>14 DEF Arguments, Extract
    <2>4. QED
      BY <1>14, <2>1, <2>2, <2>3 DEF Run
  <1>15. ASSUME NEW d \in Futures, NEW q \in Fresh, NEW h \in Fresh \ {q},
                  RunReducing(d, q, h)
           PROVE  Final
    <2>1. \A res \in Arguments(d), x \in Futures : res[x] \in {result[x], "moved"}
      BY <1>15 DEF Arguments, Extract
    <2>2. QED
      BY <1>15, <2>1 DEF RunReducing
  <1>16. ASSUME NEW d \in Futures, AttachHold(d) PROVE Final
    BY <1>16 DEF AttachHold, AlreadyReady
  <1>17. ASSUME NEW d \in Futures, Finish(d) PROVE Final
    BY <1>17 DEF Finish
  <1>18. ASSUME NEW d \in Futures, RunHold(d) PROVE Final
    <2>1. ~ready[d] /\ into[d] \in Futures /\ ~ready[into[d]]
      BY <1>18 DEF RunHold
    <2>2. \A res \in Arguments(d), x \in Futures : res[x] \in {result[x], "moved"}
      BY <1>18 DEF Arguments, Extract
    <2>3. Arguments(d) \subseteq [Futures -> {"none", "value", "error", "broken", "moved"}]
      BY <1>18 DEF Arguments, Extract
    <2>4. CASE Wanted(into[d])
      <3>1. \E res \in Arguments(d) : result' = [res EXCEPT ![into[d]] = result[src[d]]]
        BY <1>18, <2>4 DEF RunHold
      <3>2. settle' = [settle EXCEPT ![into[d]] = "publish"]
        BY <1>18, <2>4 DEF RunHold
      <3>3. invoke' = [invoke EXCEPT ![d] = "relay"]
        BY <1>18, <2>4 DEF RunHold
      <3> QED
        BY <1>18, <2>1, <2>2, <2>3, <2>4, <3>1, <3>2, <3>3 DEF RunHold
    <2>5. CASE ~Wanted(into[d])
      <3>1. result' = [result EXCEPT ![d] = "value"]
        BY <1>18, <2>5 DEF RunHold
      <3>2. settle' = [settle EXCEPT ![d] = "publish"]
        BY <1>18, <2>5 DEF RunHold
      <3>3. invoke' = [invoke EXCEPT ![d] = "wait"]
        BY <1>18, <2>5 DEF RunHold
      <3> QED
        BY <1>18, <2>1, <2>2, <2>3, <2>5, <3>1, <3>2, <3>3 DEF RunHold
    <2>6. QED
      BY <2>4, <2>5
  <1>19. ASSUME NEW d \in Futures, Relay(d) PROVE Final
    <2>1. ~ready[d]
      BY <1>19 DEF Relay
    <2>2. QED
      BY <1>19, <2>1 DEF Relay
  <1>20. ASSUME NEW d \in Futures, Publish(d) PROVE Final
    BY <1>20 DEF Publish, MovedFrom
  <1>21. ASSUME NEW d \in Futures, Dispatch(d) PROVE Final
    BY <1>21 DEF Dispatch
  <1>22. ASSUME NEW d \in Futures, DispatchReturn(d) PROVE Final
    BY <1>22 DEF DispatchReturn
  <1>23. ASSUME NEW d \in Futures, Settled(d) PROVE Final
    BY <1>23 DEF Settled
  <1>24. CASE UNCHANGED vars
    BY <1>24 DEF vars
  <1>25. QED
    <2> HIDE DEF IInv, TypeOK, Final, Phases, Blank, Known, Reductions, Fresh, Kinds, Callback
    <2> QED
      BY <1>1, <1>2, <1>3, <1>4, <1>5, <1>6, <1>7, <1>8, <1>9, <1>10, <1>11, <1>12,
         <1>13, <1>14, <1>15, <1>16, <1>17, <1>18, <1>19, <1>20, <1>21, <1>22, <1>23, <1>24
      DEF Next, Call, Continue, Frame

(***************************************************************************)
(* A result is settled once: set_value, _set_exception, the destructor of a *)
(* task and the continuation of a reduction never touch a ready state, and  *)
(* readers only move its value out.                                         *)
(***************************************************************************)
THEOREM ResultSettledOnce == Spec => ResultFinal
  <1>1. IInv /\ [Next]_vars
          => [\A d \in Futures : ready[d] => ready'[d] /\ result'[d] \in {result[d], "moved"}]_vars
    BY FinalStep DEF Final
  <1> QED
    BY <1>1, Invariant, PTL DEF Spec, ResultFinal

(***************************************************************************)
(* A continuation is submitted once and not before its source is ready: by *)
(* the thread that attached it when it found the source ready under the    *)
(* lock, or by the one that completed the source, from the list it moved   *)
(* out under that lock.                                                    *)
(***************************************************************************)
THEOREM SubmittedOnceReady == Spec => SubmittedOnce
  <1> DEFINE Submits == \A d \in Futures : task'[d] \in {"queued", "called"} /\ task'[d] # task[d] =>
                            /\ task[d] \in {"none", "local", "attached"}
                            /\ at'[d] # NoFuture => ready[at'[d]]
  <1>1. IInv /\ [Next]_vars => Submits
    <2> SUFFICES ASSUME IInv, [Next]_vars PROVE Submits
      OBVIOUS
    <2> DEFINE Fit(x) == task[x] \in {"local", "attached"} /\ (at[x] # NoFuture => ready[at[x]])
               Idle1  == \A x \in Futures : task'[x] \in {"queued", "called"} => task'[x] = task[x]
               One    == \E x \in Futures : /\ Fit(x) /\ at' = at
                                             /\ \E p : task' = [task EXCEPT ![x] = p]
    <2>1. task \in [Futures -> {"none", "local", "attached", "queued", "called", "spent"}]
      BY DEF IInv, TypeOK
    <2>2. One => Submits
      BY <2>1
    <2>3. Idle1 => Submits
      OBVIOUS
    <2>4. ASSUME NEW c \in Clients, Call(c) PROVE Idle1
      <3>1. CASE \E d \in Fresh, p \in {"local", "spent", "attached"} : task' = [task EXCEPT ![d] = p]
        BY <2>1, <3>1 DEF Fresh
      <3>2. CASE UNCHANGED task
        BY <3>2
      <3>3. ASSUME NEW d \in Fresh, NEW e \in Executors, Async(c, d, e) PROVE Idle1
        BY <3>1, <3>3 DEF Async
      <3>4. ASSUME NEW d \in Fresh, NEW r, MakeReady(c, d, r) PROVE Idle1
        BY <3>1, <3>4 DEF MakeReady
      <3>5. ASSUME NEW d \in Fresh, NEW s, NEW k, NEW e, NEW consume, Package(c, s, d, k, e, consume)
            PROVE  Idle1
        BY <3>1, <3>5 DEF Package
      <3>6. ASSUME NEW d \in Fresh, NEW s, Detach(c, s, d) PROVE Idle1
        BY <3>1, <3>6 DEF Detach
      <3>7. ASSUME NEW s, NEW other, Release(c, s) \/ Share(c, other, s) \/ Take(c, s) PROVE Idle1
        BY <3>2, <3>7 DEF Release, Share, Take, MayMove
      <3> QED BY <2>4, <3>3, <3>4, <3>5, <3>6, <3>7 DEF Call
    <2>5. ASSUME NEW c \in Clients, Attach(c) \/ Return(c) \/ TakeLocked(c) PROVE Idle1
      BY <2>1, <2>5 DEF Attach, Return, TakeLocked, HandlesLeft
    <2>6. ASSUME NEW c \in Clients, Submit(c) PROVE One
      <3>1. op[c].d \in Futures /\ task[op[c].d] = "local"
        BY <2>6 DEF Submit, IInv, Calls
      <3>2. at[op[c].d] # NoFuture => ready[at[op[c].d]]
        BY <2>6 DEF Submit, IInv, SourceReady
      <3> QED BY <2>6, <3>1, <3>2 DEF Submit
    <2>7. ASSUME NEW d \in Futures, Begin(d) \/ Drop(d) \/ Run(d) \/ Finish(d) \/ RunHold(d) \/ Relay(d)
                                     \/ Publish(d) \/ DispatchReturn(d) \/ Settled(d)
          PROVE  Idle1
      BY <2>1, <2>7 DEF Begin, Drop, Run, Finish, RunHold, Relay, Publish, DispatchReturn, Settled
    <2>8. ASSUME NEW d \in Futures, NEW q \in Fresh, NEW h \in Fresh \ {q}, RunReducing(d, q, h)
          PROVE  Submits
      <3>1. /\ task' = [task EXCEPT ![q] = "queued", ![h] = "local"]
            /\ at' = [at EXCEPT ![h] = q] /\ q \in Futures /\ h \in Futures /\ h # q
            /\ kind[q] = "none"
        BY <2>8 DEF RunReducing, Fresh
      <3>2. task[q] = "none" /\ at[q] = NoFuture /\ at \in [Futures -> Futures \cup {NoFuture}]
        BY <3>1 DEF IInv, Blank, TypeOK
      <3> QED BY <2>1, <3>1, <3>2
    <2>9. ASSUME NEW d \in Futures, AttachHold(d) PROVE One \/ Idle1
      <3>1. hold[d] \in Futures /\ task[hold[d]] = "local"
        BY <2>9 DEF AttachHold, IInv, Reductions
      <3>2. CASE ready[at[hold[d]]]
        BY <2>9, <3>1, <3>2 DEF AttachHold, AlreadyReady
      <3>3. CASE ~ready[at[hold[d]]]
        <4>1. task' = [task EXCEPT ![hold[d]] = "attached"]
          BY <2>9, <3>3 DEF AttachHold, AlreadyReady
        <4> QED BY <2>1, <3>1, <4>1
      <3> QED BY <3>2, <3>3
    <2>10. ASSUME NEW d \in Futures, Dispatch(d) PROVE One
      <3>1. todo[d] # <<>> /\ settle[d] = "dispatch" /\ todo[d] \in Seq(Futures)
        BY <2>10 DEF Dispatch, IInv, TypeOK
      <3>2. PICK e : e = Head(todo[d])
        OBVIOUS
      <3>3. e \in Range(todo[d])
        <4>1. 1 \in DOMAIN todo[d] /\ e = todo[d][1]
          BY <3>1, <3>2
        <4> QED BY <4>1 DEF Range
      <3>4. e \in Futures /\ at[e] = d /\ task[e] = "attached"
        BY <3>1, <3>3 DEF IInv, Lists, ListsOf
      <3>5. ready[d]
        BY <3>1 DEF IInv, Phases
      <3> QED BY <2>10, <3>2, <3>4, <3>5 DEF Dispatch
    <2>11. UNCHANGED vars => Idle1
      BY DEF vars
    <2> HIDE DEF Submits, One, Idle1
    <2>12. ASSUME NEW c \in Clients, Continue(c) PROVE One \/ Idle1
      BY <2>5, <2>6, <2>12 DEF Continue
    <2>13. ASSUME NEW d \in Futures, Frame(d) PROVE Submits
      BY <2>2, <2>3, <2>7, <2>8, <2>9, <2>10, <2>13 DEF Frame
    <2> QED BY <2>2, <2>3, <2>4, <2>7, <2>11, <2>12, <2>13 DEF Next
  <1>2. IInv /\ [Next]_vars => [Submits]_vars
    BY <1>1
  <1> QED BY <1>2, Invariant, PTL DEF Spec, SubmittedOnce
=============================================================================
