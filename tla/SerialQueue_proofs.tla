------------------------- MODULE SerialQueue_proofs -------------------------
(***************************************************************************)
(* Proofs about SerialQueue for any number of producers, workers and tasks *)
(* and for both schedule modes.  The inductive invariant says where the    *)
(* one drain is, that it is never on its way to an empty queue, and what   *)
(* each worker holds at each point of single and all.                      *)
(***************************************************************************)
EXTENDS SerialQueue, TLAPS, SequenceTheorems

\* The drain is somewhere: owed, kept by the executor, or on a worker.
HasDrain == kicks = 1 \/ owes # {} \/ \E w \in Workers : Busy(w)

\* A drain on its way has something to do: its pop cannot fail.
DrainHasWork ==
    /\ kicks = 1 \/ owes # {} => queue # <<>>
    /\ \A w \in Workers : pc[w] \in {"take", "submit"} => queue # <<>>

\* _running is set while the queue has tasks, and somebody then has the drain.
RunningExact ==
    /\ queue # <<>> => running
    /\ ~lost /\ running => HasDrain

\* What a worker holds at each point.
WorkerHolds ==
    \A w \in Workers :
        /\ current[w] # NoTask <=> pc[w] = "run"
        /\ pc[w] \notin {"next", "run"} => batch[w] = <<>>
        /\ mode = "single" => batch[w] = <<>>

IInv == TypeOK /\ OneDrain /\ DrainHasWork /\ RunningExact /\ WorkerHolds

-----------------------------------------------------------------------------

LEMMA InitInv == Init => IInv
  <1> SUFFICES ASSUME Init PROVE IInv
    OBVIOUS
  <1> USE DEF Init
  <1>1. TypeOK
    BY EmptySeq DEF TypeOK, WorkerPc, Threads
  <1>2. OneDrain /\ DrainHasWork /\ RunningExact
    BY DEF OneDrain, DrainHasWork, RunningExact, HasDrain, Busy
  <1>3. WorkerHolds
    BY DEF WorkerHolds
  <1>4. QED
    BY <1>1, <1>2, <1>3 DEF IInv

LEMMA StepInv == IInv /\ [Next]_vars => IInv'
  <1> SUFFICES ASSUME IInv, [Next]_vars PROVE IInv'
    OBVIOUS
  <1> USE DEF IInv, TypeOK, OneDrain, DrainHasWork, RunningExact, WorkerHolds, WorkerPc,
              HasDrain, Busy, Threads
  <1>1. ASSUME NEW a \in Threads, NEW t \in Tasks, Enqueue(a, t) PROVE IInv'
    BY <1>1 DEF Enqueue, Enqueues, MustKick
  <1>2. ASSUME NEW a \in Threads, Kick(a) PROVE IInv'
    BY <1>2 DEF Kick
  <1>3. ASSUME NEW w \in Workers, Pick(w) PROVE IInv'
    BY <1>3 DEF Pick, Available
  <1>4. ASSUME NEW w \in Workers, TakeOne(w) PROVE IInv'
    BY <1>4, QueueAssumption DEF QueueAssumption, TakeOne, Popped
  <1>5. ASSUME NEW w \in Workers, TakeAll(w) PROVE IInv'
    <2> USE <1>5 DEF TakeAll
    <2>1. TypeOK' /\ OneDrain' /\ DrainHasWork' /\ RunningExact'
      BY EmptySeq
    <2>2. WorkerHolds'
      BY QueueAssumption DEF QueueAssumption
    <2>3. QED
      BY <2>1, <2>2
  <1>6. ASSUME NEW w \in Workers, NextOfBatch(w) PROVE IInv'
    <2> USE <1>6 DEF NextOfBatch, Popped
    <2>1. CASE batch[w] # <<>>
      <3>1. Head(batch[w]) \in Tasks /\ Tail(batch[w]) \in Seq(Tasks)
        BY <2>1, HeadTailProperties
      <3>2. Head(batch[w]) # NoTask
        BY <3>1, QueueAssumption DEF QueueAssumption
      <3>3. TypeOK'
        <4>1. batch' \in [Workers -> Seq(Tasks)]
          BY <2>1, <3>1, ZenonT(60)
        <4>2. current' \in [Workers -> Tasks \cup {NoTask}]
          BY <2>1, <3>1
        <4>3. QED
          BY <2>1, <4>1, <4>2
      <3>4. OneDrain' /\ DrainHasWork' /\ RunningExact'
        <4>1. pc' = [pc EXCEPT ![w] = "run"] /\ Busy(w) /\ Busy(w)'
          BY <2>1
        <4>2. OneDrain'
          BY <4>1
        <4>3. DrainHasWork'
          BY <4>1
        <4>4. RunningExact'
          BY <4>1
        <4>5. QED
          BY <4>2, <4>3, <4>4
      <3>5. WorkerHolds'
        BY <2>1, <3>2
      <3>6. QED
        BY <3>3, <3>4, <3>5
    <2>2. CASE batch[w] = <<>>
      <3>1. pc' = [pc EXCEPT ![w] = "check"] /\ Busy(w) /\ Busy(w)'
        BY <2>2
      <3>2. TypeOK' /\ OneDrain'
        BY <2>2, <3>1
      <3>3. DrainHasWork' /\ WorkerHolds'
        BY <2>2, <3>1
      <3>4. RunningExact'
        BY <2>2, <3>1
      <3>5. QED
        BY <3>2, <3>3, <3>4
    <2>3. QED
      BY <2>1, <2>2
  <1>7. ASSUME NEW w \in Workers, Finish(w) PROVE IInv'
    <2> USE <1>7 DEF Finish
    <2>1. TypeOK' /\ OneDrain' /\ DrainHasWork' /\ RunningExact'
      BY QueueAssumption DEF QueueAssumption
    <2>2. WorkerHolds'
      BY QueueAssumption DEF QueueAssumption
    <2>3. QED
      BY <2>1, <2>2
  <1>8. ASSUME NEW w \in Workers, Check(w) PROVE IInv'
    <2> USE <1>8 DEF Check, IdleRunning
    <2>1. CASE queue = <<>>
      <3>1. kicks = 0 /\ owes = {} /\ \A v \in Workers : Busy(v) => v = w
        OBVIOUS
      <3>2. \A v \in Workers : pc'[v] = "idle"
        BY <2>1, <3>1
      <3>3. TypeOK' /\ OneDrain'
        BY <2>1, <3>1, <3>2
      <3>4. DrainHasWork' /\ RunningExact' /\ WorkerHolds'
        BY <2>1, <3>1, <3>2
      <3>5. QED
        BY <3>3, <3>4
    <2>2. CASE queue # <<>>
      <3>1. pc' = [pc EXCEPT ![w] = "submit"] /\ Busy(w) /\ Busy(w)'
        BY <2>2
      <3>2. TypeOK' /\ OneDrain'
        BY <2>2, <3>1
      <3>3. DrainHasWork' /\ WorkerHolds'
        BY <2>2, <3>1
      <3>4. RunningExact'
        BY <2>2, <3>1
      <3>5. QED
        BY <3>2, <3>3, <3>4
    <2>3. QED
      BY <2>1, <2>2
  <1>9. ASSUME NEW w \in Workers, Resubmit(w) PROVE IInv'
    BY <1>9 DEF Resubmit
  <1>10. CASE Drop
    BY <1>10 DEF Drop
  <1>11. CASE UNCHANGED vars
    BY <1>11 DEF vars
  <1>12. QED
    BY <1>1, <1>2, <1>3, <1>4, <1>5, <1>6, <1>7, <1>8, <1>9, <1>10, <1>11 DEF Next, Work

LEMMA Invariant == Spec => []IInv
  BY InitInv, StepInv, PTL DEF Spec

-----------------------------------------------------------------------------
(* Every value of every variable is one the code can hold there.           *)
THEOREM Typing == Spec => []TypeOK
  BY Invariant, PTL DEF IInv

(* There is never more than one drain, wherever it is.                      *)
THEOREM AtMostOneDrain == Spec => []OneDrain
  BY Invariant, PTL DEF IInv

(* single() never pops an empty queue.                                      *)
THEOREM PopsSucceed == Spec => []PopFindsTask
  <1>1. IInv => PopFindsTask
    BY DEF IInv, DrainHasWork, PopFindsTask
  <1>2. QED
    BY <1>1, Invariant, PTL

(* While the executor keeps what it is given, a queued task has a drain     *)
(* coming for it.                                                           *)
THEOREM NoTaskStranded == Spec => []NoLostWakeup
  <1>1. IInv => NoLostWakeup
    BY DEF IInv, RunningExact, HasDrain, NoLostWakeup
  <1>2. QED
    BY <1>1, Invariant, PTL

-----------------------------------------------------------------------------
(* Refinement.  The tasks waiting are those of the one local queue that has *)
(* any, then those of _queue; the current task is that of the one worker    *)
(* that runs.                                                               *)

LEMMA JoinedNone ==
  ASSUME NEW b, NEW q, \A w \in Workers : b[w] = <<>>
  PROVE  Joined(b, q) = q
  BY DEF Joined

LEMMA JoinedOne ==
  ASSUME NEW b, NEW q \in Seq(Tasks), NEW w \in Workers, b[w] \in Seq(Tasks),
         \A v \in Workers : v # w => b[v] = <<>>
  PROVE  Joined(b, q) = b[w] \o q
  <1>1. CASE b[w] = <<>>
    <2>1. Joined(b, q) = q
      BY <1>1 DEF Joined
    <2>2. QED
      BY <1>1, <2>1, ConcatEmptySeq
  <1>2. CASE b[w] # <<>>
    <2>1. {v \in Workers : b[v] # <<>>} = {w}
      BY <1>2
    <2>2. QED
      BY <2>1 DEF Joined
  <1>3. QED
    BY <1>1, <1>2

LEMMA TaskNone ==
  ASSUME NEW c, \A w \in Workers : c[w] = NoTask
  PROVE  TheTask(c) = NoTask
  BY DEF TheTask

LEMMA TaskOne ==
  ASSUME NEW c, NEW w \in Workers, \A v \in Workers : v # w => c[v] = NoTask
  PROVE  TheTask(c) = c[w]
  <1>1. CASE c[w] = NoTask
    BY <1>1 DEF TheTask
  <1>2. CASE c[w] # NoTask
    <2>1. {v \in Workers : c[v] # NoTask} = {w}
      BY <1>2
    <2>2. QED
      BY <2>1 DEF TheTask
  <1>3. QED
    BY <1>1, <1>2

\* What the queue operations do to a queue behind a batch.
LEMMA AppendBehind ==
  ASSUME NEW b \in Seq(Tasks), NEW q \in Seq(Tasks), NEW t \in Tasks
  PROVE  b \o Append(q, t) = Append(b \o q, t)
  <1>1. Append(q, t) = q \o <<t>> /\ <<t>> \in Seq(Tasks)
    BY AppendIsConcat
  <1>2. Append(b \o q, t) = (b \o q) \o <<t>>
    BY ConcatProperties, AppendIsConcat
  <1>3. QED
    BY <1>1, <1>2, ConcatAssociative

LEMMA TakeFront ==
  ASSUME NEW b \in Seq(Tasks), NEW q \in Seq(Tasks), b # <<>>
  PROVE  /\ b \o q # <<>>
         /\ Head(b \o q) = Head(b)
         /\ Tail(b \o q) = Tail(b) \o q
  <1>1. Tail(b) \in Seq(Tasks) /\ Len(Tail(b)) = Len(b) - 1 /\ Len(b) > 0
    BY HeadTailProperties, EmptySeq
  <1>2. b \o q \in Seq(Tasks) /\ Len(b \o q) = Len(b) + Len(q) /\ b \o q # <<>>
    BY <1>1, ConcatProperties, EmptySeq
  <1>3. Head(b \o q) = Head(b)
    BY <1>1, <1>2, ConcatProperties
  <1> DEFINE l == Tail(b \o q)
             r == Tail(b) \o q
  <1>4. l \in Seq(Tasks) /\ r \in Seq(Tasks) /\ Len(l) = Len(r)
    BY <1>1, <1>2, HeadTailProperties, ConcatProperties
  <1>5. \A i \in 1..Len(l) : l[i] = r[i]
    BY <1>1, <1>2, <1>4, HeadTailProperties, ConcatProperties
  <1>6. l = r
    BY <1>4, <1>5, SeqEqual
  <1>7. QED
    BY <1>2, <1>3, <1>6

LEMMA InitRefines == Init => Executor!Init
  <1> SUFFICES ASSUME Init PROVE Executor!Init
    OBVIOUS
  <1>1. Joined(batch, queue) = <<>>
    BY JoinedNone DEF Init
  <1>2. TheTask(current) = NoTask
    BY TaskNone DEF Init
  <1>3. QED
    BY <1>1, <1>2 DEF Executor!Init

\* On the worker with the drain.
LEMMA Drainer ==
  ASSUME IInv, NEW w \in Workers, Busy(w)
  PROVE  /\ \A v \in Workers : v # w => batch[v] = <<>> /\ current[v] = NoTask
         /\ Joined(batch, queue) = batch[w] \o queue
         /\ TheTask(current) = current[w]
  <1>1. \A v \in Workers : v # w => pc[v] = "idle"
    BY DEF IInv, OneDrain, Busy
  <1>2. \A v \in Workers : v # w => batch[v] = <<>> /\ current[v] = NoTask
    BY <1>1 DEF IInv, WorkerHolds
  <1>3. batch[w] \in Seq(Tasks) /\ queue \in Seq(Tasks)
    BY DEF IInv, TypeOK
  <1>4. QED
    BY <1>2, <1>3, JoinedOne, TaskOne

LEMMA StepRefines == IInv /\ IInv' /\ [Next]_vars => [Executor!Next]_(Executor!svars)
  <1> SUFFICES ASSUME IInv, IInv', [Next]_vars
               PROVE  [Executor!Next]_(Executor!svars)
    OBVIOUS
  <1> DEFINE W == Joined(batch, queue)
             C == TheTask(current)
  <1>t. /\ queue \in Seq(Tasks) /\ queue' \in Seq(Tasks)
        /\ batch \in [Workers -> Seq(Tasks)] /\ batch' \in [Workers -> Seq(Tasks)]
        /\ current \in [Workers -> Tasks \cup {NoTask}] /\ pc \in [Workers -> WorkerPc]
    BY DEF IInv, TypeOK
  <1>n. NoTask \notin Tasks
    BY QueueAssumption DEF QueueAssumption
  <1>1. ASSUME NEW a \in Threads, NEW t \in Tasks, Enqueue(a, t)
        PROVE  W' = Append(W, t) /\ C' = C
    <2>1. queue' = Append(queue, t) /\ batch' = batch /\ current' = current
      BY <1>1 DEF Enqueue
    <2>2. CASE \A w \in Workers : batch[w] = <<>>
      BY <2>1, <2>2, JoinedNone
    <2>3. CASE \E w \in Workers : batch[w] # <<>>
      <3>1. PICK w \in Workers : batch[w] # <<>>
        BY <2>3
      <3>2. \A v \in Workers : v # w => batch[v] = <<>>
        BY <3>1, Drainer DEF IInv, WorkerHolds, Busy
      <3>3. W = batch[w] \o queue /\ W' = batch[w] \o queue'
        BY <1>t, <2>1, <3>2, JoinedOne
      <3>4. QED
        BY <1>t, <2>1, <3>3, AppendBehind
    <2>4. QED
      BY <2>1, <2>2, <2>3
  <1>2. ASSUME UNCHANGED << queue, batch, current >>
        PROVE  W' = W /\ C' = C
    BY <1>2
  <1>3. ASSUME NEW w \in Workers, TakeOne(w)
        PROVE  C = NoTask /\ W # <<>> /\ C' = Head(W) /\ W' = Tail(W)
    <2>1. Busy(w) /\ batch[w] = <<>> /\ current[w] = NoTask /\ queue # <<>>
      BY <1>3 DEF TakeOne, Busy, IInv, WorkerHolds, DrainHasWork
    <2>2. W = queue /\ C = NoTask
      BY <1>t, <2>1, Drainer, ConcatEmptySeq
    <2>3. queue' = Tail(queue) /\ batch' = batch /\ current' = [current EXCEPT ![w] = Head(queue)]
      BY <1>3 DEF TakeOne, Popped
    <2>4. W' = queue'
      BY <2>1, <2>3, Drainer, JoinedNone
    <2>5. C' = Head(queue)
      <3>1. current'[w] = Head(queue) /\ \A v \in Workers : v # w => current'[v] = NoTask
        BY <1>t, <2>1, <2>3, Drainer
      <3>2. TheTask(current') = current'[w]
        BY <3>1, TaskOne
      <3>3. QED
        BY <3>1, <3>2
    <2>6. QED
      BY <2>1, <2>2, <2>3, <2>4, <2>5
  <1>4. ASSUME NEW w \in Workers, TakeAll(w)
        PROVE  W' = W /\ C' = C
    <2>1. Busy(w) /\ batch[w] = <<>>
      BY <1>4 DEF TakeAll, Busy, IInv, WorkerHolds
    <2>2. W = queue
      BY <1>t, <2>1, Drainer, ConcatEmptySeq
    <2>3. queue' = <<>> /\ batch' = [batch EXCEPT ![w] = queue] /\ current' = current
      BY <1>4 DEF TakeAll
    <2>4. W' = batch'[w] \o queue'
      <3>1. \A v \in Workers : v # w => batch'[v] = <<>>
        BY <1>t, <2>1, <2>3, Drainer
      <3>2. batch'[w] \in Seq(Tasks)
        BY <1>t
      <3>3. Joined(batch', queue') = batch'[w] \o queue'
        BY <1>t, <3>1, <3>2, JoinedOne
      <3>4. QED
        BY <3>3
    <2>5. QED
      BY <1>t, <2>2, <2>3, <2>4, ConcatEmptySeq
  <1>5. ASSUME NEW w \in Workers, NextOfBatch(w), batch[w] # <<>>
        PROVE  C = NoTask /\ W # <<>> /\ C' = Head(W) /\ W' = Tail(W)
    <2>1. Busy(w) /\ current[w] = NoTask
      BY <1>5 DEF NextOfBatch, Busy, IInv, WorkerHolds
    <2>2. W = batch[w] \o queue /\ C = NoTask
      BY <2>1, Drainer
    <2>3. /\ batch' = [batch EXCEPT ![w] = Tail(batch[w])] /\ queue' = queue
          /\ current' = [current EXCEPT ![w] = Head(batch[w])]
      BY <1>5 DEF NextOfBatch, Popped
    <2>4. W' = Tail(batch[w]) \o queue
      <3>1. batch'[w] = Tail(batch[w]) /\ \A v \in Workers : v # w => batch'[v] = <<>>
        BY <1>t, <2>1, <2>3, Drainer
      <3>2. batch'[w] \in Seq(Tasks)
        BY <1>t
      <3>3. Joined(batch', queue') = batch'[w] \o queue'
        BY <1>t, <3>1, <3>2, JoinedOne
      <3>4. QED
        BY <2>3, <3>1, <3>3
    <2>5. C' = Head(batch[w])
      <3>1. current'[w] = Head(batch[w]) /\ \A v \in Workers : v # w => current'[v] = NoTask
        BY <1>t, <2>1, <2>3, Drainer
      <3>2. TheTask(current') = current'[w]
        BY <3>1, TaskOne
      <3>3. QED
        BY <3>1, <3>2
    <2>6. QED
      BY <1>t, <1>5, <2>2, <2>4, <2>5, TakeFront
  <1>6. ASSUME NEW w \in Workers, Finish(w)
        PROVE  C # NoTask /\ C' = NoTask /\ W' = W
    <2>1. Busy(w) /\ current[w] # NoTask
      BY <1>6 DEF Finish, Busy, IInv, WorkerHolds
    <2>2. C = current[w]
      BY <2>1, Drainer
    <2>3. current' = [current EXCEPT ![w] = NoTask] /\ batch' = batch /\ queue' = queue
      BY <1>6 DEF Finish
    <2>4. C' = NoTask
      <3>1. \A v \in Workers : current'[v] = NoTask
        BY <1>t, <2>1, <2>3, Drainer
      <3>2. QED
        BY <3>1, TaskNone
    <2>5. QED
      BY <2>1, <2>2, <2>3, <2>4
  <1> HIDE DEF W, C
  <1>7. QED
    <2> USE DEF Executor!Next, Executor!svars
    <2>1. ASSUME NEW a \in Threads, NEW t \in Tasks, Enqueue(a, t)
          PROVE  [Executor!Next]_(Executor!svars)
      BY <1>1, <2>1 DEF Executor!Give, W, C
    <2>2. ASSUME UNCHANGED << queue, batch, current >>
          PROVE  [Executor!Next]_(Executor!svars)
      BY <1>2, <2>2 DEF W, C
    <2>3. ASSUME NEW w \in Workers, TakeOne(w)
          PROVE  [Executor!Next]_(Executor!svars)
      BY <1>3, <2>3 DEF Executor!Start, W, C
    <2>4. ASSUME NEW w \in Workers, TakeAll(w)
          PROVE  [Executor!Next]_(Executor!svars)
      BY <1>4, <2>4 DEF W, C
    <2>5. ASSUME NEW w \in Workers, NextOfBatch(w)
          PROVE  [Executor!Next]_(Executor!svars)
      <3>1. CASE batch[w] # <<>>
        BY <1>5, <2>5, <3>1 DEF Executor!Start, W, C
      <3>2. CASE batch[w] = <<>>
        BY <2>2, <2>5, <3>2 DEF NextOfBatch
      <3>3. QED
        BY <3>1, <3>2
    <2>6. ASSUME NEW w \in Workers, Finish(w)
          PROVE  [Executor!Next]_(Executor!svars)
      BY <1>6, <2>6 DEF Executor!Stop, W, C
    <2>7. ASSUME NEW a \in Threads, Kick(a)
          PROVE  UNCHANGED << queue, batch, current >>
      BY <2>7 DEF Kick
    <2>8. ASSUME NEW w \in Workers, Pick(w) \/ Check(w) \/ Resubmit(w)
          PROVE  UNCHANGED << queue, batch, current >>
      BY <2>8 DEF Pick, Check, Resubmit
    <2>9. ASSUME Drop PROVE UNCHANGED << queue, batch, current >>
      BY <2>9 DEF Drop
    <2>10. ASSUME UNCHANGED vars PROVE UNCHANGED << queue, batch, current >>
      BY <2>10 DEF vars
    <2>11. QED
      BY <2>1, <2>2, <2>3, <2>4, <2>5, <2>6, <2>7, <2>8, <2>9, <2>10 DEF Next, Work

(* The serial queue implements a serial executor: every step of single, all  *)
(* and enqueue gives, starts or stops a task there, in order and one at a    *)
(* time, or changes nothing there.                                           *)
THEOREM Implementation == Spec => ImplementsSerialExecutor
  <1>1. Spec => Executor!Spec
    BY InitRefines, StepRefines, Invariant, PTL DEF Spec, Executor!Spec
  <1>2. QED
    BY <1>1 DEF ImplementsSerialExecutor
=============================================================================
