----------------------- MODULE ChannelRefinement_proofs -----------------------
(***************************************************************************)
(* Channel keeps the promise of ChannelContract, for every graph in which  *)
(* each buffer has the default size, no process waits for a time and what  *)
(* sends a move-only result has one process downstream.                    *)
(*                                                                         *)
(* On top of the invariant of Channel_proofs, the inductive invariant says *)
(* where the values are: what a queue holds is the end of what its         *)
(* argument was given (Queued); a link has handed on all its upstream has  *)
(* made, up to the value that is being broadcast (Delivering); nothing was *)
(* made before the process was started (Starting); and a process has a     *)
(* sender for each upstream that has not ended (Opening), so that the      *)
(* close, which comes with the last of them, comes after every value.      *)
(***************************************************************************)
EXTENDS Channel_proofs

Last(s) == s[Len(s)]

\* The histories, and what the user's processes collect, are sequences.
Histories ==
    /\ sent = [p \in Procs |-> sent[p]] /\ \A p \in Procs : IsSeq(sent[p])
    /\ put = [p \in Procs |-> put[p]]
    /\ \A p \in Procs : /\ put[p] = [i \in 1..Arity(p) |-> put[p][i]]
                        /\ \A i \in 1..Arity(p) : IsSeq(put[p][i])
    /\ \A p \in Procs : IsSeq(process[p].held)

\* A queue holds the end of what its argument was given.
Ending(s, t) == Len(t) <= Len(s) /\ \A k \in 1..Len(t) : t[k] = s[Len(s) - Len(t) + k]

Queued == \A p \in Procs : \A i \in 1..Arity(p) : Ending(put[p][i], queue[p].items[i])

\* Round-robin has taken one value more of the arguments before the next one.
Turning ==
    \A p \in Procs : Graph[p].strategy = "round_robin" => \A h \in 1..Arity(p) :
        Used(p)[h] = Used(p)[queue[p].index] + (IF h < queue[p].index THEN 1 ELSE 0)

\* A process that yields has something to yield; one that does not keeps less than a batch.
Keeping ==
    /\ \A p \in Procs :
          /\ process[p].yields => process[p].held # << >>
          /\ Graph[p].kind = "process" /\ ~process[p].yields =>
                Len(process[p].held) \in Nat /\ Len(process[p].held) < Graph[p].batch
          /\ delayed[p] > 0 => process[p].yields
    /\ \A w \in Workers :
          Works(w) /\ job[w].pc \in {"done", "finish"} /\ Graph[job[w].p].kind = "process" =>
              ~process[job[w].p].yields

\* What is being broadcast is the last that was made.
Outgoing ==
    \A w \in Workers : Works(w) /\ job[w].pc \in {"suspend", "send"} =>
        sent[job[w].p] # << >> /\ job[w].out = Last(sent[job[w].p])

\* A process with an open receiver has not been started, unless its result is void.
Untouched(u) == u \notin made \/ (open[u] > 0 /\ ~Graph[u].void)

Starting ==
    /\ \A u \in Procs : Untouched(u) =>
          /\ ~running[u] /\ checking[u] = 0 /\ sent[u] = << >>
          /\ \A w \in Workers : Works(w) => job[w].p # u
    /\ \A p \in Procs \ made : \A i \in DOMAIN Up(p) : put[p][i] = << >>

Late(p, i) == Len(Up(p)) > 1 \/ Graph[Up(p)[i]].void

\* Argument i of p has been given what its upstream made up to the n-th value.
UpTo(p, i, n) ==
    LET u == Up(p)[i]
    IN  IF put[p][i] = << >> THEN n = 0 \/ Late(p, i)
        ELSE n > 0 /\ sent[u][n] = Last(put[p][i])

\* The job is still to serve the k-th link of u.
Serves(w, u, k) ==
    Works(w) /\ job[w].p = u /\ job[w].pc \in {"suspend", "send"} /\ job[w].k <= k /\ k <= job[w].n

Reached(u, k) == Len(sent[u]) - (IF \E w \in Workers : Serves(w, u, k) THEN 1 ELSE 0)

Delivering ==
    \A u \in Procs : \A k \in DOMAIN down[u] :
        Alive(down[u][k][1]) => UpTo(down[u][k][1], down[u][k][2], Reached(u, k))

\* The close has gone through u, which has nothing left to do but to pass it on.
Stopped(u) ==
    /\ final[u] /\ delayed[u] = 0
    /\ Graph[u].kind = "process" => ~process[u].yields
    /\ \A w \in Workers : Works(w) /\ job[w].p = u => job[w].pc = "finish"

Ended(p, i) == Stopped(Up(p)[i]) /\ UpTo(p, i, Len(sent[Up(p)[i]]))

Unended(p) == Feeding(p) \cup {i \in DOMAIN Up(p) : ~Ended(p, i)}

Opening == \A p \in made : Up(p) # << >> /\ Alive(p) => Cardinality(Unended(p)) <= senders[p]

HInv == Histories /\ Queued /\ Turning /\ Keeping /\ Outgoing /\ Starting /\ Delivering /\ Opening

-----------------------------------------------------------------------------
(***************************************************************************)
(* The actions of Channel with what the user's code makes.                 *)
(***************************************************************************)
\* A job of p, new or not, is about to broadcast x.
Makes(w, p, x) ==
    /\ Suspends(w, p) /\ job'[w].out = x
    /\ sent' = [sent EXCEPT ![p] = Append(@, x)]

\* The user's code is given a message, or the close.
Applies(w) ==
    LET m == job[w].msg
        p == job[w].p
        Next1 == Goes(w, p, "decide") \/ Goes(w, p, "dequeue")
    IN  /\ Works(w) /\ job[w].pc = "apply"
        /\ \/ /\ m = << >> \/ find_argument_error(m)
              /\ UNCHANGED sent
              /\ \/ /\ UNCHANGED process
                    /\ IF IsFunction(p) THEN (m = << >> /\ Goes(w, p, "done")) \/ (m # << >> /\ Ends(w))
                       ELSE Next1
                 \/ /\ Graph[p].kind = "process" /\ Next1
                    /\ process' = [process EXCEPT ![p] = process_close(p)]
           \/ /\ m # << >> /\ ~find_argument_error(m) /\ Throws(p, m)
              /\ UNCHANGED process /\ Makes(w, p, Error)
           \/ /\ m # << >> /\ ~find_argument_error(m) /\ ~Throws(p, m)
              /\ \/ /\ IsFunction(p) /\ UNCHANGED process /\ Makes(w, p, Result(m))
                 \/ /\ Graph[p].kind = "process" /\ Next1 /\ UNCHANGED sent
                    /\ process' = [process EXCEPT ![p] = await(p, m)]
        /\ UNCHANGED << graphVars, senders, down, flowVars, procVars, delayed, timeouts, timeoutActive >>

\* The process yields, at once or later, or has nothing to yield.
Decides(w) ==
    LET p == job[w].p
    IN  /\ Works(w) /\ job[w].pc = "decide"
        /\ \/ /\ process[p].yields \/ process[p].held # << >>
              /\ process' = [process EXCEPT ![p] = Yielded(p)]
              /\ Makes(w, p, YieldResult(p)) /\ UNCHANGED delayed
           \/ /\ process[p].yields /\ Ends(w) /\ UNCHANGED << process, sent >>
              /\ delayed' = [delayed EXCEPT ![p] = @ + 1]
           \/ ~process[p].yields /\ Goes(w, p, "done") /\ UNCHANGED << process, delayed, sent >>
        /\ UNCHANGED << graphVars, senders, down, flowVars, procVars, timeouts, timeoutActive >>

\* A delayed yield.
Postponed(w, p) ==
    /\ ~Works(w) /\ delayed[p] > 0 /\ Alive(p)
    /\ delayed' = [delayed EXCEPT ![p] = @ - 1]
    /\ \/ ~process[p].live /\ UNCHANGED << process, job, sent >>
       \/ process' = [process EXCEPT ![p] = Yielded(p)] /\ Makes(w, p, YieldResult(p))
    /\ UNCHANGED << graphVars, senders, down, flowVars, procVars, timeouts, timeoutActive >>

\* The user's code runs.
Codes(w) == Applies(w) \/ Decides(w) \/ \E p \in Procs : Postponed(w, p)

Plays(w) ==
    \/ Skips(w) \/ Looks(w) \/ Rereads(w) \/ Releases(w) \/ Suspended(w) \/ Sends(w) \/ Rests(w)
    \/ Closes(w) \/ Finishes(w) \/ Reads(w) \/ Codes(w)
    \/ \E p \in Procs : Starts(w, p)

LEMMA ToMake ==
    ASSUME Shape, NEW w \in Workers, NEW j, IsJob(j), NEW out, broadcast(w, j, out)
    PROVE  Makes(w, j.p, out)
  <1> DEFINE r == LookDownstream(j, out)
  <1>1. Continue(w, r) /\ sent' = [sent EXCEPT ![j.p] = Append(@, out)]
    BY DEF broadcast
  <1>2. Suspends(w, j.p)
    BY <1>1, ToSuspend
  <1>3. IsJob(r)
    BY BroadcastFields DEF Shape
  <1>4. r.out = out
    BY DEF LookDownstream, IsJob
  <1> HIDE DEF r
  <1>5. job'[w] = r
    BY <1>1, <1>3, Continues
  <1> QED BY <1>1, <1>2, <1>4, <1>5 DEF Makes

\* What the process keeps after await and after yield.
LEMMA Awaited ==
    ASSUME Shape, NEW p \in Procs
    PROVE  /\ \A m : /\ await(p, m).held = Append(process[p].held, Result(m))
                    /\ await(p, m).yields = (Len(Append(process[p].held, Result(m))) >= Graph[p].batch)
           /\ LET rest == IF process[p].held = << >> THEN << >> ELSE Tail(process[p].held)
              IN  Yielded(p).held = rest /\ Yielded(p).yields = (rest # << >>)
  <1>1. IsProcess(process[p])
    BY DEF Shape
  <1>2. ASSUME NEW held, NEW b \in BOOLEAN
        PROVE  WithBatch(process[p], held, b).held = held /\ WithBatch(process[p], held, b).yields = b
    BY <1>1, Collecting
  <1>3. ASSUME NEW m
        PROVE  /\ await(p, m).held = Append(process[p].held, Result(m))
               /\ await(p, m).yields = (Len(Append(process[p].held, Result(m))) >= Graph[p].batch)
    <2> DEFINE held == Append(process[p].held, Result(m))
               b == Len(held) >= Graph[p].batch
    <2>1. await(p, m) = WithBatch(process[p], held, b)
      BY DEF await, WithBatch
    <2>2. b \in BOOLEAN
      OBVIOUS
    <2> HIDE DEF held, b
    <2>3. await(p, m).held = held /\ await(p, m).yields = b
      BY <1>2, <2>1, <2>2
    <2> QED BY <2>3 DEF held, b
  <1> DEFINE rest == IF process[p].held = << >> THEN << >> ELSE Tail(process[p].held)
  <1>4. Yielded(p).held = rest /\ Yielded(p).yields = (rest # << >>)
    <2> DEFINE b == rest # << >>
    <2>1. Yielded(p) = WithBatch(process[p], rest, b)
      BY DEF Yielded, WithBatch
    <2>2. b \in BOOLEAN
      OBVIOUS
    <2> HIDE DEF rest, b
    <2>3. Yielded(p).held = rest /\ Yielded(p).yields = b
      BY <1>2, <2>1, <2>2
    <2> QED BY <2>3 DEF b
  <1> QED BY <1>3, <1>4

LEMMA PlayApplies ==
    ASSUME Shape, Jobs, NEW w \in Workers, ApplyFunction(w) \/ ApplyProcess(w)
    PROVE  Applies(w)
  <1> DEFINE j == job[w]
             p == j.p
             m == j.msg
             Rest == UNCHANGED << graphVars, senders, down, flowVars, procVars, delayed, timeouts,
                                  timeoutActive >>
             Next1 == Goes(w, p, "decide") \/ Goes(w, p, "dequeue")
  <1>1. Works(w) /\ IsJob(j) /\ j.pc = "apply" /\ p \in Procs
    BY JobAt DEF ApplyFunction, ApplyProcess
  <1>2. ASSUME ApplyFunction(w) PROVE Applies(w)
    <2>1. Rest /\ UNCHANGED process /\ IsFunction(p)
      BY <1>2 DEF ApplyFunction, userVars
    <2>2. CASE m # << >> /\ ~find_argument_error(m)
      <3> DEFINE out == IF Throws(p, m) THEN Error ELSE Result(m)
      <3>1. broadcast(w, j, out)
        BY <1>2, <2>2 DEF ApplyFunction
      <3> HIDE DEF out
      <3>2. Makes(w, p, out)
        BY <1>1, <3>1, ToMake
      <3> QED BY <1>1, <2>1, <2>2, <3>2 DEF Applies, out
    <2>3. CASE m = << >>
      <3>1. Continue(w, After(j, << >>, "done")) /\ UNCHANGED sent
        BY <1>2, <2>3 DEF ApplyFunction
      <3>2. Goes(w, p, "done")
        BY <1>1, <3>1, ToGo
      <3> QED BY <1>1, <2>1, <2>3, <3>1, <3>2 DEF Applies
    <2>4. CASE m # << >> /\ find_argument_error(m)
      <3>1. Continue(w, After(j, << >>, "end")) /\ UNCHANGED sent
        BY <1>2, <2>4 DEF ApplyFunction
      <3>2. Ends(w)
        BY <1>1, <3>1, ToEnd
      <3> QED BY <1>1, <2>1, <2>4, <3>1, <3>2 DEF Applies
    <2> QED BY <2>2, <2>3, <2>4
  <1>3. ASSUME ApplyProcess(w) PROVE Applies(w)
    <2>1. Rest /\ Graph[p].kind = "process" /\ ~IsFunction(p)
      BY <1>3 DEF ApplyProcess, IsFunction
    <2>2. CASE m # << >> /\ ~find_argument_error(m) /\ Throws(p, m)
      <3>1. broadcast(w, j, Error) /\ UNCHANGED process
        BY <1>3, <2>2 DEF ApplyProcess
      <3>2. Makes(w, p, Error)
        BY <1>1, <3>1, ToMake
      <3> QED BY <1>1, <2>1, <2>2, <3>1, <3>2 DEF Applies
    <2>3. CASE ~(m # << >> /\ ~find_argument_error(m) /\ Throws(p, m))
      <3> DEFINE q == IF m = << >> THEN process_close(p)
                      ELSE IF ~find_argument_error(m) THEN await(p, m)
                      ELSE IF Graph[p].setsError THEN process[p] ELSE process_close(p)
      <3>0. PICK yields \in States(q) :
              Continue(w, After(j, << >>, IF m = << >> \/ yields THEN "decide" ELSE "dequeue"))
        BY <1>3, <2>3 DEF ApplyProcess
      <3> DEFINE next == IF m = << >> \/ yields THEN "decide" ELSE "dequeue"
      <3>1. /\ process' = [process EXCEPT ![p] = q] /\ UNCHANGED sent
            /\ Continue(w, After(j, << >>, next))
        BY <1>3, <2>3, <3>0 DEF ApplyProcess
      <3>2. next = "decide" \/ next = "dequeue"
        OBVIOUS
      <3> HIDE DEF next
      <3>3. Next1
        BY <1>1, <3>1, <3>2, ToGo
      <3>4. [process EXCEPT ![p] = process[p]] = process
        BY <1>1 DEF Shape
      <3>5. CASE m = << >>
        <4>1. process' = [process EXCEPT ![p] = process_close(p)]
          BY <3>1, <3>5
        <4> QED BY <1>1, <2>1, <3>1, <3>3, <3>5, <4>1 DEF Applies
      <3>6. CASE m # << >> /\ find_argument_error(m)
        <4>1. UNCHANGED process \/ process' = [process EXCEPT ![p] = process_close(p)]
          BY <3>1, <3>4, <3>6
        <4> QED BY <1>1, <2>1, <3>1, <3>3, <3>6, <4>1 DEF Applies
      <3>7. CASE m # << >> /\ ~find_argument_error(m)
        <4>1. process' = [process EXCEPT ![p] = await(p, m)] /\ ~Throws(p, m)
          BY <2>3, <3>1, <3>7
        <4> QED BY <1>1, <2>1, <3>1, <3>3, <3>7, <4>1 DEF Applies
      <3> QED BY <3>5, <3>6, <3>7
    <2> QED BY <2>2, <2>3
  <1> QED BY <1>2, <1>3

LEMMA PlayDecides ==
    ASSUME Plain, Shape, Jobs, Lively, NEW w \in Workers, Decide(w)
    PROVE  Decides(w)
  <1> DEFINE j == job[w]
             p == j.p
  <1>1. Works(w) /\ IsJob(j) /\ j.pc = "decide" /\ p \in Procs
    BY JobAt DEF Decide
  <1>2. UNCHANGED << graphVars, senders, down, flowVars, procVars, timeouts, timeoutActive >>
    BY <1>1 DEF Decide, YieldNow, Plain, userVars
  <1>3. ASSUME YieldNow(w, p, j), process[p].yields \/ process[p].held # << >> PROVE Decides(w)
    <2>1. process' = [process EXCEPT ![p] = Yielded(p)] /\ UNCHANGED delayed
          /\ broadcast(w, j, YieldResult(p))
      BY <1>3 DEF YieldNow
    <2>2. Makes(w, p, YieldResult(p))
      BY <1>1, <2>1, ToMake
    <2> QED BY <1>1, <1>2, <1>3, <2>1, <2>2 DEF Decides
  <1>4. ASSUME process[p].yields, delayed' = [delayed EXCEPT ![p] = @ + 1],
               Continue(w, After(j, << >>, "end")), UNCHANGED << process, sent >>
        PROVE  Decides(w)
    <2>1. Ends(w)
      BY <1>1, <1>4, ToEnd
    <2> QED BY <1>1, <1>2, <1>4, <2>1 DEF Decides
  <1>5. ASSUME ~process[p].yields, Continue(w, After(j, << >>, "done")),
               UNCHANGED << process, delayed, sent >>
        PROVE  Decides(w)
    <2>1. Goes(w, p, "done")
      BY <1>1, <1>5, ToGo
    <2> QED BY <1>1, <1>2, <1>5, <2>1 DEF Decides
  <1>6. Graph[p].wait # "timed" /\ States(process[p]) = {process[p].yields}
    BY <1>1 DEF Plain, Lively, States
  <1> QED BY <1>3, <1>4, <1>5, <1>6 DEF Decide, userVars

LEMMA PlayPostponed ==
    ASSUME Shape, NEW w \in Workers, NEW p \in Procs, RunDelayed(w, p)
    PROVE  Postponed(w, p)
  <1>1. /\ ~Works(w) /\ delayed[p] > 0 /\ Alive(p)
        /\ delayed' = [delayed EXCEPT ![p] = @ - 1]
        /\ UNCHANGED << graphVars, senders, down, flowVars, procVars, timeouts, timeoutActive >>
    BY DEF RunDelayed, Works
  <1>2. CASE process[p].live
    <2> DEFINE j == NewJob(p, "suspend", FALSE)
    <2>1. process' = [process EXCEPT ![p] = Yielded(p)] /\ broadcast(w, j, YieldResult(p))
      BY <1>2 DEF RunDelayed
    <2>2. IsJob(j) /\ j.p = p
      BY NewJobFields
    <2> HIDE DEF j
    <2>3. Makes(w, p, YieldResult(p))
      BY <2>1, <2>2, ToMake
    <2> QED BY <1>1, <2>1, <2>3 DEF Postponed
  <1>3. CASE ~process[p].live
    BY <1>1, <1>3 DEF RunDelayed, Postponed
  <1> QED BY <1>2, <1>3

\* Every step is one of the user, of a job, or of closures that have expired.
LEMMA Played ==
    ASSUME Plain, CInv, [Next]_vars
    PROVE  \/ UserNext
           \/ \E w \in Workers : Plays(w) /\ Runs(w)
           \/ \E p \in Procs : Expires(p)
           \/ UNCHANGED vars
  <1> USE DEF CInv
  <1>1. ASSUME NEW w \in Workers, JobNext(w) PROVE Plays(w) /\ Runs(w)
    <2>1. ~EndTimeout(w)
      BY JobAt DEF EndTimeout, Clearing
    <2>2. ASSUME CtsCheck(w) \/ CtsState(w) \/ CtsRelease(w) \/ LookExpired(w) \/ SuspendProcess(w)
                 \/ SendDown(w) \/ TaskDone(w) \/ ClearDownstream(w) \/ Dequeue(w)
          PROVE  Plays(w) /\ Runs(w)
      <3>1. Runs(w)
        BY <2>2, FlatClearing, FlatSending, FlatEnding, FlatReading
      <3>2. Works(w) /\ job[w].pc \notin {"apply", "decide"}
        <4>0. ASSUME NEW pc, At(w, pc), pc \notin {"idle", "apply", "decide"}
              PROVE  Works(w) /\ job[w].pc \notin {"apply", "decide"}
          BY <4>0, JobAt
        <4>1. CASE CtsCheck(w)
          BY <4>0, <4>1 DEF CtsCheck
        <4>2. CASE CtsState(w)
          BY <4>0, <4>2 DEF CtsState
        <4>3. CASE CtsRelease(w)
          BY <4>0, <4>3 DEF CtsRelease
        <4>4. CASE LookExpired(w)
          BY <4>0, <4>4 DEF LookExpired
        <4>5. CASE SuspendProcess(w)
          BY <4>0, <4>5 DEF SuspendProcess
        <4>6. CASE SendDown(w)
          BY <4>0, <4>6 DEF SendDown
        <4>7. CASE TaskDone(w)
          BY <4>0, <4>7 DEF TaskDone
        <4>8. CASE ClearDownstream(w)
          BY <4>0, <4>8 DEF ClearDownstream
        <4>9. CASE Dequeue(w)
          BY <4>0, <4>9 DEF Dequeue
        <4> QED BY <2>2, <4>1, <4>2, <4>3, <4>4, <4>5, <4>6, <4>7, <4>8, <4>9
      <3> QED BY <3>1, <3>2 DEF Runs, Plays, Thinks, Delays, Starts
    <2>3. ASSUME ApplyFunction(w) \/ ApplyProcess(w) \/ Decide(w) PROVE Plays(w) /\ Runs(w)
      BY <2>3, PlayApplies, PlayDecides, FlatThinking DEF Plays, Codes, Runs
    <2> QED BY <1>1, <2>1, <2>2, <2>3 DEF JobNext
  <1>2. ASSUME NEW w \in Workers, NEW p \in Procs, StartNext(w, p) PROVE Plays(w) /\ Runs(w)
    <2>1. ~RunTimeout(w, p)
      BY DEF RunTimeout, Shape
    <2>2. ASSUME StepFunction(w, p) \/ StepProcess(w, p) \/ StepSource(w, p) PROVE Plays(w) /\ Runs(w)
      <3>1. Runs(w)
        BY <2>2, FlatStarting
      <3>2. ~Works(w) /\ pending[p] > 0 /\ pending' = [pending EXCEPT ![p] = @ - 1]
        BY <2>2 DEF StepFunction, StepProcess, StepSource, Works
      <3>3. pending' # pending
        BY <3>2 DEF Shape
      <3>4. \A q \in Procs : ~Delays(w, q)
        BY <3>3 DEF Delays, flowVars
      <3>5. ~Thinks(w)
        BY <3>2 DEF Thinks
      <3> QED BY <3>1, <3>4, <3>5 DEF Runs, Plays
    <2>3. ASSUME RunDelayed(w, p) PROVE Plays(w) /\ Runs(w)
      BY <2>3, PlayPostponed, FlatDelayed DEF Plays, Codes
    <2> QED BY <1>2, <2>1, <2>2, <2>3 DEF StartNext
  <1>3. ASSUME NEW p \in Procs, ExpiredClosure(p) PROVE Expires(p)
    <2>1. [timeouts EXCEPT ![p] = 0] = timeouts
      BY DEF Shape
    <2> QED BY <1>3, <2>1 DEF ExpiredClosure, Expires
  <1> QED BY <1>1, <1>2, <1>3 DEF Next

-----------------------------------------------------------------------------
(***************************************************************************)
(* What the queues hold.                                                   *)
(***************************************************************************)
\* p is given m as its argument i, or takes a message.
Gives(p, i, m) ==
    /\ queue' = [queue EXCEPT ![p] = AppendTo(@, i, m)]
    /\ put' = [put EXCEPT ![p][i] = Append(@, m)]

Pops(p) ==
    /\ ~Empty(Graph[p].strategy, queue[p]) /\ UNCHANGED put
    /\ queue' = [queue EXCEPT ![p] = PopFront(Graph[p].strategy, queue[p])]

LEMMA GivesSending ==
    ASSUME Shape, Built, Jobs, NEW w \in Workers, Sends(w)
    PROVE  LET d == down[job[w].p][job[w].k]
           IN  /\ d[1] \in Procs /\ d[1] \in made /\ d[2] \in 1..Arity(d[1])
               /\ Alive(d[1]) => Gives(d[1], d[2], job[w].out)
               /\ ~Alive(d[1]) => UNCHANGED << queue, put >>
  <1> DEFINE d == down[job[w].p][job[w].k]
  <1>1. d[1] \in made /\ d[2] \in DOMAIN Up(d[1])
    BY Sending
  <1>2. d[1] \in Procs /\ d[2] \in 1..Arity(d[1])
    BY <1>1, Nodes DEF Shape
  <1>3. send(d[1], d[2], job[w].out)
    BY DEF Sends
  <1> QED BY <1>1, <1>2, <1>3 DEF send, enqueue, Gives, flowVars

LEMMA GivesUser ==
    ASSUME Shape, Built, NEW p \in Procs, Send(p)
    PROVE  /\ p \in made /\ Up(p) = << >> /\ Arity(p) = 1
           /\ Alive(p) => Gives(p, 1, << p, Len(put[p][1]) + 1 >>)
           /\ ~Alive(p) => UNCHANGED << queue, put >>
  <1>1. handles[p] > 0
    BY DEF Send
  <1>2. p \in made /\ Up(p) = << >>
    BY <1>1 DEF Built, Shape
  <1>3. Arity(p) = 1
    BY <1>2 DEF Arity, Heads
  <1> QED BY <1>2, <1>3 DEF Send, send, enqueue, Gives, flowVars

LEMMA Flow ==
    ASSUME Plain, CInv, [Next]_vars
    PROVE  \/ UNCHANGED << queue, put >>
           \/ \E p \in Procs : p \in made /\ \E i \in 1..Arity(p) : \E m : Gives(p, i, m)
           \/ \E p \in Procs : Pops(p)
  <1> USE DEF CInv
  <1> DEFINE Kept == UNCHANGED << queue, put >>
             Given == \E p \in Procs : p \in made /\ \E i \in 1..Arity(p) : \E m : Gives(p, i, m)
             Popped1 == \E p \in Procs : Pops(p)
  <1>1. ASSUME NEW p \in Procs, Send(p) PROVE Kept \/ Given
    <2>1. p \in made /\ Arity(p) = 1 /\ (Kept \/ Gives(p, 1, << p, Len(put[p][1]) + 1 >>))
      BY <1>1, GivesUser
    <2>2. 1 \in 1..Arity(p)
      BY <2>1
    <2> QED BY <2>1, <2>2
  <1>2. ASSUME UserNext, ~(\E p \in Procs : Send(p)) PROVE Kept
    BY <1>2 DEF UserNext, Attach, CopyReceiver, SetReady, DestroyReceiver, StartReady, CopySender,
                CloseSender, AssignSender, flowVars
  <1>3. ASSUME NEW w \in Workers, NEW p \in Procs, Takes(w, p), UNCHANGED put PROVE Kept \/ Pops(p)
    BY <1>3 DEF Takes, Pops
  <1>4. ASSUME NEW w \in Workers, Plays(w) PROVE Kept \/ Given \/ Popped1
    <2>1. CASE Sends(w)
      BY <2>1, GivesSending
    <2>2. CASE \/ Skips(w) \/ Looks(w) \/ Rereads(w) \/ Releases(w) \/ Suspended(w)
               \/ Rests(w) \/ Closes(w) \/ Finishes(w)
      BY <2>2 DEF Skips, Looks, Rereads, Releases, Suspended, Rests, Closes, Finishes, flowVars
    <2>3. CASE Codes(w)
      BY <2>3 DEF Codes, Applies, Decides, Postponed, flowVars
    <2>4. CASE Reads(w)
      <3>1. job[w].p \in Procs
        BY <2>4 DEF Reads, Shape, IsJob
      <3> QED BY <1>3, <2>4, <3>1 DEF Reads
    <2>5. ASSUME NEW p \in Procs, Starts(w, p) PROVE Kept \/ Popped1
      BY <1>3, <2>5 DEF Starts
    <2> QED BY <1>4, <2>1, <2>2, <2>3, <2>4, <2>5 DEF Plays
  <1>5. ASSUME NEW p \in Procs, Expires(p) PROVE Kept
    BY <1>5 DEF Expires
  <1>6. UNCHANGED vars => Kept
    BY DEF vars, flowVars
  <1> QED BY <1>1, <1>2, <1>4, <1>5, <1>6, Played

\* A queue that a value is appended to.
LEMMA Written ==
    ASSUME Shape, Histories, NEW p \in Procs, NEW i \in 1..Arity(p), NEW m, Gives(p, i, m)
    PROVE  \A q \in Procs : \A h \in 1..Arity(q) :
              IF q = p /\ h = i
              THEN /\ queue'[q].items[h] = Append(queue[q].items[h], m)
                   /\ put'[q][h] = Append(put[q][h], m)
              ELSE queue'[q].items[h] = queue[q].items[h] /\ put'[q][h] = put[q][h]
  <1> SUFFICES ASSUME NEW q \in Procs, NEW h \in 1..Arity(q)
               PROVE  IF q = p /\ h = i
                      THEN /\ queue'[q].items[h] = Append(queue[q].items[h], m)
                           /\ put'[q][h] = Append(put[q][h], m)
                      ELSE queue'[q].items[h] = queue[q].items[h] /\ put'[q][h] = put[q][h]
    OBVIOUS
  <1>1. queue = [r \in Procs |-> queue[r]] /\ put = [r \in Procs |-> put[r]] /\ IsQueue(p)
        /\ put[p] = [k \in 1..Arity(p) |-> put[p][k]]
    BY DEF Shape, Histories
  <1>2. queue'[p] = [queue[p] EXCEPT !.items[i] = Append(@, m)] /\ (q # p => queue'[q] = queue[q])
    BY <1>1 DEF Gives, AppendTo
  <1>3. put'[p] = [put[p] EXCEPT ![i] = Append(@, m)] /\ (q # p => put'[q] = put[q])
    BY <1>1 DEF Gives
  <1>4. queue'[p].items = [queue[p].items EXCEPT ![i] = Append(@, m)]
    BY <1>1, <1>2 DEF IsQueue
  <1>5. q = p => queue'[q].items[h] = IF h = i THEN Append(queue[q].items[h], m) ELSE queue[q].items[h]
    BY <1>1, <1>4 DEF IsQueue
  <1>6. q = p => put'[q][h] = IF h = i THEN Append(put[q][h], m) ELSE put[q][h]
    BY <1>1, <1>3
  <1> QED BY <1>2, <1>3, <1>5, <1>6

LEMMA WrittenElse ==
    ASSUME Shape, Histories, NEW p \in Procs, NEW i \in 1..Arity(p), NEW m, Gives(p, i, m)
    PROVE  \A q \in Procs : \A h \in 1..Arity(q) : ~(q = p /\ h = i) =>
                put'[q][h] = put[q][h] /\ queue'[q].items[h] = queue[q].items[h]
  <1>1. ASSUME NEW q \in Procs, NEW h \in 1..Arity(q), ~(q = p /\ h = i)
        PROVE  queue'[q].items[h] = queue[q].items[h] /\ put'[q][h] = put[q][h]
    BY <1>1, Written
  <1> QED BY <1>1

LEMMA WrittenPut ==
    ASSUME Shape, Histories, NEW p \in Procs, NEW i \in 1..Arity(p), NEW m, Gives(p, i, m)
    PROVE  /\ put'[p][i] = Append(put[p][i], m)
           /\ \A q \in Procs : \A h \in 1..Arity(q) : ~(q = p /\ h = i) => put'[q][h] = put[q][h]
  <1>1. ASSUME NEW q \in Procs, NEW h \in 1..Arity(q), q = p, h = i
        PROVE  put'[q][h] = Append(put[q][h], m)
    BY <1>1, Written
  <1> QED BY <1>1, WrittenElse

\* A queue that a message is taken from.
LEMMA Removed ==
    ASSUME Shape, NEW p \in Procs, Pops(p)
    PROVE  /\ Taken(p) \subseteq 1..Arity(p)
           /\ \A q \in Procs : \A h \in 1..Arity(q) :
                IF q = p /\ h \in Taken(p)
                THEN queue[q].items[h] # << >> /\ queue'[q].items[h] = Tail(queue[q].items[h])
                ELSE queue'[q].items[h] = queue[q].items[h]
  <1>1. /\ Taken(p) \subseteq 1..Arity(p) /\ \A h \in Taken(p) : queue[p].items[h] # << >>
        /\ PopFront(Graph[p].strategy, queue[p]).items =
              [i \in 1..Arity(p) |-> IF i \in Taken(p) THEN Tail(queue[p].items[i])
                                     ELSE queue[p].items[i]]
    BY Taking DEF Shape, Pops
  <1>2. queue' = [queue EXCEPT ![p] = PopFront(Graph[p].strategy, queue[p])]
        /\ queue = [r \in Procs |-> queue[r]]
    BY DEF Shape, Pops
  <1> QED BY <1>1, <1>2

LEMMA Grown ==
    ASSUME NEW s, IsSeq(s), NEW x
    PROVE  /\ Append(s, x) # << >> /\ Last(Append(s, x)) = x /\ Len(Append(s, x)) = Len(s) + 1
           /\ Len(s) \in Nat /\ \A k \in 1..Len(s) : Append(s, x)[k] = s[k]
  <1>1. s \in Seq({s[k] : k \in DOMAIN s} \cup {x})
    BY SeqMonotonic DEF IsSeq
  <1> QED BY <1>1 DEF Last

\* The end of a sequence, when both grow and when it shrinks.
LEMMA EndingGrows ==
    ASSUME NEW s, NEW t, NEW m, IsSeq(s), IsSeq(t), Ending(s, t)
    PROVE  Ending(Append(s, m), Append(t, m))
  <1>1. Len(s) \in Nat /\ Len(t) \in Nat /\ Len(t) <= Len(s)
    BY SeqOps DEF Ending
  <1>2. s \in Seq({s[k] : k \in DOMAIN s} \cup {m}) /\ t \in Seq({t[k] : k \in DOMAIN t} \cup {m})
    BY SeqMonotonic DEF IsSeq
  <1> DEFINE u == Append(s, m)
             v == Append(t, m)
  <1>3. /\ Len(u) = Len(s) + 1 /\ Len(v) = Len(t) + 1
        /\ \A k \in 1..Len(s) : u[k] = s[k]
        /\ \A k \in 1..Len(t) : v[k] = t[k]
        /\ u[Len(s) + 1] = m /\ v[Len(t) + 1] = m
    BY <1>2
  <1> HIDE DEF u, v
  <1>4. Len(u) - Len(v) = Len(s) - Len(t) /\ Len(v) <= Len(u)
    BY <1>1, <1>3
  <1>5. ASSUME NEW k \in 1..Len(v) PROVE v[k] = u[Len(u) - Len(v) + k]
    <2>1. CASE k = Len(t) + 1
      <3>1. Len(u) - Len(v) + k = Len(s) + 1
        BY <1>1, <1>4, <2>1
      <3> QED BY <1>3, <2>1, <3>1
    <2>2. CASE k # Len(t) + 1
      <3>1. k \in 1..Len(t) /\ Len(u) - Len(v) + k \in 1..Len(s)
        BY <1>1, <1>3, <1>4, <2>2
      <3>2. t[k] = s[Len(s) - Len(t) + k]
        BY <3>1 DEF Ending
      <3> QED BY <1>3, <1>4, <3>1, <3>2
    <2> QED BY <2>1, <2>2
  <1>6. Ending(u, v)
    BY <1>4, <1>5 DEF Ending
  <1> QED BY <1>6 DEF u, v

LEMMA EndingShrinks ==
    ASSUME NEW s, NEW t, IsSeq(s), IsSeq(t), Ending(s, t), t # << >>
    PROVE  /\ Ending(s, Tail(t)) /\ Len(s) - Len(Tail(t)) = Len(s) - Len(t) + 1
           /\ Len(s) - Len(t) + 1 \in 1..Len(s) /\ t[1] = s[Len(s) - Len(t) + 1]
  <1>1. Len(s) \in Nat /\ Len(t) \in Nat /\ Len(t) <= Len(s) /\ Len(t) # 0
    BY SeqOps DEF Ending
  <1> DEFINE v == Tail(t)
  <1>2. Len(v) = Len(t) - 1 /\ \A k \in 1..(Len(t) - 1) : v[k] = t[k + 1]
    BY <1>1 DEF IsSeq
  <1> HIDE DEF v
  <1>3. Len(s) - Len(v) = Len(s) - Len(t) + 1 /\ Len(v) <= Len(s)
    BY <1>1, <1>2
  <1>4. ASSUME NEW k \in 1..Len(v) PROVE v[k] = s[Len(s) - Len(v) + k]
    <2>1. k + 1 \in 1..Len(t) /\ Len(s) - Len(t) + (k + 1) = Len(s) - Len(v) + k
      BY <1>1, <1>2, <1>3
    <2>2. t[k + 1] = s[Len(s) - Len(t) + (k + 1)]
      BY <2>1 DEF Ending
    <2>3. k \in 1..(Len(t) - 1)
      BY <1>2
    <2> QED BY <1>2, <2>1, <2>2, <2>3
  <1>5. Ending(s, v)
    BY <1>3, <1>4 DEF Ending
  <1>6. 1 \in 1..Len(t)
    BY <1>1
  <1>7. t[1] = s[Len(s) - Len(t) + 1] /\ Len(s) - Len(t) + 1 \in 1..Len(s)
    BY <1>1, <1>6 DEF Ending
  <1> QED BY <1>3, <1>5, <1>7 DEF v

LEMMA QueuedStep ==
    ASSUME Plain, CInv, HInv, [Next]_vars PROVE Queued'
  <1> USE DEF CInv, HInv
  <1>1. graph' = graph /\ Procs' = Procs /\ \A p : Arity(p)' = Arity(p)
    BY GraphStays, Frame
  <1>2. \A p \in Procs : \A i \in 1..Arity(p) :
            /\ Ending(put[p][i], queue[p].items[i]) /\ IsSeq(put[p][i]) /\ IsSeq(queue[p].items[i])
    BY DEF Queued, Histories, Shape, IsQueue
  <1>3. (\A p \in Procs : \A i \in 1..Arity(p) : Ending(put'[p][i], queue'[p].items[i])) => Queued'
    BY <1>1 DEF Queued
  <1>4. CASE UNCHANGED << queue, put >>
    <2> QED BY <1>2, <1>3, <1>4
  <1>5. ASSUME NEW p \in Procs, NEW i \in 1..Arity(p), NEW m, Gives(p, i, m) PROVE Queued'
    <2> SUFFICES ASSUME NEW q \in Procs, NEW h \in 1..Arity(q) PROVE Ending(put'[q][h], queue'[q].items[h])
      BY <1>3
    <2>1. CASE q = p /\ h = i
      <3>1. queue'[q].items[h] = Append(queue[q].items[h], m) /\ put'[q][h] = Append(put[q][h], m)
        BY <1>5, <2>1, Written
      <3> QED BY <1>2, <3>1, EndingGrows
    <2>2. CASE ~(q = p /\ h = i)
      <3>1. queue'[q].items[h] = queue[q].items[h] /\ put'[q][h] = put[q][h]
        BY <1>5, <2>2, Written
      <3> QED BY <1>2, <3>1
    <2> QED BY <2>1, <2>2
  <1>6. ASSUME NEW p \in Procs, Pops(p) PROVE Queued'
    <2> SUFFICES ASSUME NEW q \in Procs, NEW h \in 1..Arity(q) PROVE Ending(put'[q][h], queue'[q].items[h])
      BY <1>3
    <2>0. put' = put
      BY <1>6 DEF Pops
    <2>1. CASE q = p /\ h \in Taken(p)
      <3>1. queue[q].items[h] # << >> /\ queue'[q].items[h] = Tail(queue[q].items[h])
        BY <1>6, <2>1, Removed
      <3> QED BY <1>2, <2>0, <3>1, EndingShrinks
    <2>2. CASE ~(q = p /\ h \in Taken(p))
      <3>1. queue'[q].items[h] = queue[q].items[h]
        BY <1>6, <2>2, Removed
      <3> QED BY <1>2, <2>0, <3>1
    <2> QED BY <2>1, <2>2
  <1> QED BY <1>4, <1>5, <1>6, Flow

LEMMA TurningStep ==
    ASSUME Plain, CInv, HInv, [Next]_vars PROVE Turning'
  <1> USE DEF CInv, HInv
  <1>1. /\ graph' = graph /\ Procs' = Procs /\ Graph' = Graph /\ \A p : Arity(p)' = Arity(p)
    BY GraphStays, Frame
  <1> DEFINE U(p, h) == Len(put[p][h]) - Len(queue[p].items[h])
             V(p, h) == Len(put'[p][h]) - Len(queue'[p].items[h])
             Turns(p) == \A h \in 1..Arity(p) :
                            U(p, h) = U(p, queue[p].index) + (IF h < queue[p].index THEN 1 ELSE 0)
             Turned(p) == \A h \in 1..Arity(p) :
                            V(p, h) = V(p, queue'[p].index) + (IF h < queue'[p].index THEN 1 ELSE 0)
  <1>2. \A p \in Procs : /\ queue[p].index \in 1..Arity(p) /\ Arity(p) \in Nat
                         /\ \A h \in 1..Arity(p) : /\ Len(put[p][h]) \in Nat /\ IsSeq(put[p][h])
                                                   /\ Len(queue[p].items[h]) \in Nat
                                                   /\ IsSeq(queue[p].items[h])
    BY SeqOps, Nodes DEF Histories, Shape, IsQueue
  <1>3. \A p \in Procs : \A h \in 1..Arity(p) : Used(p)[h] = U(p, h)
    BY DEF Used
  <1>4. \A p \in Procs : Graph[p].strategy = "round_robin" => Turns(p)
    BY <1>2, <1>3 DEF Turning
  <1>5. Shape'
    BY ShapeStep
  <1>6. \A p \in Procs : queue'[p].index \in 1..Arity(p)
    BY <1>1, <1>5 DEF Shape, IsQueue
  <1>7. \A p \in Procs : \A h \in 1..Arity(p) : Used(p)'[h] = V(p, h)
    BY <1>1 DEF Used
  <1>8. (\A p \in Procs : Graph[p].strategy = "round_robin" => Turned(p)) => Turning'
    BY <1>1, <1>6, <1>7 DEF Turning
  <1>9. CASE UNCHANGED << queue, put >>
    <2>1. \A p \in Procs : Turned(p) <=> Turns(p)
      BY <1>1, <1>9
    <2> QED BY <1>4, <1>8, <2>1
  <1>10. ASSUME NEW p \in Procs, NEW i \in 1..Arity(p), NEW m, Gives(p, i, m) PROVE Turning'
    <2>1. \A q \in Procs : \A h \in 1..Arity(q) : V(q, h) = U(q, h)
      <3> SUFFICES ASSUME NEW q \in Procs, NEW h \in 1..Arity(q) PROVE V(q, h) = U(q, h)
        OBVIOUS
      <3>1. CASE q = p /\ h = i
        <4>1. queue'[q].items[h] = Append(queue[q].items[h], m) /\ put'[q][h] = Append(put[q][h], m)
          BY <1>10, <3>1, Written
        <4>2. Len(queue'[q].items[h]) = Len(queue[q].items[h]) + 1 /\ Len(put'[q][h]) = Len(put[q][h]) + 1
          BY <1>2, <4>1, SeqOps
        <4> QED BY <1>2, <4>2
      <3>2. CASE ~(q = p /\ h = i)
        <4>1. queue'[q].items[h] = queue[q].items[h] /\ put'[q][h] = put[q][h]
          BY <1>10, <3>2, Written
        <4> QED BY <4>1
      <3> QED BY <3>1, <3>2
    <2>2. \A q \in Procs : queue'[q].index = queue[q].index
      <3>1. queue' = [queue EXCEPT ![p] = AppendTo(@, i, m)] /\ queue = [r \in Procs |-> queue[r]]
            /\ IsQueue(p)
        BY <1>10 DEF Gives, Shape
      <3>2. AppendTo(queue[p], i, m).index = queue[p].index
        BY <3>1 DEF AppendTo, IsQueue
      <3> QED BY <3>1, <3>2
    <2>3. \A q \in Procs : Turned(q) <=> Turns(q)
      BY <1>1, <1>2, <2>1, <2>2
    <2> QED BY <1>4, <1>8, <2>3
  <1>11. ASSUME NEW p \in Procs, Pops(p) PROVE Turning'
    <2>1. put' = put /\ queue' = [queue EXCEPT ![p] = PopFront(Graph[p].strategy, queue[p])]
          /\ queue = [r \in Procs |-> queue[r]] /\ IsQueue(p)
      BY <1>11 DEF Pops, Shape
    <2>2. ASSUME NEW q \in Procs, q # p, Graph[q].strategy = "round_robin" PROVE Turned(q)
      <3>1. queue'[q] = queue[q]
        BY <2>1, <2>2
      <3> QED BY <1>1, <1>4, <2>1, <2>2, <3>1
    <2>3. ASSUME Graph[p].strategy = "round_robin" PROVE Turned(p)
      <3> DEFINE x == queue[p].index
                 n == Arity(p)
      <3>1. StrategyOf("round_robin", queue[p]) = round_robin_queue_strategy(queue[p])
        BY DEF StrategyOf
      <3>2. Taken(p) = {x}
        <4>1. StrategyOf("round_robin", queue[p]).takes = << x >>
          BY <3>1 DEF round_robin_queue_strategy
        <4> QED BY <2>3, <4>1 DEF Taken
      <3>3. Len(queue[p].items) = n
        BY <1>2, <2>1 DEF IsQueue
      <3>4. queue'[p].index = IF x = n THEN 1 ELSE x + 1
        <4>1. queue'[p].index = StrategyOf("round_robin", queue[p]).index
          BY <2>1, <2>3 DEF PopFront
        <4> QED BY <3>1, <3>3, <4>1 DEF round_robin_queue_strategy
      <3>5. ASSUME NEW h \in 1..n PROVE V(p, h) = IF h = x THEN U(p, h) + 1 ELSE U(p, h)
        <4>1. CASE h = x
          <5>1. queue[p].items[h] # << >> /\ queue'[p].items[h] = Tail(queue[p].items[h])
            BY <1>11, <3>2, <4>1, Removed
          <5>2. Len(queue'[p].items[h]) = Len(queue[p].items[h]) - 1
            BY <1>2, <5>1, SeqOps
          <5>3. Len(queue[p].items[h]) \in Nat /\ Len(put[p][h]) \in Nat /\ put'[p][h] = put[p][h]
            BY <1>2, <2>1
          <5> QED BY <4>1, <5>2, <5>3
        <4>2. CASE h # x
          <5>1. queue'[p].items[h] = queue[p].items[h]
            BY <1>11, <3>2, <4>2, Removed
          <5> QED BY <2>1, <4>2, <5>1
        <4> QED BY <4>1, <4>2
      <3>6. x \in 1..n /\ n \in Nat /\ \A h \in 1..n : U(p, h) \in Int
        BY <1>2
      <3>7. \A h \in 1..n : U(p, h) = U(p, x) + (IF h < x THEN 1 ELSE 0)
        BY <1>4, <2>3
      <3> DEFINE y == queue'[p].index
      <3>8. y \in 1..n
        BY <1>6
      <3>10. Turned(p) <=> \A h \in 1..n : V(p, h) = V(p, y) + (IF h < y THEN 1 ELSE 0)
        OBVIOUS
      <3> HIDE DEF U, V, n, x, Turned
      <3>9. \A h \in 1..n : V(p, h) = V(p, y) + (IF h < y THEN 1 ELSE 0)
        <4>1. CASE x = n
          <5>1. y = 1
            BY <3>4, <4>1
          <5> QED BY <3>5, <3>6, <3>7, <4>1, <5>1
        <4>2. CASE x # n
          <5>1. y = x + 1
            BY <3>4, <4>2
          <5> HIDE DEF y
          <5> QED BY <3>5, <3>6, <3>7, <3>8, <4>2, <5>1
        <4> QED BY <4>1, <4>2
      <3> QED BY <3>9, <3>10
    <2> QED BY <1>8, <2>2, <2>3
  <1> QED BY <1>9, <1>10, <1>11, Flow

-----------------------------------------------------------------------------
(***************************************************************************)
(* What the user's code has.                                               *)
(***************************************************************************)
\* Only the user's code makes values, and only it and the end of a process change what is collected.
LEMMA Voices ==
    ASSUME Plain, CInv, [Next]_vars
    PROVE  \/ \E w \in Workers : Codes(w)
           \/ UNCHANGED sent /\ \E w \in Workers : Finishes(w)
           \/ /\ UNCHANGED << process, sent >>
              /\ delayed' = delayed \/ \E p \in Procs : delayed' = [delayed EXCEPT ![p] = 0]
  <1> DEFINE Kept == UNCHANGED << process, sent, delayed >>
  <1>1. UserNext => Kept
    BY DEF UserNext, Attach, CopyReceiver, SetReady, DestroyReceiver, StartReady, Send, CopySender,
           CloseSender, AssignSender, userVars
  <1>2. ASSUME NEW w \in Workers, Plays(w), ~Codes(w) PROVE Kept \/ (UNCHANGED sent /\ Finishes(w))
    BY <1>2 DEF Plays, Skips, Looks, Rereads, Releases, Suspended, Sends, Rests, Closes, Finishes, Reads, Starts,
                userVars
  <1>3. ASSUME NEW p \in Procs, Expires(p)
        PROVE  UNCHANGED << process, sent >> /\ delayed' = [delayed EXCEPT ![p] = 0]
    BY <1>3 DEF Expires
  <1>4. UNCHANGED vars => Kept
    BY DEF vars, userVars
  <1> QED BY <1>1, <1>2, <1>3, <1>4, Played

\* The user's code of p runs in w.
Coding(w, p) ==
    /\ p \in Procs
    /\ \/ Works(w) /\ p = job[w].p /\ (Applies(w) \/ Decides(w))
       \/ Postponed(w, p)

LEMMA CodeOf ==
    ASSUME Shape, NEW w \in Workers, Codes(w)
    PROVE  \E p \in Procs : Coding(w, p)
  <1>1. ASSUME Applies(w) \/ Decides(w) PROVE Coding(w, job[w].p) /\ job[w].p \in Procs
    BY <1>1 DEF Applies, Decides, Coding, Shape, IsJob
  <1> QED BY <1>1 DEF Codes, Coding

\* p has the right to run, nothing else of it is scheduled, and its code changes no other process.
LEMMA Coded ==
    ASSUME Shape, Rights, NEW w \in Workers, NEW p \in Procs, Coding(w, p)
    PROVE  /\ UNCHANGED << graphVars, senders, down, flowVars, procVars, timeouts, timeoutActive >>
           /\ Others(w) /\ \A v \in Workers : v # w /\ Works(v) => job[v].p # p
           /\ Works(w)' => job'[w].p = p
           /\ Works(w) => job[w].p = p /\ job[w].pc \in {"apply", "decide"} /\ delayed[p] = 0
           /\ UNCHANGED sent \/ \E x : Makes(w, p, x)
           /\ \A q \in Procs : q # p => process'[q] = process[q] /\ delayed'[q] = delayed[q]
           /\ running[p]
  <1>1. CASE Works(w)
    <2>1. Applies(w) \/ Decides(w)
      BY <1>1 DEF Coding, Postponed
    <2>2. job[w].p = p /\ job[w].pc \in {"apply", "decide"}
      BY <1>1, <2>1 DEF Coding, Applies, Decides, Postponed
    <2>3. delayed[p] = 0
      <3>1. pending[p] \in Nat /\ delayed[p] \in Nat
        BY DEF Shape
      <3>2. ~(pending[p] + delayed[p] > 0)
        BY <1>1, <2>2 DEF Rights
      <3> QED BY <3>1, <3>2
    <2>4. running[p] /\ \A v \in Workers : v # w /\ Works(v) => job[v].p # p
      BY <1>1, <2>2 DEF Rights
    <2>5. CASE Applies(w)
      BY <1>1, <2>2, <2>3, <2>4, <2>5 DEF Applies, Makes, Suspends, Goes, Ends, Others, Works, Shape
    <2>6. CASE Decides(w)
      BY <1>1, <2>2, <2>3, <2>4, <2>6 DEF Decides, Makes, Suspends, Goes, Ends, Others, Works, Shape
    <2> QED BY <2>1, <2>5, <2>6
  <1>2. CASE ~Works(w)
    <2>1. Postponed(w, p)
      BY <1>2 DEF Coding
    <2>2. running[p] /\ \A v \in Workers : Works(v) => job[v].p # p
      BY <2>1 DEF Postponed, Shape, Rights
    <2> QED BY <1>2, <2>1, <2>2 DEF Postponed, Makes, Suspends, Goes, Others, Works, Shape
  <1> QED BY <1>1, <1>2

\* A job that changes is played.
LEMMA Moved ==
    ASSUME Plain, CInv, [Next]_vars, NEW v \in Workers
    PROVE  job'[v] = job[v] \/ (Plays(v) /\ Runs(v))
  <1>1. UserNext => UNCHANGED job
    BY DEF UserNext, Attach, CopyReceiver, SetReady, DestroyReceiver, StartReady, Send, CopySender,
           CloseSender, AssignSender, userVars
  <1>2. \A p : Expires(p) => UNCHANGED job
    BY DEF Expires
  <1>3. UNCHANGED vars => UNCHANGED job
    BY DEF vars
  <1>4. \A w \in Workers : Runs(w) /\ w # v => job'[v] = job[v]
    BY JobStays DEF CInv
  <1> QED BY <1>1, <1>2, <1>3, <1>4, Played

LEMMA HistoriesStep ==
    ASSUME Plain, CInv, HInv, [Next]_vars PROVE Histories'
  <1> USE DEF CInv, HInv
  <1>1. graph' = graph /\ Procs' = Procs /\ \A p : Arity(p)' = Arity(p)
    BY GraphStays, Frame
  <1>2. /\ sent' = [p \in Procs |-> sent'[p]] /\ \A p \in Procs : IsSeq(sent'[p])
        /\ \A p \in Procs : IsSeq(process'[p].held)
    <2>1. CASE UNCHANGED << process, sent >>
      BY <2>1 DEF Histories
    <2>2. ASSUME NEW w \in Workers, Finishes(w), UNCHANGED sent
          PROVE  /\ sent' = [p \in Procs |-> sent'[p]] /\ \A p \in Procs : IsSeq(sent'[p])
                 /\ \A p \in Procs : IsSeq(process'[p].held)
      <3>1. process' = [process EXCEPT ![job[w].p] = Reset] /\ IsSeq(Reset.held)
        BY <2>2 DEF Finishes, Reset, IsSeq
      <3> QED BY <2>2, <3>1 DEF Histories, Shape
    <2>3. ASSUME NEW w \in Workers, NEW p \in Procs, Coding(w, p)
          PROVE  /\ sent' = [q \in Procs |-> sent'[q]] /\ \A q \in Procs : IsSeq(sent'[q])
                 /\ \A q \in Procs : IsSeq(process'[q].held)
      <3>1. UNCHANGED sent \/ \E x : sent' = [sent EXCEPT ![p] = Append(@, x)]
        BY <2>3, Coded DEF Makes
      <3>2. sent' = [q \in Procs |-> sent'[q]] /\ \A q \in Procs : IsSeq(sent'[q])
        <4>1. CASE UNCHANGED sent
          BY <4>1 DEF Histories
        <4>2. ASSUME NEW x, sent' = [sent EXCEPT ![p] = Append(@, x)]
              PROVE  sent' = [q \in Procs |-> sent'[q]] /\ \A q \in Procs : IsSeq(sent'[q])
          <5>1. IsSeq(Append(sent[p], x))
            BY SeqOps DEF Histories
          <5> QED BY <4>2, <5>1 DEF Histories
        <4> QED BY <3>1, <4>1, <4>2
      <3>3. \A q \in Procs : q # p => process'[q] = process[q]
        BY <2>3, Coded
      <3>4. \/ process' = process
            \/ process' = [process EXCEPT ![p] = process_close(p)]
            \/ \E m : process' = [process EXCEPT ![p] = await(p, m)]
            \/ process' = [process EXCEPT ![p] = Yielded(p)]
        BY <2>3 DEF Coding, Applies, Decides, Postponed
      <3>5. IsSeq(process[p].held) /\ process = [q \in Procs |-> process[q]] /\ IsProcess(process[p])
        BY DEF Histories, Shape
      <3>6. IsSeq(process_close(p).held)
        BY <3>5 DEF process_close, IsProcess
      <3>7. ASSUME NEW m PROVE IsSeq(await(p, m).held)
        <4>1. IsSeq(Append(process[p].held, Result(m)))
          BY <3>5, SeqOps
        <4>2. await(p, m).held = Append(process[p].held, Result(m))
          BY Awaited
        <4> QED BY <4>1, <4>2
      <3>8. IsSeq(Yielded(p).held)
        <4>1. IsSeq(IF process[p].held = << >> THEN << >> ELSE Tail(process[p].held))
          BY <3>5, SeqOps
        <4>2. Yielded(p).held = IF process[p].held = << >> THEN << >> ELSE Tail(process[p].held)
          BY Awaited
        <4> QED BY <4>1, <4>2
      <3>9. IsSeq(process'[p].held)
        BY <3>4, <3>5, <3>6, <3>7, <3>8
      <3>10. \A q \in Procs : IsSeq(process'[q].held)
        BY <3>3, <3>9 DEF Histories
      <3> QED BY <3>2, <3>10
    <2> QED BY <2>1, <2>2, <2>3, Voices, CodeOf
  <1>3. /\ put' = [p \in Procs |-> put'[p]]
        /\ \A p \in Procs : /\ put'[p] = [i \in 1..Arity(p) |-> put'[p][i]]
                            /\ \A i \in 1..Arity(p) : IsSeq(put'[p][i])
    <2>1. CASE put' = put
      BY <2>1 DEF Histories
    <2>2. ASSUME NEW p \in Procs, NEW i \in 1..Arity(p), NEW m, Gives(p, i, m)
          PROVE  /\ put' = [q \in Procs |-> put'[q]]
                 /\ \A q \in Procs : /\ put'[q] = [h \in 1..Arity(q) |-> put'[q][h]]
                                     /\ \A h \in 1..Arity(q) : IsSeq(put'[q][h])
      <3>1. put' = [put EXCEPT ![p][i] = Append(@, m)]
        BY <2>2 DEF Gives
      <3>2. /\ put' = [q \in Procs |-> put'[q]]
            /\ \A q \in Procs : put'[q] = [h \in 1..Arity(q) |-> put'[q][h]]
        BY <3>1 DEF Histories
      <3>3. ASSUME NEW q \in Procs, NEW h \in 1..Arity(q) PROVE IsSeq(put'[q][h])
        <4>1. put'[q][h] = put[q][h] \/ put'[q][h] = Append(put[q][h], m)
          BY <2>2, Written
        <4> QED BY <4>1, SeqOps DEF Histories
      <3> QED BY <3>2, <3>3
    <2> QED BY <2>1, <2>2, Flow DEF Pops
  <1> QED BY <1>1, <1>2, <1>3 DEF Histories

\* The user's code leaves a process that yields with something to yield, and the right to yield later
\* with one that yields.
LEMMA KeepingStep ==
    ASSUME Plain, CInv, HInv, [Next]_vars PROVE Keeping'
  <1> USE DEF CInv, HInv
  <1>1. graph' = graph /\ Procs' = Procs /\ Graph' = Graph
    BY GraphStays, Frame
  <1> DEFINE Fits(p, x) ==
                /\ x.yields => x.held # << >>
                /\ Graph[p].kind = "process" /\ ~x.yields => Len(x.held) \in Nat /\ Len(x.held) < Graph[p].batch
             Sound(p) == Fits(p, process'[p]) /\ (delayed'[p] > 0 => process'[p].yields)
             Ended1(w) == Works(w)' /\ job'[w].pc \in {"done", "finish"} /\ Graph[job'[w].p].kind = "process"
                            => ~process'[job'[w].p].yields
  <1>2. (\A p \in Procs : Sound(p)) /\ (\A w \in Workers : Ended1(w)) => Keeping'
    BY <1>1 DEF Keeping
  <1>3. /\ process = [q \in Procs |-> process[q]] /\ \A p \in Procs : IsProcess(process[p])
        /\ delayed \in [Procs -> Nat] /\ \A p \in Procs : IsSeq(process[p].held) /\ Fits(p, process[p])
        /\ \A p \in Procs : delayed[p] > 0 => process[p].yields
    BY DEF Shape, Histories, Keeping
  <1>4. \A p \in Procs : Graph[p].batch \in Nat \ {0}
    BY GraphAssumption DEF Graph, Procs, Shape
  <1>5. \A p \in Procs : /\ Fits(p, process_close(p)) /\ (process[p].yields => process_close(p).yields)
                         /\ Fits(p, Yielded(p)) /\ Fits(p, Reset)
                         /\ \A m : Fits(p, await(p, m))
    <2> SUFFICES ASSUME NEW p \in Procs
                 PROVE  /\ Fits(p, process_close(p)) /\ (process[p].yields => process_close(p).yields)
                        /\ Fits(p, Yielded(p)) /\ Fits(p, Reset)
                        /\ \A m : Fits(p, await(p, m))
      OBVIOUS
    <2>1. Fits(p, process_close(p)) /\ (process[p].yields => process_close(p).yields)
      BY <1>3 DEF process_close, IsProcess
    <2>2. Len(<< >>) = 0
      OBVIOUS
    <2>3. Fits(p, Yielded(p))
      <3> DEFINE rest == IF process[p].held = << >> THEN << >> ELSE Tail(process[p].held)
      <3>1. Yielded(p).held = rest /\ Yielded(p).yields = (rest # << >>)
        BY Awaited
      <3>2. Yielded(p).yields <=> rest # << >>
        BY <3>1
      <3> HIDE DEF rest
      <3>3. rest = << >> => Len(rest) \in Nat /\ Len(rest) < Graph[p].batch
        BY <1>4, <2>2
      <3> QED BY <3>1, <3>2, <3>3
    <2>4. Fits(p, Reset)
      BY <1>4, <2>2 DEF Reset
    <2>5. ASSUME NEW m PROVE Fits(p, await(p, m))
      <3> DEFINE held == Append(process[p].held, Result(m))
      <3>1. Len(held) \in Nat /\ held # << >>
        BY <1>3, SeqOps
      <3>2. await(p, m).held = held /\ await(p, m).yields = (Len(held) >= Graph[p].batch)
        BY Awaited
      <3> HIDE DEF held
      <3>3. ~(Len(held) >= Graph[p].batch) => Len(held) < Graph[p].batch
        BY <1>4, <3>1
      <3> QED BY <3>1, <3>2, <3>3
    <2> QED BY <2>1, <2>3, <2>4, <2>5
  <1> HIDE DEF Fits
  <1>6. ASSUME UNCHANGED process, delayed' = delayed \/ \E p \in Procs : delayed' = [delayed EXCEPT ![p] = 0]
        PROVE  \A p \in Procs : Sound(p)
    BY <1>3, <1>6
  <1>7. ASSUME NEW w \in Workers, Finishes(w) PROVE \A p \in Procs : Sound(p)
    <2>1. process' = [process EXCEPT ![job[w].p] = Reset] /\ delayed' = delayed /\ job[w].p \in Procs
          /\ delayed[job[w].p] = 0
      <3>1. Works(w) /\ job[w].p \in Procs
        BY <1>7 DEF Finishes, Shape, IsJob
      <3>2. pending[job[w].p] \in Nat /\ delayed[job[w].p] \in Nat
        BY <3>1 DEF Shape
      <3>3. ~(pending[job[w].p] + delayed[job[w].p] > 0)
        BY <3>1 DEF Rights
      <3> QED BY <1>7, <3>1, <3>2, <3>3 DEF Finishes
    <2> QED BY <1>3, <1>5, <2>1
  <1>8. ASSUME NEW w \in Workers, NEW p \in Procs, Coding(w, p) PROVE \A q \in Procs : Sound(q)
    <2>1. \A q \in Procs : q # p => process'[q] = process[q] /\ delayed'[q] = delayed[q]
      BY <1>8, Coded
    <2>2. \/ process'[p] = process[p]
          \/ process'[p] = process_close(p)
          \/ \E m : process'[p] = await(p, m)
          \/ process'[p] = Yielded(p)
      BY <1>3, <1>8 DEF Coding, Applies, Decides, Postponed
    <2>3. Fits(p, process'[p])
      BY <1>3, <1>5, <2>2
    <2>4. delayed'[p] > 0 => process'[p].yields
      <3>1. CASE Works(w)
        <4>1. delayed[p] = 0 /\ job[w].p = p
          BY <1>8, <3>1, Coded
        <4> QED BY <1>3, <1>8, <3>1, <4>1 DEF Coding, Applies, Decides, Postponed
      <3>2. CASE ~Works(w)
        <4>1. Postponed(w, p)
          BY <1>8, <3>2 DEF Coding
        <4>2. pending[p] + delayed[p] <= 1 /\ pending[p] \in Nat /\ delayed[p] \in Nat
          BY DEF Shape, Rights
        <4>3. delayed'[p] = delayed[p] - 1
          BY <4>1, <1>3 DEF Postponed
        <4> QED BY <4>2, <4>3
      <3> QED BY <3>1, <3>2
    <2> QED BY <1>3, <2>1, <2>3, <2>4
  <1>9. \A p \in Procs : Sound(p)
    BY <1>6, <1>7, <1>8, Voices, CodeOf
  <1>10. \A w \in Workers : Ended1(w)
    <2> SUFFICES ASSUME NEW v \in Workers, Works(v)', job'[v].pc \in {"done", "finish"},
                        Graph[job'[v].p].kind = "process"
                 PROVE  ~process'[job'[v].p].yields
      OBVIOUS
    <2>1. ASSUME job'[v] = job[v] PROVE ~process'[job'[v].p].yields
      <3> DEFINE q == job[v].p
      <3>1. ~process[q].yields /\ q \in Procs /\ Works(v) /\ job[v].pc \in {"done", "finish"}
        BY <2>1 DEF Keeping, Works, Shape, IsJob
      <3>2. ASSUME NEW w \in Workers, NEW p \in Procs, Coding(w, p) PROVE process'[q] = process[q]
        <4>1. p # q
          BY <3>1, <3>2, Coded
        <4> QED BY <3>1, <3>2, <4>1, Coded
      <3>3. ASSUME NEW w \in Workers, Finishes(w) PROVE process'[q] = process[q] \/ process'[q] = Reset
        BY <1>3, <3>1, <3>3 DEF Finishes
      <3>4. process'[q] = process[q] \/ process'[q] = Reset
        BY <3>2, <3>3, Voices, CodeOf
      <3> QED BY <2>1, <3>1, <3>4 DEF Reset
    <2>2. ASSUME Plays(v) PROVE ~process'[job'[v].p].yields
      <3>1. CASE Rests(v)
        BY <3>1 DEF Rests, Goes, Ends, Works, Keeping, userVars
      <3>2. CASE Applies(v)
        <4>1. job'[v].p = job[v].p
          BY <3>2 DEF Applies, Makes, Suspends, Goes, Ends, Works
        <4> QED BY <3>2, <4>1 DEF Applies, Makes, Suspends, Goes, Ends, Works, IsFunction
      <3>3. CASE Decides(v)
        BY <3>3 DEF Decides, Makes, Suspends, Goes, Ends, Works
      <3>4. CASE Closes(v)
        BY <2>1, <3>4 DEF Closes
      <3>5. CASE Skips(v) \/ Looks(v) \/ Rereads(v) \/ Releases(v) \/ Suspended(v) \/ Sends(v) \/ Finishes(v) \/ Reads(v)
        BY <3>5 DEF Skips, Looks, Rereads, Releases, Suspended, Sends, Finishes, Reads, Called, Goes, Clear, ClearsSelf,
                    Ends, Takes, Works
      <3>6. ASSUME NEW p \in Procs, Postponed(v, p) PROVE ~process'[job'[v].p].yields
        BY <3>6 DEF Postponed, Makes, Suspends, Goes, Works
      <3>7. ASSUME NEW p \in Procs, Starts(v, p) PROVE ~process'[job'[v].p].yields
        BY <3>7 DEF Starts, Takes, Goes, Clear, Works
      <3> QED BY <2>2, <3>1, <3>2, <3>3, <3>4, <3>5, <3>6, <3>7 DEF Plays, Codes
    <2> QED BY <2>1, <2>2, Moved
  <1> QED BY <1>2, <1>9, <1>10

\* What is broadcast stays the last value made: no other job of the process makes one.
LEMMA OutgoingStep ==
    ASSUME Plain, CInv, HInv, [Next]_vars PROVE Outgoing'
  <1> USE DEF CInv, HInv
  <1> SUFFICES ASSUME NEW v \in Workers, Works(v)', job'[v].pc \in {"suspend", "send"}
               PROVE  sent'[job'[v].p] # << >> /\ job'[v].out = Last(sent'[job'[v].p])
    BY DEF Outgoing, Last
  <1>1. \A p \in Procs : \A x : Append(sent[p], x) # << >> /\ Last(Append(sent[p], x)) = x
    BY Grown DEF Histories
  <1>2. ASSUME NEW p \in Procs, NEW x, Makes(v, p, x)
        PROVE  sent'[job'[v].p] # << >> /\ job'[v].out = Last(sent'[job'[v].p])
    <2>1. job'[v].p = p /\ job'[v].out = x /\ sent'[p] = Append(sent[p], x)
      BY <1>2 DEF Makes, Suspends, Goes, Histories
    <2> QED BY <1>1, <2>1
  <1>3. ASSUME Works(v), job[v].pc \in {"suspend", "send"}, job'[v].p = job[v].p, job'[v].out = job[v].out
        PROVE  sent'[job'[v].p] # << >> /\ job'[v].out = Last(sent'[job'[v].p])
    <2> DEFINE q == job[v].p
    <2>1. q \in Procs /\ sent[q] # << >> /\ job[v].out = Last(sent[q])
      BY <1>3 DEF Outgoing, Shape, IsJob
    <2>2. ASSUME NEW w \in Workers, NEW p \in Procs, Coding(w, p) PROVE sent'[q] = sent[q]
      <3>1. p # q
        BY <1>3, <2>2, Coded
      <3>2. sent' = sent \/ \E x : sent' = [sent EXCEPT ![p] = Append(@, x)]
        BY <2>2, Coded DEF Makes
      <3> QED BY <2>1, <3>1, <3>2 DEF Histories
    <2>3. sent'[q] = sent[q]
      BY <2>2, Voices, CodeOf
    <2> QED BY <1>3, <2>1, <2>3
  <1>4. CASE job'[v] = job[v]
    BY <1>3, <1>4 DEF Works
  <1>5. CASE Plays(v)
    <2>1. CASE Rereads(v) \/ Suspended(v) \/ Sends(v)
      BY <1>3, <2>1 DEF Rereads, Suspended, Sends, ClearsSelf, Clear, Goes
    <2>2. CASE Codes(v)
      <3>1. PICK p \in Procs : Coding(v, p)
        BY <2>2, CodeOf
      <3>2. CASE \E x : Makes(v, p, x)
        BY <1>2, <3>2
      <3>3. CASE ~(\E x : Makes(v, p, x))
        <4>1. CASE Applies(v) /\ job[v].p = p
          <5>1. ~Makes(v, job[v].p, Error) /\ ~Makes(v, job[v].p, Result(job[v].msg))
            BY <3>3, <4>1
          <5>2. Goes(v, p, "done") \/ Ends(v) \/ Goes(v, p, "decide") \/ Goes(v, p, "dequeue")
            BY <4>1, <5>1 DEF Applies
          <5> QED BY <5>2 DEF Goes, Ends, Works
        <4>2. CASE Decides(v) /\ job[v].p = p
          <5>1. ~Makes(v, job[v].p, YieldResult(job[v].p))
            BY <3>3, <4>2
          <5>2. Goes(v, p, "done") \/ Ends(v)
            BY <4>2, <5>1 DEF Decides
          <5> QED BY <5>2 DEF Goes, Ends, Works
        <4>3. CASE Postponed(v, p)
          BY <1>4, <3>3, <4>3 DEF Postponed
        <4> QED BY <3>1, <4>1, <4>2, <4>3 DEF Coding
      <3> QED BY <3>2, <3>3
    <2>3. CASE Closes(v)
      BY <1>4, <2>3 DEF Closes
    <2>4. CASE Skips(v) \/ Looks(v) \/ Releases(v) \/ Rests(v) \/ Finishes(v) \/ Reads(v)
      BY <2>4 DEF Skips, Looks, Releases, Rests, Finishes, Reads, Called, Goes, Clear, Ends, Takes, Works
    <2>5. ASSUME NEW p \in Procs, Starts(v, p) PROVE job'[v] = job[v]
      BY <2>5 DEF Starts, Takes, Goes, Clear, Works
    <2> QED BY <1>4, <1>5, <2>1, <2>2, <2>3, <2>4, <2>5 DEF Plays
  <1> QED BY <1>4, <1>5, Moved

-----------------------------------------------------------------------------
(***************************************************************************)
(* What has not been started.                                              *)
(***************************************************************************)
\* A job that comes to be has a process that was running.
LEMMA Begun ==
    ASSUME Plain, CInv, [Next]_vars, NEW v \in Workers, Works(v)'
    PROVE  \/ Works(v) /\ job'[v].p = job[v].p
           \/ /\ ~Works(v) /\ job'[v].p \in Procs /\ running[job'[v].p] /\ Alive(job'[v].p)
              /\ pending[job'[v].p] + delayed[job'[v].p] > 0
  <1> USE DEF CInv
  <1>1. CASE job'[v] = job[v]
    BY <1>1 DEF Works
  <1>2. CASE Plays(v) /\ Runs(v) /\ Works(v)
    BY <1>2, JobStays
  <1>3. CASE Plays(v) /\ ~Works(v)
    <2>1. PICK p \in Procs : Starts(v, p) \/ Postponed(v, p)
      BY <1>3 DEF Plays, Codes, Skips, Looks, Rereads, Releases, Suspended, Sends, Rests, Closes, Finishes, Reads,
                  Applies, Decides
    <2>2. job'[v].p = p /\ Alive(p)
      BY <1>3, <2>1 DEF Starts, Takes, Postponed, Makes, Suspends, Goes, Clear, Works
    <2>3. pending[p] + delayed[p] > 0
      BY <2>1 DEF Starts, Postponed, Shape
    <2>4. running[p]
      BY <2>3 DEF Rights
    <2> QED BY <1>3, <2>2, <2>3, <2>4
  <1> QED BY <1>1, <1>2, <1>3, Moved

\* Nobody starts a process that has an open receiver, or is not made: the sends to it count its
\* receivers, and it has sent nothing that could be taken.
LEMMA StartingStep ==
    ASSUME Plain, CInv, HInv, [Next]_vars PROVE Starting'
  <1> USE DEF CInv, HInv
  <1>1. /\ graph' = graph /\ Procs' = Procs /\ Graph' = Graph /\ \A p : Up(p)' = Up(p)
    BY GraphStays, Frame
  <1>2. made \subseteq made'
    BY UnmadeStay
  <1>3. Shape' /\ Built' /\ Counts' /\ Rights'
    BY ShapeStep, BuiltStep, CountsStep, RightsStep
  <1> SUFFICES /\ \A u \in Procs : Untouched(u)' =>
                    /\ ~running'[u] /\ checking'[u] = 0 /\ sent'[u] = << >>
                    /\ \A w \in Workers : Works(w)' => job'[w].p # u
               /\ \A p \in Procs \ made' : \A i \in DOMAIN Up(p) : put'[p][i] = << >>
    BY <1>1 DEF Starting
  <1>4. ASSUME NEW u \in Procs, Untouched(u)' PROVE Untouched(u)
    <2>1. CASE u \notin made'
      BY <1>2, <2>1 DEF Untouched
    <2>2. CASE u \in made /\ ~(open[u] > 0 /\ ~Graph[u].void)
      <3>1. open'[u] > 0 /\ ~Graph[u].void
        BY <1>1, <1>2, <1>4, <2>2 DEF Untouched
      <3>2. ~(open[u] > 0)
        BY <2>2, <3>1
      <3>3. open'[u] <= open[u]
        <4>1. \A w \in Workers : Runs(w) => open' = open
          BY JobStays DEF graphVars
        <4>2. \A p \in Procs : Expires(p) => open' = open
          BY DEF Expires, graphVars
        <4>3. UNCHANGED vars => open' = open
          BY DEF vars, graphVars
        <4>4. ASSUME UserNext PROVE open'[u] <= open[u]
          <5>1. ASSUME NEW p \in Procs, Attach(p) PROVE open'[u] <= open[u]
            BY <2>2, <5>1, SMTT(30) DEF Attach, Shape
          <5>2. ASSUME NEW p \in Procs, CopyReceiver(p) PROVE open'[u] <= open[u]
            <6>1. open' = open \/ (open[p] > 0 /\ open' = [open EXCEPT ![p] = @ + 1])
              BY <5>2 DEF CopyReceiver
            <6>2. open[u] \in Nat /\ open = [q \in Procs |-> open[q]]
              BY DEF Shape
            <6>3. open'[u] = open[u]
              BY <3>2, <6>1, <6>2
            <6> QED BY <6>2, <6>3
          <5>3. ASSUME NEW p \in Procs, SetReady(p) \/ DestroyReceiver(p) PROVE open'[u] <= open[u]
            <6>1. open' = open \/ open' = [open EXCEPT ![p] = @ - 1]
              BY <5>3 DEF SetReady, DestroyReceiver
            <6>2. open[u] \in Nat /\ open = [q \in Procs |-> open[q]]
              BY DEF Shape
            <6>3. open'[u] = open[u] \/ open'[u] = open[u] - 1
              BY <6>1, <6>2
            <6> QED BY <6>2, <6>3
          <5>4. ASSUME NEW p \in Procs,
                       StartReady(p) \/ Send(p) \/ CopySender(p) \/ CloseSender(p) \/ AssignSender(p)
                PROVE  open' = open
            BY <5>4 DEF StartReady, Send, CopySender, CloseSender, AssignSender, graphVars
          <5>5. open[u] \in Nat
            BY DEF Shape
          <5> QED BY <4>4, <5>1, <5>2, <5>3, <5>4, <5>5 DEF UserNext
        <4>5. open[u] \in Nat
          BY DEF Shape
        <4> QED BY <4>1, <4>2, <4>3, <4>4, <4>5, GraphStays DEF Flat
      <3>4. open[u] \in Nat /\ open'[u] \in Nat
        BY <1>1, <1>3 DEF Shape
      <3> QED BY <3>1, <3>2, <3>3, <3>4
    <2>3. CASE u \notin made \/ (open[u] > 0 /\ ~Graph[u].void)
      BY <2>3 DEF Untouched
    <2> QED BY <2>1, <2>2, <2>3
  <1>5. ASSUME NEW u \in Procs, Untouched(u)'
        PROVE  /\ ~running'[u] /\ checking'[u] = 0 /\ sent'[u] = << >>
               /\ \A w \in Workers : Works(w)' => job'[w].p # u
    <2>1. Untouched(u)
      BY <1>4, <1>5
    <2>2. ~running[u] /\ checking[u] = 0 /\ sent[u] = << >> /\ \A w \in Workers : Works(w) => job[w].p # u
      BY <2>1 DEF Starting
    <2>3. pending[u] = 0 /\ delayed[u] = 0 /\ suspend[u] = 0
      BY <2>2 DEF Rights, Shape
    <2>4. \A w \in Workers : Works(w)' => job'[w].p # u
      BY <2>2, Begun
    <2>5. sent'[u] = << >>
      <3>1. ASSUME NEW w \in Workers, NEW p \in Procs, Coding(w, p) PROVE sent'[u] = sent[u]
        <4>1. p # u
          BY <2>2, <3>1, Coded
        <4>2. sent' = sent \/ \E x : sent' = [sent EXCEPT ![p] = Append(@, x)]
          BY <3>1, Coded DEF Makes
        <4> QED BY <4>1, <4>2 DEF Histories
      <3> QED BY <2>2, <3>1, Voices, CodeOf
    <2>6. u \in made => receivers[u] > 0 /\ receivers'[u] > 0
      <3>1. ASSUME u \in made PROVE open[u] > 0 /\ open'[u] > 0 /\ ~Graph[u].void
        BY <1>1, <1>2, <1>5, <2>1, <3>1 DEF Untouched
      <3>2. /\ open[u] \in Nat /\ receivers[u] \in Nat
            /\ open[u] <= receivers[u] \/ Graph[u].void
        BY <1>1 DEF Counts, Shape
      <3>3. /\ open'[u] \in Nat /\ receivers'[u] \in Nat
            /\ open'[u] <= receivers'[u] \/ Graph[u].void
        BY <1>1, <1>3, <1>2 DEF Counts, Shape
      <3> QED BY <3>1, <3>2, <3>3
    <2>7. u \notin made => /\ handles[u] = 0
                           /\ \A v \in Procs : \A k \in DOMAIN down[v] : down[v][k][1] # u
      BY DEF Built
    <2>8. checking'[u] = 0
      <3>1. CASE checking' = checking
        BY <2>2, <3>1
      <3>2. ASSUME NEW p \in Procs, SetReady(p) \/ DestroyReceiver(p), p = u PROVE checking'[u] = 0
        <4>1. open[u] > 0 \/ ready[u] > 0
          BY <3>2 DEF SetReady, DestroyReceiver
        <4>2. u \in made
          BY <4>1 DEF Built
        <4>3. receivers'[u] > 0 /\ receivers[u] \in Nat
          BY <2>6, <4>2 DEF Shape
        <4>4. remove_receiver(u) \/ checking' = checking
          BY <3>2 DEF SetReady, DestroyReceiver
        <4>5. CASE remove_receiver(u) /\ ~Graph[u].void
          <5>1. receivers'[u] = receivers[u] - 1
            BY <4>5 DEF remove_receiver, Shape
          <5>2. receivers[u] # 1
            BY <4>3, <5>1
          <5>3. checking'[u] = checking[u] + 0
            BY <4>5, <5>2 DEF remove_receiver, Shape
          <5> QED BY <2>2, <5>3
        <4>6. CASE remove_receiver(u) /\ Graph[u].void
          BY <2>2, <4>6 DEF remove_receiver
        <4> QED BY <2>2, <4>4, <4>5, <4>6
      <3>3. ASSUME NEW p \in Procs, p # u,
                   SetReady(p) \/ DestroyReceiver(p) \/ StartReady(p)
            PROVE  checking'[u] = 0
        BY <2>2, <3>3 DEF SetReady, DestroyReceiver, StartReady, remove_receiver, Shape
      <3>4. ~StartReady(u)
        BY <2>2 DEF StartReady
      <3>5. ASSUME NEW p \in Procs,
                   \/ Attach(p) \/ CopyReceiver(p) \/ Send(p) \/ CopySender(p) \/ CloseSender(p)
                   \/ AssignSender(p)
            PROVE  checking' = checking
        BY <3>5 DEF Attach, CopyReceiver, Send, CopySender, CloseSender, AssignSender, graphVars
      <3>6. UserNext => checking'[u] = 0
        BY <3>1, <3>2, <3>3, <3>4, <3>5 DEF UserNext
      <3>7. ~UserNext => checking' = checking
        BY JobStays, GraphStays DEF Flat, Expires, vars, graphVars
      <3> QED BY <3>1, <3>6, <3>7
    <2>9. ~running'[u]
      <3> DEFINE Quiet == ~running'[u]
      <3>1. ASSUME NEW p \in Procs, NEW d \in BOOLEAN, Schedule(p, d), p # u \/ ~d PROVE Quiet
        BY <2>2, <3>1 DEF Schedule, Shape
      <3>2. UNCHANGED running => Quiet
        BY <2>2
      <3> HIDE DEF Quiet
      <3>3. ASSUME NEW p \in made, NEW d \in BOOLEAN, Schedule(p, receivers[p] = 0 /\ d) PROVE Quiet
        <4>1. p \in Procs /\ (p = u => receivers[p] # 0)
          BY <2>6, <3>3 DEF Shape
        <4> QED BY <3>1, <3>3, <4>1
      <3>4. ASSUME NEW p \in made, remove_sender(p) PROVE Quiet
        <4>1. UNCHANGED running \/ Schedule(p, receivers[p] = 0 /\ ~running[p])
          BY <3>4 DEF remove_sender
        <4> QED BY <3>2, <3>3, <4>1
      <3>5. ASSUME UserNext PROVE Quiet
        <4>1. ASSUME NEW p \in Procs, Send(p) PROVE Quiet
          <5>1. p \in made
            BY <4>1, GivesUser
          <5>2. UNCHANGED running \/ Schedule(p, receivers[p] = 0 /\ (~running[p] \/ timeoutActive[p]))
            BY <4>1 DEF Send, send, enqueue, flowVars
          <5>3. (~running[p] \/ timeoutActive[p]) \in BOOLEAN
            OBVIOUS
          <5> QED BY <3>2, <3>3, <5>1, <5>2, <5>3
        <4>2. ASSUME NEW p \in Procs, StartReady(p) PROVE Quiet
          <5>1. p # u
            BY <2>2, <4>2 DEF StartReady
          <5>2. \E d \in BOOLEAN : Schedule(p, d)
            BY <4>2 DEF StartReady
          <5> QED BY <3>1, <5>1, <5>2
        <4>3. ASSUME NEW p \in Procs, CloseSender(p) PROVE Quiet
          <5>1. p \in made
            BY <4>3 DEF CloseSender, Built
          <5>2. UNCHANGED running \/ remove_sender(p)
            BY <4>3 DEF CloseSender
          <5> QED BY <3>2, <3>4, <5>1, <5>2
        <4>4. ASSUME NEW p \in Procs,
                     \/ Attach(p) \/ CopyReceiver(p) \/ SetReady(p) \/ DestroyReceiver(p)
                     \/ CopySender(p) \/ AssignSender(p)
              PROVE  UNCHANGED running
          BY <4>4 DEF Attach, CopyReceiver, SetReady, DestroyReceiver, CopySender, AssignSender, flowVars
        <4> QED BY <3>2, <3>5, <4>1, <4>2, <4>3, <4>4 DEF UserNext
      <3>6. ASSUME NEW w \in Workers, Runs(w) PROVE Quiet
        <4>1. CASE Sends(w)
          <5> DEFINE d == down[job[w].p][job[w].k]
          <5>1. d[1] \in made /\ (\/ UNCHANGED running
                                   \/ Schedule(d[1], receivers[d[1]] = 0 /\ ~running[d[1]]))
            BY <4>1, Sending
          <5> QED BY <3>2, <3>3, <5>1
        <4>2. CASE Closes(w)
          <5> DEFINE q == Head(down[job[w].p])[1]
          <5>1. job[w].p \in Procs /\ down[job[w].p] # << >> /\ (UNCHANGED running \/ remove_sender(q))
            BY <4>2 DEF Closes, Shape, IsJob
          <5> DEFINE s == down[job[w].p]
          <5>4. s \in Seq(Procs \X Nat) /\ s # << >>
            BY <5>1 DEF Shape
          <5> HIDE DEF s
          <5>5. 1 \in DOMAIN s /\ Head(s) = s[1]
            BY <5>4
          <5>2. 1 \in DOMAIN down[job[w].p] /\ Head(down[job[w].p]) = down[job[w].p][1]
            BY <5>5 DEF s
          <5>3. q \in made
            BY <5>1, <5>2 DEF Built
          <5> QED BY <3>2, <3>4, <5>1, <5>3
        <4>3. CASE Releases(w)
          <5>1. \E v, b : running' = [running EXCEPT ![v] = IF b THEN FALSE ELSE @]
            BY <4>3 DEF Releases, clear_to_send
          <5> QED BY <2>2, <5>1 DEF Shape, Quiet
        <4>4. CASE Rests(w)
          <5>1. job[w].p # u /\ job[w].p \in Procs /\ \E b : running' = [running EXCEPT ![job[w].p] = b]
            BY <2>2, <4>4 DEF Rests, Shape, IsJob
          <5> QED BY <2>2, <5>1 DEF Shape, Quiet
        <4>5. CASE Skips(w) \/ Looks(w) \/ Rereads(w) \/ Suspended(w) \/ Finishes(w) \/ Thinks(w) \/ Reads(w)
          BY <3>2, <4>5 DEF Skips, Looks, Rereads, Suspended, Finishes, Thinks, Reads, flowVars
        <4>6. ASSUME NEW p \in Procs, Starts(w, p) \/ Delays(w, p) PROVE Quiet
          BY <3>2, <4>6 DEF Starts, Delays, flowVars
        <4> QED BY <3>6, <4>1, <4>2, <4>3, <4>4, <4>5, <4>6 DEF Runs
      <3>7. ASSUME (\E p \in Procs : Expires(p)) \/ UNCHANGED vars PROVE UNCHANGED running
        BY <3>7 DEF Expires, vars, flowVars
      <3>8. Quiet
        BY <3>2, <3>5, <3>6, <3>7, GraphStays DEF Flat
      <3> QED BY <3>8 DEF Quiet
    <2> QED BY <2>4, <2>5, <2>8, <2>9
  <1>6. ASSUME NEW p \in Procs \ made', NEW i \in DOMAIN Up(p) PROVE put'[p][i] = << >>
    <2>1. p \notin made /\ put[p][i] = << >> /\ i \in 1..Arity(p)
      BY <1>2, Nodes DEF Starting, Shape
    <2>2. ASSUME NEW q \in Procs, q \in made, NEW h \in 1..Arity(q), NEW m, Gives(q, h, m)
          PROVE  put'[p][i] = put[p][i]
      BY <2>1, <2>2, Written
    <2> QED BY <2>1, <2>2, Flow DEF Pops
  <1> QED BY <1>5, <1>6

-----------------------------------------------------------------------------
(***************************************************************************)
(* What the links have handed on.                                          *)
(***************************************************************************)
\* A value is made, a link is served, added or removed, or none of that.
LEMMA Deeds ==
    ASSUME Plain, CInv, HInv, [Next]_vars
    PROVE  \/ \E w \in Workers, p \in Procs : Coding(w, p) /\ \E x : Makes(w, p, x)
           \/ \E w \in Workers : Sends(w) \/ Closes(w)
           \/ \E r \in Procs : Attach(r)
           \/ /\ UNCHANGED << down, sent >>
              /\ \A p \in Procs : \A i \in DOMAIN Up(p) : put'[p][i] = put[p][i]
  <1> USE DEF CInv, HInv
  <1> DEFINE Kept == /\ UNCHANGED << down, sent >>
                     /\ \A p \in Procs : \A i \in DOMAIN Up(p) : put'[p][i] = put[p][i]
  <1>1. ASSUME NEW p \in Procs, Send(p) PROVE Kept
    <2>1. Up(p) = << >> /\ Arity(p) = 1 /\ p \in made
          /\ (Gives(p, 1, << p, Len(put[p][1]) + 1 >>) \/ UNCHANGED put)
      BY <1>1, GivesUser
    <2>2. UNCHANGED << down, sent >>
      BY <1>1 DEF Send
    <2>3. ASSUME NEW q \in Procs, NEW i \in DOMAIN Up(q) PROVE put'[q][i] = put[q][i]
      <3>1. q # p
        BY <2>1, <2>3
      <3>2. i \in 1..Arity(q) /\ 1 \in 1..Arity(p)
        BY <2>1, Nodes DEF Shape
      <3>3. CASE Gives(p, 1, << p, Len(put[p][1]) + 1 >>)
        <4>1. PICK m : m = << p, Len(put[p][1]) + 1 >>
          OBVIOUS
        <4>2. Gives(p, 1, m)
          BY <3>3, <4>1
        <4> QED BY <3>1, <3>2, <4>2, WrittenPut
      <3> QED BY <2>1, <3>3
    <2> QED BY <2>2, <2>3
  <1>2. ASSUME UserNext, ~(\E p \in Procs : Send(p) \/ Attach(p)) PROVE Kept
    BY <1>2 DEF UserNext, CopyReceiver, SetReady, DestroyReceiver, StartReady, CopySender,
                CloseSender, AssignSender, flowVars
  <1>3. ASSUME NEW w \in Workers, Plays(w), ~Sends(w), ~Closes(w)
        PROVE  Kept \/ \E p \in Procs : Coding(w, p) /\ \E x : Makes(w, p, x)
    <2>1. CASE Codes(w)
      <3>1. PICK p \in Procs : Coding(w, p)
        BY <2>1, CodeOf
      <3> QED BY <3>1, Coded DEF flowVars
    <2>2. CASE Skips(w) \/ Looks(w) \/ Rereads(w) \/ Releases(w) \/ Suspended(w) \/ Rests(w) \/ Finishes(w) \/ Reads(w)
               \/ \E p \in Procs : Starts(w, p)
      BY <2>2 DEF Skips, Looks, Rereads, Releases, Suspended, Rests, Finishes, Reads, Starts, flowVars
    <2> QED BY <1>3, <2>1, <2>2 DEF Plays
  <1>4. ASSUME NEW p \in Procs, Expires(p) PROVE Kept
    BY <1>4 DEF Expires
  <1>5. UNCHANGED vars => Kept
    BY DEF vars, flowVars
  <1> QED BY <1>1, <1>2, <1>3, <1>4, <1>5, Played

\* A job serves the links it served, but for the one it has just served.
LEMMA ServesKept ==
    ASSUME Plain, CInv, [Next]_vars, NEW v \in Workers, ~(\E p \in Procs : \E x : Makes(v, p, x)),
           NEW u \in Procs, NEW k \in DOMAIN down[u], ~(Sends(v) /\ job[v].p = u /\ job[v].k = k)
    PROVE  Serves(v, u, k)' <=> Serves(v, u, k)
  <1> USE DEF CInv
  <1>1. CASE job'[v] = job[v]
    BY <1>1 DEF Serves, Works
  <1>2. CASE Plays(v)
    <2>1. k \in Nat
      <3>1. down[u] \in Seq(Procs \X Nat)
        BY DEF Shape
      <3> QED BY <3>1
    <2>2. CASE Suspended(v)
      <3>1. Works(v) /\ job[v].pc = "suspend" /\ job[v].k = 1 /\ job[v].n \in Nat
        BY <2>2 DEF Suspended, Jobs, Shape, IsJob
      <3>2. ASSUME job[v].n = 0 \/ down[job[v].p] = << >> PROVE ~Serves(v, u, k)
        BY <2>1, <3>1, <3>2 DEF Serves
      <3> QED BY <2>2, <3>1, <3>2 DEF Suspended, ClearsSelf, Clear, Goes, Serves
    <2>3. CASE Sends(v)
      <3>1. /\ Works(v) /\ job[v].pc = "send" /\ job[v].n \in Nat /\ job[v].k \in Nat
        BY <2>3 DEF Sends, Shape, IsJob
      <3>2. job[v].p = u => job[v].k # k
        BY <2>3
      <3>3. CASE job[v].k = job[v].n /\ ClearsSelf(v)
        BY <2>1, <3>1, <3>2, <3>3 DEF ClearsSelf, Clear, Goes, Serves
      <3>4. CASE /\ Goes(v, job[v].p, "send") /\ job'[v].n = job[v].n /\ job'[v].k = job[v].k + 1
        BY <2>1, <3>1, <3>2, <3>4 DEF Goes, Serves
      <3> QED BY <2>3, <3>3, <3>4 DEF Sends
    <2>4. CASE Closes(v)
      BY <1>1, <2>4 DEF Closes
    <2>5. CASE Skips(v) \/ Looks(v) \/ Rereads(v) \/ Releases(v) \/ Rests(v) \/ Finishes(v) \/ Reads(v)
      BY <2>5 DEF Skips, Looks, Rereads, Releases, Rests, Finishes, Reads, Called, Goes, Clear, Ends, Takes, Works,
                  Serves
    <2>6. ASSUME NEW p \in Procs, Starts(v, p) PROVE Serves(v, u, k)' <=> Serves(v, u, k)
      BY <1>1, <2>6 DEF Starts, Takes, Goes, Clear, Works, Serves
    <2>7. CASE Codes(v)
      <3>1. PICK p \in Procs : Coding(v, p)
        BY <2>7, CodeOf
      <3>2. CASE Works(v)
        <4>1. job[v].p = p /\ job[v].pc \in {"apply", "decide"}
          BY <3>1, <3>2, Coded
        <4>2. ~Makes(v, p, Error) /\ ~Makes(v, p, Result(job[v].msg)) /\ ~Makes(v, p, YieldResult(p))
          OBVIOUS
        <4>3. Goes(v, p, "done") \/ Ends(v) \/ Goes(v, p, "decide") \/ Goes(v, p, "dequeue")
          BY <3>1, <3>2, <4>1, <4>2 DEF Coding, Applies, Decides, Postponed
        <4> QED BY <4>1, <4>3 DEF Goes, Ends, Works, Serves
      <3>3. CASE ~Works(v)
        <4>1. Postponed(v, p) /\ ~Makes(v, p, YieldResult(p))
          BY <3>1, <3>3 DEF Coding
        <4> QED BY <1>1, <4>1 DEF Postponed
      <3> QED BY <3>2, <3>3
    <2> QED BY <1>2, <2>2, <2>3, <2>4, <2>5, <2>6, <2>7 DEF Plays
  <1> QED BY <1>1, <1>2, Moved

\* A link whose argument is given nothing, when its upstream has reached as much for it.
LEMMA LinkStays ==
    ASSUME Plain, CInv, HInv, [Next]_vars, NEW u \in Procs, NEW k \in DOMAIN down[u], NEW d,
           d = down[u][k], Alive(d[1])', put'[d[1]][d[2]] = put[d[1]][d[2]],
           NEW n, n = Reached(u, k), n > 0 => sent'[u][n] = sent[u][n]
    PROVE  UpTo(d[1], d[2], n)'
  <1> USE DEF CInv, HInv
  <1>1. d[1] \in made /\ d[1] \in Procs /\ d[2] \in DOMAIN Up(d[1]) /\ Up(d[1])[d[2]] = u
    BY DEF Built, Shape
  <1>2. Alive(d[1])
    BY <1>1, StaysGone
  <1>3. UpTo(d[1], d[2], n)
    BY <1>2 DEF Delivering
  <1>4. graph' = graph /\ Graph' = Graph /\ \A p : Up(p)' = Up(p)
    BY GraphStays, Frame
  <1> QED BY <1>1, <1>3, <1>4 DEF UpTo, Late, Last

LEMMA ReachedRange ==
    ASSUME Plain, CInv, HInv, NEW u \in Procs, NEW k \in DOMAIN down[u]
    PROVE  Reached(u, k) \in Nat /\ Reached(u, k) <= Len(sent[u]) /\ IsSeq(sent[u]) /\ Len(sent[u]) \in Nat
  <1>1. IsSeq(sent[u]) /\ Len(sent[u]) \in Nat /\ (sent[u] # << >> => Len(sent[u]) > 0)
    BY SeqOps DEF HInv, Histories
  <1>2. ASSUME NEW w \in Workers, Serves(w, u, k) PROVE sent[u] # << >>
    BY <1>2 DEF Serves, HInv, Outgoing
  <1>3. CASE \E w \in Workers : Serves(w, u, k)
    <2>1. Len(sent[u]) > 0 /\ Reached(u, k) = Len(sent[u]) - 1
      BY <1>1, <1>2, <1>3 DEF Reached
    <2> QED BY <1>1, <2>1
  <1>4. CASE ~(\E w \in Workers : Serves(w, u, k))
    <2>1. Reached(u, k) = Len(sent[u])
      BY <1>1, <1>4 DEF Reached
    <2> QED BY <1>1, <2>1
  <1> QED BY <1>3, <1>4

LEMMA DeliveringStep ==
    ASSUME Plain, CInv, HInv, [Next]_vars PROVE Delivering'
  <1> USE DEF CInv, HInv
  <1>1. /\ graph' = graph /\ Procs' = Procs /\ Graph' = Graph /\ \A p : Up(p)' = Up(p)
    BY GraphStays, Frame
  <1> DEFINE Busy(u, k) == \E w \in Workers : Serves(w, u, k)
  <1> SUFFICES ASSUME NEW u \in Procs, NEW h \in DOMAIN down'[u], NEW d, d = down'[u][h], Alive(d[1])'
               PROVE  UpTo(d[1], d[2], Reached(u, h))'
    BY <1>1 DEF Delivering
  <1>2. /\ down \in [Procs -> Seq(Procs \X Nat)] /\ job = [w \in Workers |-> job[w]]
        /\ down[u] \in Seq(Procs \X Nat)
    BY DEF Shape
  <1>3. ASSUME NEW n, Reached(u, h)' = n, UpTo(d[1], d[2], n)' PROVE UpTo(d[1], d[2], Reached(u, h))'
    BY <1>3 DEF UpTo
  \* The link is as it was, and so is what its upstream has reached for it.
  <1>4. ASSUME NEW k \in DOMAIN down[u], d = down[u][k], put'[d[1]][d[2]] = put[d[1]][d[2]],
               Len(sent'[u]) - (IF Busy(u, h)' THEN 1 ELSE 0) = Reached(u, k),
               Reached(u, k) > 0 => sent'[u][Reached(u, k)] = sent[u][Reached(u, k)]
        PROVE  UpTo(d[1], d[2], Reached(u, h))'
    <2>1. Reached(u, h)' = Reached(u, k)
      BY <1>4 DEF Reached
    <2>2. PICK n : n = Reached(u, k)
      OBVIOUS
    <2>3. UpTo(d[1], d[2], n)'
      BY <1>4, <2>2, LinkStays
    <2> QED BY <1>3, <2>1, <2>2, <2>3
  <1>5. ASSUME NEW k \in DOMAIN down[u], d = down[u][k], put'[d[1]][d[2]] = put[d[1]][d[2]],
               sent'[u] = sent[u], Busy(u, h)' <=> Busy(u, k)
        PROVE  UpTo(d[1], d[2], Reached(u, h))'
    <2>1. Len(sent'[u]) - (IF Busy(u, h)' THEN 1 ELSE 0) = Reached(u, k)
      BY <1>5 DEF Reached
    <2> QED BY <1>4, <1>5, <2>1
  \* Nobody makes anything.
  <1>6. ASSUME UNCHANGED sent PROVE \A v \in Workers : ~(\E p \in Procs : \E x : Makes(v, p, x))
    <2> SUFFICES ASSUME NEW v \in Workers, NEW p \in Procs, NEW x, Makes(v, p, x) PROVE FALSE
      OBVIOUS
    <2>1. sent'[p] = Append(sent[p], x) /\ IsSeq(sent[p])
      BY DEF Makes, Histories
    <2>2. Len(Append(sent[p], x)) = Len(sent[p]) + 1 /\ Len(sent[p]) \in Nat
      BY <2>1, SeqOps
    <2> QED BY <1>6, <2>1, <2>2
  <1>7. ASSUME NEW w \in Workers, NEW p \in Procs, NEW x, Coding(w, p), Makes(w, p, x)
        PROVE  UpTo(d[1], d[2], Reached(u, h))'
    <2>1. /\ UNCHANGED << down, put >> /\ Others(w) /\ Works(w)' /\ job'[w].p = p
          /\ \A v \in Workers : v # w /\ Works(v) => job[v].p # p
          /\ Works(w) => job[w].p = p /\ job[w].pc \in {"apply", "decide"}
      BY <1>7, Coded DEF flowVars, Makes, Suspends, Goes
    <2>2. \A v \in Workers : v # w => job'[v] = job[v]
      BY <2>1 DEF Others
    <2>3. CASE u # p
      <3>1. sent'[u] = sent[u]
        BY <1>7, <2>3 DEF Makes, Histories
      <3>2. \A v \in Workers : Serves(v, u, h)' <=> Serves(v, u, h)
        BY <2>1, <2>2, <2>3 DEF Serves, Works
      <3>3. Busy(u, h)' <=> Busy(u, h)
        BY <3>2
      <3> HIDE DEF Busy
      <3> QED BY <1>5, <2>1, <3>1, <3>3
    <2>4. CASE u = p
      <3>1. sent'[u] = Append(sent[u], x)
        BY <1>7, <2>4 DEF Makes, Histories
      <3>2. ~Busy(u, h)
        BY <2>1, <2>4 DEF Serves
      <3>3. Busy(u, h)'
        <4>1. job'[w].pc = "suspend" /\ job'[w].k = 1 /\ job'[w].n = downstream_size(p)
          BY <1>7 DEF Makes, Suspends, Goes
        <4>2. h \in 1..Len(down[u]) /\ Len(down[u]) \in Nat
          BY <1>2, <2>1
        <4>3. h <= downstream_size(p)
          BY <2>4, <4>2 DEF Built, downstream_size
        <4> QED BY <2>1, <2>4, <4>1, <4>2, <4>3 DEF Serves
      <3>4. /\ Len(Append(sent[u], x)) = Len(sent[u]) + 1 /\ Len(sent[u]) \in Nat
            /\ \A n \in 1..Len(sent[u]) : Append(sent[u], x)[n] = sent[u][n]
        BY Grown DEF Histories
      <3>5. Reached(u, h) = Len(sent[u])
        BY <3>2, <3>4 DEF Reached
      <3>6. Len(sent'[u]) - (IF Busy(u, h)' THEN 1 ELSE 0) = Reached(u, h)
        <4>1. (IF Busy(u, h)' THEN 1 ELSE 0) = 1
          BY <3>3
        <4>2. Len(sent'[u]) - (IF Busy(u, h)' THEN 1 ELSE 0) = Len(sent'[u]) - 1
          BY <4>1
        <4>3. Len(sent'[u]) - 1 = Len(sent[u])
          BY <3>1, <3>4
        <4> QED BY <3>5, <4>2, <4>3
      <3>7. Reached(u, h) > 0 => sent'[u][Reached(u, h)] = sent[u][Reached(u, h)]
        BY <3>1, <3>4, <3>5
      <3> HIDE DEF Busy
      <3> QED BY <1>4, <2>1, <3>6, <3>7
    <2> QED BY <2>3, <2>4
  <1>8. ASSUME NEW w \in Workers, Sends(w) PROVE UpTo(d[1], d[2], Reached(u, h))'
    <2> DEFINE p == job[w].p
               e == down[p][job[w].k]
               x == job[w].out
    <2>1. /\ Works(w) /\ p \in made /\ p \in Procs /\ job[w].k \in DOMAIN down[p] /\ job[w].pc = "send"
          /\ e[1] \in made /\ e[1] \in Procs /\ e[2] \in DOMAIN Up(e[1]) /\ Up(e[1])[e[2]] = p
      BY <1>8, Sending DEF Shape
    <2>2. UNCHANGED << down, sent >> /\ \A v \in Workers : v # w => job'[v] = job[v]
      BY <1>8 DEF Sends, ClearsSelf, Clear, Goes, Others
    <2>3. h \in DOMAIN down[u] /\ d = down[u][h] /\ d[1] \in made /\ d[1] \in Procs
          /\ d[2] \in DOMAIN Up(d[1]) /\ Up(d[1])[d[2]] = u
      BY <2>2 DEF Built, Shape
    <2>4. e[2] \in 1..Arity(e[1]) /\ d[2] \in 1..Arity(d[1])
      BY <2>1, <2>3, Nodes DEF Shape
    <2>5. (Alive(e[1]) /\ Gives(e[1], e[2], x)) \/ (~Alive(e[1]) /\ put' = put)
      BY <1>8, GivesSending
    <2>6. \A v \in Workers : ~(\E q \in Procs : \E y : Makes(v, q, y))
      BY <1>6, <2>2
    <2>7. \A v \in Workers : Sends(v) => v = w
      BY <1>8, <2>2, SendsMoves
    <2>8. CASE ~(u = p /\ h = job[w].k)
      <3>1. Busy(u, h)' <=> Busy(u, h)
        <4>1. \A v \in Workers : Serves(v, u, h)' <=> Serves(v, u, h)
          BY <2>3, <2>6, <2>7, <2>8, ServesKept
        <4> QED BY <4>1
      <3>2. ~(d[1] = e[1] /\ d[2] = e[2])
        <4>1. CASE u = p
          BY <2>1, <2>3, <2>8, <4>1 DEF Built
        <4>2. CASE u # p
          BY <2>1, <2>3, <4>2
        <4> QED BY <4>1, <4>2
      <3>3. put'[d[1]][d[2]] = put[d[1]][d[2]]
        <4>1. ASSUME NEW q, NEW i, NEW m, q = e[1], i = e[2], Gives(q, i, m)
              PROVE  put'[d[1]][d[2]] = put[d[1]][d[2]]
          BY <2>1, <2>3, <2>4, <3>2, <4>1, WrittenPut
        <4> QED BY <2>5, <4>1
      <3> HIDE DEF Busy
      <3> QED BY <1>5, <2>2, <2>3, <3>1, <3>3
    <2>9. CASE u = p /\ h = job[w].k
      <3>1. d = e /\ Alive(e[1])
        BY <2>3, <2>9, StaysGone
      <3>2. put'[d[1]][d[2]] = Append(put[d[1]][d[2]], x)
        <4>1. ASSUME NEW q \in Procs, NEW i \in 1..Arity(q), NEW m, Gives(q, i, m)
              PROVE  put'[q][i] = Append(put[q][i], m)
          BY <4>1, WrittenPut
        <4>2. PICK q \in Procs : q = e[1]
          BY <2>1
        <4>3. PICK i \in 1..Arity(q) : i = e[2]
          BY <2>4, <4>2
        <4>4. PICK m : m = x
          OBVIOUS
        <4>5. put'[q][i] = Append(put[q][i], m)
          BY <2>5, <3>1, <4>1, <4>2, <4>3, <4>4
        <4> QED BY <3>1, <4>2, <4>3, <4>4, <4>5
      <3>3. put'[d[1]][d[2]] # << >> /\ Last(put'[d[1]][d[2]]) = x
        <4>1. IsSeq(put[d[1]][d[2]])
          BY <2>3, <2>4 DEF Histories
        <4>2. PICK t : t = put[d[1]][d[2]]
          OBVIOUS
        <4>3. Append(t, x) # << >> /\ Last(Append(t, x)) = x
          BY <4>1, <4>2, Grown
        <4> QED BY <3>2, <4>2, <4>3
      <3>4. sent[u] # << >> /\ x = Last(sent[u]) /\ Len(sent[u]) \in Nat /\ Len(sent[u]) > 0
        <4>1. sent[u] # << >> /\ x = Last(sent[u])
          BY <2>1, <2>9 DEF Outgoing
        <4> QED BY <4>1, SeqOps DEF Histories
      <3>5. ~Busy(u, h)'
        <4>1. \A v \in Workers : v # w /\ Works(v) => job[v].p # p
          BY <2>1 DEF Rights
        <4>2. \A v \in Workers : v # w => ~Serves(v, u, h)'
          BY <2>2, <2>9, <4>1 DEF Serves, Works
        <4>3. job[w].k \in Nat
          BY <2>1 DEF Shape, IsJob
        <4>4. ~Serves(w, u, h)'
          BY <1>8, <2>9, <4>3 DEF Sends, ClearsSelf, Clear, Goes, Serves
        <4> QED BY <4>2, <4>4
      <3>6. Reached(u, h)' = Len(sent[u])
        BY <2>2, <3>4, <3>5 DEF Reached
      <3>7. PICK n : n = Len(sent[u])
        OBVIOUS
      <3>8. UpTo(d[1], d[2], n)'
        BY <1>1, <2>2, <2>3, <3>3, <3>4, <3>7 DEF UpTo, Last
      <3> QED BY <1>3, <3>6, <3>7, <3>8
    <2> QED BY <2>8, <2>9
  <1>9. ASSUME NEW w \in Workers, Closes(w) PROVE UpTo(d[1], d[2], Reached(u, h))'
    <2> DEFINE p == job[w].p
    <2>1. /\ Works(w) /\ p \in Procs /\ job[w].pc = "finish" /\ UNCHANGED << job, sent, put >>
          /\ down[p] # << >> /\ down' = [down EXCEPT ![p] = Tail(@)]
      BY <1>9 DEF Closes, Shape, IsJob
    <2>2. CASE u # p
      <3>1. h \in DOMAIN down[u] /\ d = down[u][h]
        BY <1>2, <2>1, <2>2
      <3>2. Busy(u, h)' <=> Busy(u, h)
        BY <2>1 DEF Serves, Works
      <3> HIDE DEF Busy
      <3> QED BY <1>5, <2>1, <3>1, <3>2
    <2>3. CASE u = p
      <3>1. down'[u] = Tail(down[u]) /\ down[u] # << >>
        BY <1>2, <2>1, <2>3
      <3>2. h + 1 \in DOMAIN down[u] /\ d = down[u][h + 1]
        BY <1>2, <3>1
      <3>3. \A k : ~Busy(u, k) /\ ~Busy(u, k)'
        BY <2>1, <2>3 DEF Serves, Works, Rights
      <3> HIDE DEF Busy
      <3> QED BY <1>5, <2>1, <3>2, <3>3
    <2> QED BY <2>2, <2>3
  <1>10. ASSUME NEW r \in Procs, Attach(r) PROVE UpTo(d[1], d[2], Reached(u, h))'
    <2>1. /\ r \notin made /\ UNCHANGED << sent, put, job >>
          /\ down' = [v \in Procs |-> IF \E i \in DOMAIN Up(r) : Up(r)[i] = v
                                      THEN append_receiver(v, << r, ArgumentFrom(r, v) >>)
                                      ELSE down[v]]
      BY <1>10 DEF Attach, flowVars
    <2> DEFINE a == ArgumentFrom(r, u)
               s == << r, a >>
    <2>2. CASE h \in DOMAIN down[u] /\ d = down[u][h]
      <3>1. Busy(u, h)' <=> Busy(u, h)
        BY <2>1 DEF Serves, Works
      <3> HIDE DEF Busy
      <3> QED BY <1>5, <2>1, <2>2, <3>1
    <2>3. CASE d = s /\ \E i \in DOMAIN Up(r) : Up(r)[i] = u
      <3>1. a \in DOMAIN Up(r) /\ Up(r)[a] = u
        BY <2>3 DEF ArgumentFrom
      <3>2. put'[r][a] = << >>
        BY <2>1, <3>1 DEF Starting
      <3>3. ASSUME ~Late(r, a) PROVE Reached(u, h)' = 0
        <4> HIDE DEF a, s
        <4>0. Len(Up(r)) \in Nat
          BY Nodes DEF Shape
        <4>1. ~(Len(Up(r)) > 1) /\ ~Graph[u].void
          BY <3>1, <3>3 DEF Late
        <4>2. open[u] > 0
          BY <1>10, <3>1, <4>0, <4>1 DEF Attach
        <4>3. sent[u] = << >> /\ \A w \in Workers : Works(w) => job[w].p # u
          BY <4>1, <4>2 DEF Starting, Untouched
        <4>4. ~Busy(u, h)'
          BY <2>1, <4>3 DEF Serves, Works
        <4>5. Len(sent'[u]) = 0
          BY <2>1, <4>3
        <4>6. Reached(u, h)' = Len(sent'[u]) - 0
          BY <4>4 DEF Reached
        <4> QED BY <4>5, <4>6
      <3>4. PICK n : n = Reached(u, h)'
        OBVIOUS
      <3>5. UpTo(d[1], d[2], n)'
        BY <1>1, <2>3, <3>2, <3>3, <3>4 DEF UpTo, Late
      <3> QED BY <1>3, <3>4, <3>5
    <2>4. CASE ~(\E i \in DOMAIN Up(r) : Up(r)[i] = u)
      BY <1>2, <2>1, <2>2, <2>4
    <2>5. CASE \E i \in DOMAIN Up(r) : Up(r)[i] = u
      <3>1. down'[u] = IF Graph[u].moveOnly THEN << s >> ELSE Append(down[u], s)
        BY <2>1, <2>5 DEF append_receiver
      <3>2. CASE Graph[u].moveOnly
        <4>1. d = s
          BY <3>1, <3>2
        <4> QED BY <2>3, <2>5, <4>1
      <3>3. CASE ~Graph[u].moveOnly
        <4> HIDE DEF s
        <4>1. down[u] \in Seq((Procs \X Nat) \cup {s})
          BY <1>2, SeqMonotonic
        <4>2. \/ h \in DOMAIN down[u] /\ Append(down[u], s)[h] = down[u][h]
              \/ Append(down[u], s)[h] = s
          BY <3>1, <3>3, <4>1
        <4> QED BY <2>2, <2>3, <2>5, <3>1, <3>3, <4>2
      <3> QED BY <3>2, <3>3
    <2> QED BY <2>4, <2>5
  <1>11. ASSUME UNCHANGED << down, sent >>, \A w \in Workers : ~Sends(w),
                \A p \in Procs : \A i \in DOMAIN Up(p) : put'[p][i] = put[p][i]
         PROVE  UpTo(d[1], d[2], Reached(u, h))'
    <2>1. h \in DOMAIN down[u] /\ d = down[u][h]
      BY <1>11
    <2>2. \A v \in Workers : Serves(v, u, h)' <=> Serves(v, u, h)
      BY <1>6, <1>11, <2>1, ServesKept
    <2>3. Busy(u, h)' <=> Busy(u, h)
      BY <2>2
    <2>4. d[1] \in Procs /\ d[2] \in DOMAIN Up(d[1])
      BY <2>1 DEF Built, Shape
    <2> HIDE DEF Busy
    <2> QED BY <1>5, <1>11, <2>1, <2>3, <2>4
  <1> QED BY <1>7, <1>8, <1>9, <1>10, <1>11, Deeds

-----------------------------------------------------------------------------
(***************************************************************************)
(* The close.                                                              *)
(***************************************************************************)
\* A process that has stopped makes nothing more.
LEMMA StoppedStays ==
    ASSUME Plain, CInv, HInv, [Next]_vars, NEW u \in Procs, Stopped(u)
    PROVE  Stopped(u)' /\ sent'[u] = sent[u]
  <1> USE DEF CInv, HInv
  <1>1. graph' = graph /\ Graph' = Graph
    BY GraphStays, Frame
  <1>2. /\ final[u] /\ delayed[u] = 0 /\ pending[u] = 0
        /\ Graph[u].kind = "process" => ~process[u].yields
        /\ \A w \in Workers : Works(w) /\ job[w].p = u => job[w].pc = "finish"
    BY DEF Stopped, Closing
  <1>3. final'[u]
    <2>1. final'[u] = final[u]
      BY <1>2, FinalChanges
    <2> QED BY <1>2, <2>1
  <1>4. \A w \in Workers : ~Coding(w, u)
    <2> SUFFICES ASSUME NEW w \in Workers, Coding(w, u) PROVE FALSE
      OBVIOUS
    <2>1. CASE Works(w)
      <3>1. job[w].p = u /\ job[w].pc \in {"apply", "decide"}
        BY <2>1, Coded
      <3> QED BY <1>2, <2>1, <3>1
    <2>2. CASE ~Works(w)
      BY <1>2, <2>2 DEF Coding, Postponed
    <2> QED BY <2>1, <2>2
  <1>5. /\ sent'[u] = sent[u] /\ delayed'[u] = 0
        /\ Graph[u].kind = "process" => ~process'[u].yields
    <2> DEFINE G == /\ sent'[u] = sent[u] /\ delayed'[u] = 0
                    /\ Graph[u].kind = "process" => ~process'[u].yields
    <2>1. ASSUME NEW w \in Workers, NEW p \in Procs, Coding(w, p) PROVE G
      <3>1. p # u
        BY <1>4, <2>1
      <3>2. process'[u] = process[u] /\ delayed'[u] = delayed[u]
        BY <2>1, <3>1, Coded
      <3>3. sent' = sent \/ \E x : sent' = [sent EXCEPT ![p] = Append(@, x)]
        BY <2>1, Coded DEF Makes
      <3> QED BY <1>2, <3>1, <3>2, <3>3 DEF Histories
    <2>2. ASSUME NEW w \in Workers, UNCHANGED sent, Finishes(w) PROVE G
      <3>1. process'[u] = process[u] \/ process'[u] = Reset
        BY <2>2 DEF Finishes, Shape
      <3>2. delayed' = delayed
        BY <2>2 DEF Finishes
      <3> QED BY <1>2, <2>2, <3>1, <3>2 DEF Reset
    <2>3. ASSUME UNCHANGED << process, sent >>,
                 delayed' = delayed \/ \E p \in Procs : delayed' = [delayed EXCEPT ![p] = 0]
          PROVE  G
      <3>1. delayed'[u] = 0
        BY <1>2, <2>3 DEF Shape
      <3> QED BY <1>2, <2>3, <3>1
    <2> HIDE DEF G
    <2>4. G
      BY <2>1, <2>2, <2>3, Voices, CodeOf
    <2> QED BY <2>4 DEF G
  <1>6. ASSUME NEW v \in Workers, Works(v)', job'[v].p = u PROVE job'[v].pc = "finish"
    <2>1. Works(v) /\ job[v].p = u
      <3>1. ~(pending[u] + delayed[u] > 0)
        BY <1>2
      <3> QED BY <1>6, <3>1, Begun
    <2>2. job[v].pc = "finish"
      BY <1>2, <2>1
    <2>3. CASE job'[v] = job[v]
      BY <2>2, <2>3
    <2>4. CASE Plays(v)
      <3>1. Closes(v) \/ Finishes(v)
        BY <2>1, <2>2, <2>4 DEF Plays, Skips, Looks, Rereads, Releases, Suspended, Sends, Rests, Reads, Codes, Applies,
                                Decides, Postponed, Starts
      <3> QED BY <1>6, <2>2, <3>1 DEF Closes, Finishes, Ends, Works
    <2> QED BY <2>3, <2>4, Moved
  <1> QED BY <1>1, <1>3, <1>5, <1>6 DEF Stopped

\* What the argument of a link is given comes from a job that sends.
LEMMA GivenBy ==
    ASSUME Plain, CInv, HInv, [Next]_vars, NEW p \in Procs, NEW i \in DOMAIN Up(p)
    PROVE  \/ put'[p][i] = put[p][i]
           \/ \E w \in Workers : Sends(w) /\ job[w].p = Up(p)[i]
  <1> USE DEF CInv, HInv
  <1>1. ASSUME NEW w \in Workers, Sends(w), put'[p][i] # put[p][i] PROVE job[w].p = Up(p)[i]
    <2> DEFINE e == down[job[w].p][job[w].k]
    <2>1. /\ e[1] \in made /\ e[1] \in Procs /\ e[2] \in DOMAIN Up(e[1]) /\ Up(e[1])[e[2]] = job[w].p
      BY <1>1, Sending DEF Shape
    <2>2. PICK q \in Procs : q = e[1]
      BY <2>1
    <2>3. e[2] \in 1..Arity(q) /\ i \in 1..Arity(p)
      BY <2>1, <2>2, Nodes DEF Shape
    <2>4. PICK h \in 1..Arity(q) : h = e[2]
      BY <2>3
    <2>5. PICK m : m = job[w].out
      OBVIOUS
    <2>6. Gives(q, h, m)
      <3>1. Gives(e[1], e[2], job[w].out) \/ put' = put
        BY <1>1, GivesSending
      <3> QED BY <1>1, <2>2, <2>4, <2>5, <3>1
    <2>7. p = q /\ i = h
      BY <1>1, <2>3, <2>6, WrittenPut
    <2> QED BY <2>1, <2>2, <2>4, <2>7
  <1>2. ASSUME NEW w \in Workers, NEW q \in Procs, Coding(w, q) PROVE put' = put
    BY <1>2, Coded DEF flowVars
  <1>3. ASSUME (\E w \in Workers : Closes(w)) \/ (\E r \in Procs : Attach(r)) PROVE put' = put
    BY <1>3 DEF Closes, Attach, flowVars
  <1> QED BY <1>1, <1>2, <1>3, Deeds

LEMMA EndedStays ==
    ASSUME Plain, CInv, HInv, [Next]_vars, NEW p \in Procs, NEW i \in DOMAIN Up(p), Ended(p, i)
    PROVE  Ended(p, i)'
  <1> USE DEF CInv, HInv
  <1>1. graph' = graph /\ Graph' = Graph /\ \A q : Up(q)' = Up(q)
    BY GraphStays, Frame
  <1> DEFINE u == Up(p)[i]
  <1>2. u \in Procs /\ Stopped(u) /\ UpTo(p, i, Len(sent[u]))
    BY Nodes DEF Ended, Shape
  <1>3. PICK x \in Procs : x = u
    BY <1>2
  <1>4. Stopped(x)' /\ sent'[x] = sent[x]
    BY <1>2, <1>3, StoppedStays
  <1>5. put'[p][i] = put[p][i]
    <2>1. \A w \in Workers : ~(Sends(w) /\ job[w].p = u)
      BY <1>2 DEF Stopped, Sends
    <2> QED BY <2>1, GivenBy
  <1>6. UpTo(p, i, Len(sent[x]))'
    BY <1>1, <1>2, <1>3, <1>4, <1>5 DEF UpTo, Late, Last
  <1> QED BY <1>1, <1>3, <1>4, <1>6 DEF Ended

LEMMA FeedingStays ==
    ASSUME Plain, CInv, HInv, [Next]_vars, NEW p \in made
    PROVE  Feeding(p)' \subseteq Feeding(p)
  <1> USE DEF CInv, HInv
  <1>1. graph' = graph /\ p \in Procs /\ \A q : Up(q)' = Up(q)
    BY GraphStays, Frame DEF Shape
  <1>2. ASSUME NEW u \in Procs, NEW k \in DOMAIN down'[u], NEW i, down'[u][k] = << p, i >>
        PROVE  \E h \in DOMAIN down[u] : down[u][h] = << p, i >>
    <2>1. down \in [Procs -> Seq(Procs \X Nat)] /\ down[u] \in Seq(Procs \X Nat)
      BY DEF Shape
    <2>2. ASSUME NEW w \in Workers, Closes(w) PROVE \E h \in DOMAIN down[u] : down[u][h] = << p, i >>
      <3>1. down[job[w].p] # << >> /\ down' = [down EXCEPT ![job[w].p] = Tail(@)]
        BY <2>2 DEF Closes
      <3>2. CASE u = job[w].p
        <4>1. down'[u] = Tail(down[u]) /\ down[u] # << >>
          BY <2>1, <3>1, <3>2
        <4>2. k + 1 \in DOMAIN down[u] /\ down'[u][k] = down[u][k + 1]
          BY <1>2, <2>1, <4>1
        <4> QED BY <1>2, <4>2
      <3>3. CASE u # job[w].p
        <4>1. down'[u] = down[u]
          BY <2>1, <3>1, <3>3
        <4> QED BY <1>2, <4>1
      <3> QED BY <3>2, <3>3
    <2>3. ASSUME NEW r \in Procs, Attach(r) PROVE \E h \in DOMAIN down[u] : down[u][h] = << p, i >>
      <3> DEFINE s == << r, ArgumentFrom(r, u) >>
      <3>1. /\ r \notin made
            /\ down' = [v \in Procs |-> IF \E j \in DOMAIN Up(r) : Up(r)[j] = v
                                        THEN append_receiver(v, << r, ArgumentFrom(r, v) >>)
                                        ELSE down[v]]
        BY <2>3 DEF Attach
      <3>2. down'[u] = << s >> \/ down'[u] = Append(down[u], s) \/ down'[u] = down[u]
        BY <3>1 DEF append_receiver
      <3>3. s # << p, i >>
        BY <3>1
      <3> HIDE DEF s
      <3>4. down'[u] # << s >>
        BY <1>2, <3>3
      <3>5. CASE down'[u] = Append(down[u], s)
        <4>1. down[u] \in Seq((Procs \X Nat) \cup {s})
          BY <2>1, SeqMonotonic
        <4>2. \/ k \in DOMAIN down[u] /\ Append(down[u], s)[k] = down[u][k]
              \/ Append(down[u], s)[k] = s
          BY <1>2, <3>5, <4>1
        <4> QED BY <1>2, <3>3, <3>5, <4>2
      <3> QED BY <1>2, <3>2, <3>4, <3>5
    <2>4. ASSUME down' = down PROVE \E h \in DOMAIN down[u] : down[u][h] = << p, i >>
      BY <1>2, <2>4
    <2>5. ASSUME NEW w \in Workers, NEW q \in Procs, Coding(w, q) PROVE down' = down
      BY <2>5, Coded
    <2>6. ASSUME NEW w \in Workers, Sends(w) PROVE down' = down
      BY <2>6 DEF Sends
    <2> QED BY <2>2, <2>3, <2>4, <2>5, <2>6, Deeds
  <1>3. \A i \in DOMAIN Up(p) : Up(p)[i] \in Procs
    BY <1>1, Nodes DEF Shape
  <1> QED BY <1>1, <1>2, <1>3 DEF Feeding

\* The senders to a process that has an upstream go with the links.
LEMMA SendersStay ==
    ASSUME Plain, CInv, HInv, [Next]_vars, NEW p \in Procs, Up(p) # << >>
    PROVE  \/ senders'[p] = senders[p]
           \/ \E w \in Workers : Closes(w) /\ Alive(p) /\ p = Head(down[job[w].p])[1]
                                 /\ senders'[p] = senders[p] - 1
  <1> USE DEF CInv, HInv
  <1>0. senders \in [Procs -> Nat] /\ handles \in [Procs -> Nat]
    BY DEF Shape
  <1>1. ASSUME NEW q \in Procs, CopySender(q) \/ CloseSender(q) \/ AssignSender(q)
        PROVE  senders'[p] = senders[p]
    <2>1. handles[q] > 0
      BY <1>0, <1>1 DEF CopySender, CloseSender, AssignSender
    <2>2. q # p
      BY <2>1 DEF Built
    <2>3. senders' = senders \/ \E n : senders' = [senders EXCEPT ![q] = n]
      BY <1>1 DEF CopySender, CloseSender, AssignSender, remove_sender
    <2> QED BY <1>0, <2>2, <2>3
  <1>2. ASSUME NEW q \in Procs,
               Attach(q) \/ CopyReceiver(q) \/ SetReady(q) \/ DestroyReceiver(q) \/ StartReady(q) \/ Send(q)
        PROVE  senders' = senders
    BY <1>2 DEF Attach, CopyReceiver, SetReady, DestroyReceiver, StartReady, Send
  <1>3. ASSUME NEW w \in Workers, Closes(w)
        PROVE  \/ senders'[p] = senders[p]
               \/ Alive(p) /\ p = Head(down[job[w].p])[1] /\ senders'[p] = senders[p] - 1
    <2>1. PICK q : q = Head(down[job[w].p])[1]
      OBVIOUS
    <2>2. (Alive(q) /\ senders' = [senders EXCEPT ![q] = @ - 1]) \/ senders' = senders
      BY <1>3, <2>1 DEF Closes, remove_sender
    <2> QED BY <1>0, <2>1, <2>2
  <1>4. ASSUME NEW w \in Workers, Runs(w), ~Closes(w) PROVE senders' = senders
    BY <1>4, CountsFrame
  <1>5. ASSUME (\E q \in Procs : Expires(q)) \/ UNCHANGED vars PROVE senders' = senders
    BY <1>5 DEF Expires, vars
  <1> QED BY <1>1, <1>2, <1>3, <1>4, <1>5, GraphStays DEF Flat, UserNext

LEMMA OpeningStep ==
    ASSUME Plain, CInv, HInv, [Next]_vars PROVE Opening'
  <1> USE DEF CInv, HInv
  <1>1. /\ graph' = graph /\ graph \in DOMAIN Graphs /\ Procs' = Procs /\ \A q : Up(q)' = Up(q)
    BY GraphStays, Frame DEF Shape
  <1>2. Shape'
    BY ShapeStep
  <1> SUFFICES ASSUME NEW p \in made', Up(p) # << >>, Alive(p)'
               PROVE  Cardinality(Unended(p)') <= senders'[p]
    BY <1>1 DEF Opening
  <1>3. p \in Procs /\ senders[p] \in Nat
    BY <1>1, <1>2 DEF Shape
  <1>4. Unended(p) \subseteq DOMAIN Up(p) /\ Unended(p)' \subseteq DOMAIN Up(p)
    BY <1>1 DEF Unended, Feeding
  <1>5. CASE p \notin made
    <2>1. senders'[p] = senders[p]
      <3>1. ASSUME NEW w \in Workers, Closes(w), p = Head(down[job[w].p])[1] PROVE FALSE
        <4>1. down[job[w].p] # << >> /\ job[w].p \in Procs
          BY <3>1 DEF Closes, Shape, IsJob
        <4>2. down[job[w].p] \in Seq(Procs \X Nat)
          BY <4>1 DEF Shape
        <4>3. 1 \in DOMAIN down[job[w].p] /\ Head(down[job[w].p]) = down[job[w].p][1]
          BY <4>1, <4>2
        <4> QED BY <1>5, <3>1, <4>1, <4>3 DEF Built
      <3> QED BY <1>3, <3>1, SendersStay
    <2>2. senders[p] = Arity(p)
      BY <1>3, <1>5 DEF Counts
    <2>3. Cardinality(Unended(p)') <= Arity(p)
      <3> HIDE DEF Unended
      <3> QED BY <1>1, <1>3, <1>4, ArgumentSets
    <2> QED BY <2>1, <2>2, <2>3
  <1>6. CASE p \in made
    <2>1. Alive(p) /\ Cardinality(Unended(p)) <= senders[p]
      <3>1. Alive(p)
        BY <1>6, StaysGone
      <3> QED BY <1>6, <3>1 DEF Opening
    <2>2. Unended(p)' \subseteq Unended(p)
      <3>1. Feeding(p)' \subseteq Feeding(p)
        BY <1>6, FeedingStays
      <3>2. \A i \in DOMAIN Up(p) : Ended(p, i) => Ended(p, i)'
        BY <1>3, EndedStays
      <3> QED BY <1>1, <3>1, <3>2 DEF Unended
    <2>3. CASE senders'[p] = senders[p]
      <3> HIDE DEF Unended
      <3>1. Cardinality(Unended(p)') \in Nat /\ Cardinality(Unended(p)) \in Nat
            /\ Cardinality(Unended(p)') <= Cardinality(Unended(p))
        BY <1>1, <1>3, <1>4, <2>2, ArgumentSets
      <3> QED BY <1>3, <2>1, <2>3, <3>1
    <2>4. ASSUME NEW w \in Workers, Closes(w), p = Head(down[job[w].p])[1], senders'[p] = senders[p] - 1
          PROVE  Cardinality(Unended(p)') <= senders'[p]
      <3> DEFINE u == job[w].p
      <3>1. /\ Works(w) /\ job[w].pc = "finish" /\ u \in Procs
            /\ down[u] # << >> /\ down' = [down EXCEPT ![u] = Tail(@)]
        BY <2>4 DEF Closes, Shape, IsJob
      <3>2. down[u] \in Seq(Procs \X Nat) /\ down \in [Procs -> Seq(Procs \X Nat)]
        BY <3>1 DEF Shape
      <3>3. 1 \in DOMAIN down[u] /\ Head(down[u]) = down[u][1]
        BY <3>1, <3>2
      <3>4. PICK i : i = down[u][1][2]
        OBVIOUS
      <3>5. down[u][1] = << p, i >> /\ i \in DOMAIN Up(p) /\ Up(p)[i] = u
        <4>1. down[u][1] \in Procs \X Nat
          BY <3>2, <3>3
        <4>2. down[u][1][1] = p
          BY <2>4, <3>3
        <4>3. i \in DOMAIN Up(p) /\ Up(p)[i] = u
          BY <3>1, <3>3, <3>4, <4>2 DEF Built
        <4> QED BY <3>4, <4>1, <4>2, <4>3
      <3>6. i \in Unended(p)
        BY <3>3, <3>5 DEF Unended, Feeding
      <3>7. Stopped(u)
        <4>1. \A v \in Workers : Works(v) /\ job[v].p = u => v = w
          BY <3>1 DEF Rights
        <4>2. final[u]
          BY <3>1 DEF Jobs
        <4>3. delayed[u] = 0
          <5>1. ~(pending[u] + delayed[u] > 0) /\ pending[u] \in Nat /\ delayed[u] \in Nat
            BY <3>1 DEF Rights, Shape
          <5> QED BY <5>1
        <4>4. Graph[u].kind = "process" => ~process[u].yields
          BY <3>1 DEF Keeping
        <4> QED BY <3>1, <4>1, <4>2, <4>3, <4>4 DEF Stopped
      <3>8. Ended(p, i)
        <4>1. UpTo(p, i, Reached(u, 1))
          BY <2>1, <3>1, <3>3, <3>5 DEF Delivering
        <4>2. ~(\E v \in Workers : Serves(v, u, 1))
          BY <3>7 DEF Stopped, Serves
        <4>3. Len(sent[u]) \in Nat
          BY <3>1, SeqOps DEF Histories
        <4>4. Reached(u, 1) = Len(sent[u])
          BY <4>2, <4>3 DEF Reached
        <4> QED BY <3>5, <3>7, <4>1, <4>4 DEF Ended
      <3>9. i \notin Unended(p)'
        <4>1. Ended(p, i)'
          BY <1>3, <3>5, <3>8, EndedStays
        <4>2. \A k \in DOMAIN down'[u] : down'[u][k][1] # p
          <5>1. down'[u] = Tail(down[u])
            BY <3>1, <3>2
          <5>2. ASSUME NEW k \in DOMAIN Tail(down[u]), Tail(down[u])[k][1] = p PROVE FALSE
            <6>1. k + 1 \in DOMAIN down[u] /\ k + 1 # 1 /\ Tail(down[u])[k] = down[u][k + 1]
              <7> DEFINE s == down[u]
              <7>1. s \in Seq(Procs \X Nat) /\ s # << >> /\ k \in DOMAIN Tail(s)
                BY <3>1, <3>2, <5>2
              <7> HIDE DEF s
              <7>2. k + 1 \in DOMAIN s /\ k + 1 # 1 /\ Tail(s)[k] = s[k + 1]
                BY <7>1
              <7> QED BY <7>2 DEF s
            <6>2. down[u][k + 1][1] = down[u][1][1]
              BY <3>5, <5>2, <6>1
            <6> QED BY <3>1, <3>3, <6>1, <6>2 DEF Built
          <5> QED BY <5>1, <5>2
        <4>3. i \notin Feeding(p)'
          BY <1>1, <3>5, <4>2 DEF Feeding
        <4> QED BY <1>1, <4>1, <4>3 DEF Unended
      <3> HIDE DEF Unended
      <3>10. Unended(p)' \subseteq Unended(p) \ {i}
        BY <2>2, <3>9
      <3>11. Cardinality(Unended(p)') \in Nat /\ Cardinality(Unended(p)) \in Nat
             /\ Cardinality(Unended(p)') + 1 <= Cardinality(Unended(p))
        BY <1>1, <1>3, <1>4, <3>6, <3>10, ArgumentSets
      <3> QED BY <1>3, <2>1, <2>4, <3>11
    <2> QED BY <1>3, <2>3, <2>4, SendersStay
  <1> QED BY <1>5, <1>6

-----------------------------------------------------------------------------
(***************************************************************************)
(* The invariant.                                                          *)
(***************************************************************************)
LEMMA BeginsWell ==
    ASSUME Init, Plain PROVE HInv
  <1>1. CInv /\ graph \in DOMAIN Graphs
    BY InitHolds DEF Init
  <1>2. /\ \A w \in Workers : ~Works(w)
        /\ \A p \in Procs : /\ queue[p] = NewQueues(Arity(p)) /\ down[p] = << >> /\ ~final[p]
                            /\ sent[p] = << >> /\ put[p] = [i \in 1..Arity(p) |-> << >>]
                            /\ ~running[p] /\ checking[p] = 0 /\ delayed[p] = 0
    BY DEF Init, Works
  <1>3. \A p \in Procs : /\ Arity(p) \in Nat /\ Arity(p) > 0 /\ DOMAIN Up(p) \subseteq 1..Arity(p)
                         /\ p \in Heads <=> Up(p) = << >>
    BY <1>1, Nodes
  <1>4. ASSUME NEW p \in Procs, NEW i \in 1..Arity(p)
        PROVE  put[p][i] = << >> /\ queue[p].items[i] = << >>
    <2>1. PICK n : n = Arity(p)
      OBVIOUS
    <2>2. /\ queue[p] = [items |-> [h \in 1..n |-> << >>], index |-> 1, popped |-> 1]
          /\ put[p] = [h \in 1..n |-> << >>]
      BY <1>2, <2>1 DEF NewQueues
    <2> QED BY <2>1, <2>2
  <1>5. IsSeq(<< >>)
    BY DEF IsSeq
  <1>6. ASSUME NEW p \in Procs
        PROVE  /\ IsSeq(process[p].held) /\ (process[p].yields => process[p].held # << >>)
               /\ Graph[p].kind = "process" /\ ~process[p].yields =>
                    Len(process[p].held) \in Nat /\ Len(process[p].held) < Graph[p].batch
    <2>1. PICK n \in Nat : n = Graph[p].batch /\ n > 0
      BY <1>1, GraphAssumption DEF Procs, Graph
    <2>2. CASE Graph[p].kind = "source"
      <3> DEFINE s == [k \in 1..n |-> << p, k >>]
      <3>1. process[p].held = s
        BY <2>1, <2>2 DEF Init
      <3>2. s \in Seq({s[k] : k \in DOMAIN s}) /\ DOMAIN s = 1..n
        OBVIOUS
      <3>3. 1 \in DOMAIN s
        BY <2>1, <3>2
      <3>4. s # << >>
        BY <3>3
      <3> HIDE DEF s
      <3> QED BY <2>2, <3>1, <3>2, <3>4 DEF IsSeq
    <2>3. CASE Graph[p].kind # "source"
      <3>1. process[p].held = << >> /\ ~process[p].yields
        BY <2>3 DEF Init
      <3> QED BY <1>5, <2>1, <3>1
    <2> QED BY <2>2, <2>3
  <1>7. Histories
    <2>1. sent = [p \in Procs |-> sent[p]] /\ put = [p \in Procs |-> put[p]]
      BY DEF Init
    <2>2. ASSUME NEW p \in Procs PROVE put[p] = [i \in 1..Arity(p) |-> put[p][i]]
      BY <1>2
    <2> QED BY <1>2, <1>4, <1>5, <1>6, <2>1, <2>2 DEF Histories
  <1>8. Queued
    <2>1. Ending(<< >>, << >>)
      BY DEF Ending
    <2> QED BY <1>4, <2>1 DEF Queued
  <1>9. Turning
    <2> SUFFICES ASSUME NEW p \in Procs, NEW h \in 1..Arity(p)
                 PROVE  Used(p)[h] = Used(p)[queue[p].index] + (IF h < queue[p].index THEN 1 ELSE 0)
      BY DEF Turning
    <2>1. queue[p].index = 1 /\ 1 \in 1..Arity(p)
      <3>1. PICK n \in Nat : n = Arity(p) /\ n > 0
        BY <1>3
      <3>2. queue[p] = [items |-> [i \in 1..n |-> << >>], index |-> 1, popped |-> 1]
        BY <1>2, <3>1 DEF NewQueues
      <3> QED BY <3>1, <3>2
    <2>2. \A i \in 1..Arity(p) : Used(p)[i] = 0
      BY <1>4 DEF Used
    <2>3. ~(h < 1)
      BY <1>3
    <2> QED BY <2>1, <2>2, <2>3
  <1>10. Keeping
    <2>1. \A p \in Procs : ~(delayed[p] > 0)
      BY DEF Init
    <2> QED BY <1>2, <1>6, <2>1 DEF Keeping
  <1>11. Outgoing
    BY <1>2 DEF Outgoing
  <1>12. Starting
    BY <1>2, <1>3, <1>4 DEF Starting
  <1>13. Delivering
    <2>1. \A u \in Procs : DOMAIN down[u] = {}
      BY DEF Init
    <2> QED BY <2>1 DEF Delivering
  <1>14. Opening
    <2>1. \A p \in made : p \in Procs /\ Up(p) = << >>
      BY DEF Init, Heads
    <2> QED BY <2>1 DEF Opening
  <1> QED BY <1>7, <1>8, <1>9, <1>10, <1>11, <1>12, <1>13, <1>14 DEF HInv

HistoryInv == Plain => CInv /\ HInv

LEMMA HistoryStep ==
    ASSUME IInv, HistoryInv, [Next]_vars PROVE HistoryInv'
  <1>1. Plain' <=> Plain
    BY PlainStays
  <1>2. ASSUME Plain PROVE CInv' /\ HInv'
    <2>1. CInv /\ HInv
      BY <1>2 DEF HistoryInv
    <2>2. IInv'
      BY StepHolds
    <2>3. CInv'
      BY <1>1, <1>2, <2>2 DEF IInv
    <2>4. /\ Histories' /\ Queued' /\ Turning' /\ Keeping' /\ Outgoing' /\ Starting' /\ Delivering'
          /\ Opening'
      BY <1>2, <2>1, HistoriesStep, QueuedStep, TurningStep, KeepingStep, OutgoingStep, StartingStep,
         DeliveringStep, OpeningStep
    <2> QED BY <2>3, <2>4 DEF HInv
  <1> QED BY <1>1, <1>2 DEF HistoryInv

LEMMA HistoryHolds == Spec => []HistoryInv
  <1>1. Init => HistoryInv
    BY InitHolds, BeginsWell DEF HistoryInv
  <1>2. HistoryInv /\ IInv /\ [Next]_vars => HistoryInv'
    BY HistoryStep
  <1> QED BY <1>1, <1>2, Invariance, PTL DEF Spec

-----------------------------------------------------------------------------
(***************************************************************************)
(* What the contract sees.                                                 *)
(***************************************************************************)
\* The contract reads the graph as Channel does.
LEMMA Terms ==
    ASSUME graph \in DOMAIN Graphs, NEW p \in Procs
    PROVE  /\ Contract!Procs = Procs /\ Contract!Node(p) = Graph[p]
           /\ Contract!Inputs(p) = 1..Arity(p)
           /\ \A i : Contract!Late(p, i) <=> Late(p, i)
  <1>1. Contract!Procs = Procs /\ Contract!Node(p) = Graph[p]
    BY DEF Contract!Procs, Contract!Node, Procs, Graph
  <1>2. Contract!Inputs(p) = 1..Arity(p)
    BY <1>1 DEF Contract!Inputs, Arity, Heads, Up
  <1>3. \A i : Contract!Late(p, i) <=> Late(p, i)
    BY DEF Contract!Late, Contract!Node, Late, Up, Graph
  <1> QED BY <1>1, <1>2, <1>3

\* One job of a process at a time holds its message.
LEMMA HandsOf ==
    ASSUME Shape, graph' = graph, NEW w \in Workers, NEW p \in Procs, Others(w),
           Works(w) => job[w].p = p, Works(w)' => job'[w].p = p,
           \A v \in Workers : v # w /\ Works(v) => job[v].p # p
    PROVE  /\ Hand(p) = IF HasMessage(w) THEN {job[w].msg} ELSE {}
           /\ Hand(p)' = IF HasMessage(w)' THEN {job'[w].msg} ELSE {}
           /\ Hands' = [Hands EXCEPT ![p] = Hand(p)']
           /\ Hand(p)' = Hand(p) => Hands' = Hands
  <1>1. Procs' = Procs
    BY Frame
  <1>2. Hand(p) = IF HasMessage(w) THEN {job[w].msg} ELSE {}
    <2>1. \A v \in Workers : HasMessage(v) /\ job[v].p = p <=> v = w /\ HasMessage(w)
      BY DEF HasMessage, Works
    <2> QED BY <2>1 DEF Hand
  <1>3. Hand(p)' = IF HasMessage(w)' THEN {job'[w].msg} ELSE {}
    <2>1. \A v \in Workers : HasMessage(v)' /\ job'[v].p = p <=> v = w /\ HasMessage(w)'
      BY DEF HasMessage, Works, Others
    <2> QED BY <2>1 DEF Hand
  <1>4. ASSUME NEW q \in Procs, q # p PROVE Hand(q)' = Hand(q)
    <2>1. \A v \in Workers : HasMessage(v)' /\ job'[v].p = q <=> HasMessage(v) /\ job[v].p = q
      BY <1>4 DEF HasMessage, Works, Others
    <2>2. \A v \in Workers : HasMessage(v) /\ job[v].p = q => job'[v] = job[v]
      BY <1>4 DEF HasMessage, Works, Others
    <2> QED BY <2>1, <2>2 DEF Hand
  <1>5. Hands' = [Hands EXCEPT ![p] = Hand(p)']
    BY <1>1, <1>4 DEF Hands
  <1>6. Hand(p)' = Hand(p) => Hands' = Hands
    BY <1>1, <1>4 DEF Hands
  <1> QED BY <1>2, <1>3, <1>5, <1>6

LEMMA HandsStay ==
    ASSUME graph' = graph, UNCHANGED job PROVE Hands' = Hands
  <1>1. Procs' = Procs
    BY Frame
  <1>2. \A p : Hand(p)' = Hand(p)
    BY DEF Hand, HasMessage
  <1> QED BY <1>1, <1>2 DEF Hands

LEMMA UsesStay ==
    ASSUME graph' = graph, UNCHANGED << queue, put >> PROVE Uses' = Uses
  <1>1. Procs' = Procs /\ \A p : Arity(p)' = Arity(p)
    BY Frame
  <1>2. \A p : Used(p)' = Used(p)
    BY <1>1 DEF Used
  <1> QED BY <1>1, <1>2 DEF Uses

LEMMA CollectedStays ==
    ASSUME graph' = graph, \A p \in Procs : process'[p].held = process[p].held
    PROVE  Collected' = Collected
  <1>1. Procs' = Procs
    BY Frame
  <1> QED BY <1>1 DEF Collected

LEMMA CollectedBy ==
    ASSUME Shape, graph' = graph, NEW p \in Procs, NEW x, process' = [process EXCEPT ![p] = x]
    PROVE  Collected' = [Collected EXCEPT ![p] = x.held] /\ (x.held = process[p].held => Collected' = Collected)
  <1>1. Procs' = Procs
    BY Frame
  <1> QED BY <1>1 DEF Collected, Shape

LEMMA ShutStays ==
    ASSUME graph' = graph, UNCHANGED final PROVE Shut' = Shut
  <1>1. Procs' = Procs
    BY Frame
  <1> QED BY <1>1 DEF Shut

\* Nothing the contract sees changes.
LEMMA Stutters ==
    ASSUME graph' = graph, UNCHANGED << queue, put, final, sent >>, Hands' = Hands,
           \A p \in Procs : process'[p].held = process[p].held
    PROVE  UNCHANGED Contract!vars
  <1>1. Uses' = Uses /\ Shut' = Shut /\ Collected' = Collected
    BY UsesStay, ShutStays, CollectedStays
  <1> QED BY <1>1 DEF Contract!vars

\* Nothing that is given is used by that.
LEMMA UsesGiven ==
    ASSUME Shape, Histories, graph' = graph, NEW p \in Procs, NEW i \in 1..Arity(p), NEW m, Gives(p, i, m)
    PROVE  Uses' = Uses
  <1>1. Procs' = Procs /\ \A q : Arity(q)' = Arity(q)
    BY Frame
  <1>0. \A q \in Procs : \A h \in 1..Arity(q) : ~(q = p /\ h = i) =>
            put'[q][h] = put[q][h] /\ queue'[q].items[h] = queue[q].items[h]
    BY WrittenElse
  <1>2. ASSUME NEW q \in Procs, NEW h \in 1..Arity(q)
        PROVE  Len(put'[q][h]) - Len(queue'[q].items[h]) = Len(put[q][h]) - Len(queue[q].items[h])
    <2>1. IsSeq(put[q][h]) /\ IsSeq(queue[q].items[h])
      BY DEF Histories, Shape, IsQueue
    <2>2. PICK s, t : s = put[q][h] /\ t = queue[q].items[h]
      OBVIOUS
    <2>3. CASE q = p /\ h = i
      <3>1. put'[q][h] = Append(s, m) /\ queue'[q].items[h] = Append(t, m)
        BY <2>2, <2>3, Written
      <3>2. /\ Len(Append(s, m)) = Len(s) + 1 /\ Len(Append(t, m)) = Len(t) + 1
            /\ Len(s) \in Nat /\ Len(t) \in Nat
        BY <2>1, <2>2, SeqOps
      <3>3. Len(Append(s, m)) - Len(Append(t, m)) = Len(s) - Len(t)
        BY <3>2
      <3> QED BY <2>2, <3>1, <3>3
    <2>4. CASE ~(q = p /\ h = i)
      <3>1. put'[q][h] = put[q][h] /\ queue'[q].items[h] = queue[q].items[h]
        BY <1>0, <2>4
      <3> QED BY <3>1
    <2> QED BY <2>3, <2>4
  <1>3. \A q \in Procs : Used(q)' = Used(q)
    BY <1>1, <1>2 DEF Used
  <1> QED BY <1>1, <1>3 DEF Uses

-----------------------------------------------------------------------------
(***************************************************************************)
(* The steps of the contract.                                              *)
(***************************************************************************)
Promised == [Contract!Next]_(Contract!vars)

\* The user sends a value.
LEMMA PromisedSend ==
    ASSUME Plain, CInv, HInv, [Next]_vars, NEW p \in Procs, Send(p) PROVE Promised
  <1> USE DEF CInv, HInv
  <1>1. graph' = graph /\ graph \in DOMAIN Graphs
    BY GraphStays DEF Shape
  <1>2. UNCHANGED << job, final, sent, process >>
    BY DEF Send, procVars, userVars
  <1>3. Hands' = Hands
    BY <1>1, <1>2, HandsStay
  <1>4. CASE ~Alive(p)
    <2>1. UNCHANGED << queue, put >>
      BY <1>4, GivesUser
    <2>2. UNCHANGED Contract!vars
      BY <1>1, <1>2, <1>3, <2>1, Stutters
    <2> QED BY <2>2 DEF Promised
  <1>5. CASE Alive(p)
    <2>1. Up(p) = << >> /\ 1 \in 1..Arity(p) /\ Gives(p, 1, << p, Len(put[p][1]) + 1 >>)
      BY <1>5, GivesUser
    <2>2. p \notin Shut
      BY <1>5, UserSends DEF Shut
    <2>3. Uses' = Uses
      BY <1>1, <2>1, UsesGiven
    <2>4. Collected' = Collected /\ Shut' = Shut
      BY <1>1, <1>2, CollectedStays, ShutStays
    <2>5. put' = [put EXCEPT ![p][1] = Append(@, << p, Len(@) + 1 >>)]
      BY <2>1 DEF Gives
    <2>6. Contract!Node(p).up = << >>
      BY <1>1, <2>1, Terms DEF Up
    <2>7. Contract!Put(p, 1)
      BY <1>1, <1>2, <1>3, <2>2, <2>3, <2>4, <2>5, <2>6 DEF Contract!Put
    <2>8. p \in Contract!Procs /\ 1 \in Contract!Inputs(p)
      BY <1>1, <2>1, Terms
    <2>9. Contract!Next
      BY <2>7, <2>8 DEF Contract!Next
    <2> QED BY <2>9 DEF Promised
  <1> QED BY <1>4, <1>5

\* A process sends the value it has made to the next of its downstream.
LEMMA PromisedSending ==
    ASSUME Plain, CInv, HInv, [Next]_vars, NEW w \in Workers, Sends(w) PROVE Promised
  <1> USE DEF CInv, HInv
  <1>1. graph' = graph /\ graph \in DOMAIN Graphs
    BY GraphStays DEF Shape
  <1>2. PICK u, l, p, i, x : /\ u = job[w].p /\ l = job[w].k /\ x = job[w].out
                             /\ p = down[u][l][1] /\ i = down[u][l][2]
    OBVIOUS
  <1>3. /\ Works(w) /\ u \in made /\ l \in DOMAIN down[u] /\ job[w].pc = "send"
        /\ p \in made /\ i \in DOMAIN Up(p) /\ Up(p)[i] = u
    BY <1>2, Sending
  <1>4. /\ p \in Procs /\ u \in Procs /\ i \in 1..Arity(p)
        /\ Alive(p) => Gives(p, i, x)
        /\ ~Alive(p) => UNCHANGED << queue, put >>
    BY <1>2, <1>3, GivesSending DEF Shape
  <1>5. UNCHANGED << final, sent, process >>
    BY DEF Sends, procVars, userVars
  <1>6. Hands' = Hands
    <2>1. /\ Others(w) /\ (Works(w)' => job'[w].p = u)
          /\ job'[w].pc = "send" \/ job'[w].then = "end"
      BY <1>2 DEF Sends, ClearsSelf, Clear, Goes
    <2>2. \A v \in Workers : v # w /\ Works(v) => job[v].p # u
      BY <1>2, <1>3 DEF Rights
    <2>3. ~HasMessage(w)
      BY <1>3 DEF HasMessage
    <2>4. ~HasMessage(w)'
      BY <2>1 DEF HasMessage, Sends, ClearsSelf, Clear, Goes
    <2> QED BY <1>1, <1>2, <1>4, <2>1, <2>2, <2>3, <2>4, HandsOf
  <1>7. CASE ~Alive(p)
    <2>1. UNCHANGED Contract!vars
      BY <1>1, <1>4, <1>5, <1>6, <1>7, Stutters
    <2> QED BY <2>1 DEF Promised
  <1>8. CASE Alive(p)
    <2>1. p \notin Shut
      BY <1>2, <1>3, <1>4, <1>8, WantedDown DEF Shut
    <2>2. Uses' = Uses
      BY <1>1, <1>4, <1>8, UsesGiven
    <2>3. Collected' = Collected /\ Shut' = Shut
      BY <1>1, <1>5, CollectedStays, ShutStays
    <2>4. PICK k : k = Len(sent[u])
      OBVIOUS
    <2>5. sent[u] # << >> /\ x = sent[u][k] /\ IsSeq(sent[u])
      BY <1>2, <1>3, <1>4, <2>4 DEF Outgoing, Last, Histories
    <2>6. k \in Nat /\ k > 0 /\ DOMAIN sent[u] = 1..k
      BY <2>4, <2>5, SeqOps
    <2>7. UpTo(p, i, k - 1)
      <3>1. Serves(w, u, l)
        <4>1. job[w].k <= job[w].n /\ job[w].k \in Nat
          BY <1>3 DEF Jobs, Shape, IsJob
        <4> QED BY <1>2, <1>3, <4>1 DEF Serves
      <3>2. Reached(u, l) = k - 1
        BY <2>4, <3>1 DEF Reached
      <3>3. UpTo(p, i, Reached(u, l))
        BY <1>2, <1>3, <1>4, <1>8 DEF Delivering
      <3> QED BY <3>2, <3>3
    <2>8. Contract!Node(p).up = Up(p) /\ Contract!Node(p).up # << >>
      BY <1>1, <1>3, <1>4, Terms DEF Up
    <2>9. Contract!Follows(p, i, k)
      <3>1. Contract!Node(p).up[i] = u
        BY <1>3, <2>8
      <3>2. CASE put[p][i] = << >>
        <4>1. k = 1 \/ Late(p, i)
          BY <2>6, <2>7, <3>2 DEF UpTo
        <4> QED BY <1>1, <1>4, <3>2, <4>1, Terms DEF Contract!Follows
      <3>3. CASE put[p][i] # << >>
        <4>1. k > 1 /\ sent[u][k - 1] = put[p][i][Len(put[p][i])]
          BY <1>3, <2>6, <2>7, <3>3 DEF UpTo, Last
        <4> QED BY <3>1, <3>3, <4>1 DEF Contract!Follows
      <3> QED BY <3>2, <3>3
    <2>10. put' = [put EXCEPT ![p][i] = Append(@, sent[Contract!Node(p).up[i]][k])]
      BY <1>3, <1>4, <1>8, <2>5, <2>8 DEF Gives
    <2>11. k \in DOMAIN sent[Contract!Node(p).up[i]]
      BY <1>3, <2>6, <2>8
    <2>12. Contract!Put(p, i)
      BY <1>1, <1>5, <1>6, <2>1, <2>2, <2>3, <2>8, <2>9, <2>10, <2>11 DEF Contract!Put
    <2>13. p \in Contract!Procs /\ i \in Contract!Inputs(p)
      BY <1>1, <1>4, Terms
    <2>14. Contract!Next
      BY <2>12, <2>13 DEF Contract!Next
    <2> QED BY <2>14 DEF Promised
  <1> QED BY <1>7, <1>8

\* A job that calls clear_to_send, suspends its process or lets it rest.
LEMMA PromisedPassing ==
    ASSUME Plain, CInv, [Next]_vars, NEW w \in Workers,
           Skips(w) \/ Looks(w) \/ Rereads(w) \/ Releases(w) \/ Suspended(w) \/ Rests(w)
    PROVE  Promised
  <1> USE DEF CInv
  <1>1. graph' = graph
    BY GraphStays
  <1>2. UNCHANGED << queue, put, final, sent, process >>
    BY DEF Skips, Looks, Rereads, Releases, Suspended, Rests, flowVars, procVars, userVars
  <1>3. PICK p : p = job[w].p
    OBVIOUS
  <1>4. /\ Works(w) /\ p \in Procs /\ Others(w) /\ (Works(w)' => job'[w].p = p)
        /\ \A v \in Workers : v # w /\ Works(v) => job[v].p # p
    <2>1. Works(w) /\ Others(w) /\ (Works(w)' => job'[w].p = p)
      BY <1>3 DEF Skips, Looks, Rereads, Releases, Suspended, Rests, Called, ClearsSelf, Clear, Goes, Ends, Works
    <2>2. p \in Procs
      BY <1>3, <2>1 DEF Shape, IsJob
    <2> QED BY <1>3, <2>1, <2>2 DEF Rights
  <1>5. (HasMessage(w)' <=> HasMessage(w)) /\ (HasMessage(w) => job'[w].msg = job[w].msg)
    <2>1. ASSUME Called(w), job[w].pc \in Clearing
          PROVE  (HasMessage(w)' <=> HasMessage(w)) /\ (HasMessage(w) => job'[w].msg = job[w].msg)
      BY <1>4, <2>1 DEF Called, Clear, Goes, Ends, HasMessage, Works, Clearing
    <2>2. ASSUME Looks(w)
          PROVE  (HasMessage(w)' <=> HasMessage(w)) /\ (HasMessage(w) => job'[w].msg = job[w].msg)
      BY <2>2 DEF Looks, HasMessage, Works
    <2>3. ASSUME Suspended(w) PROVE ~HasMessage(w) /\ ~HasMessage(w)'
      BY <2>3 DEF Suspended, ClearsSelf, Clear, Goes, HasMessage, Works
    <2>4. ASSUME Rests(w) PROVE ~HasMessage(w) /\ ~HasMessage(w)'
      BY <2>4 DEF Rests, Ends, Goes, HasMessage, Works
    <2>6. ASSUME Rereads(w) PROVE ~HasMessage(w) /\ ~HasMessage(w)'
      BY <2>6 DEF Rereads, Goes, HasMessage, Works
    <2>5. Skips(w) \/ Releases(w) => Called(w) /\ job[w].pc \in Clearing
      BY DEF Skips, Releases, Clearing
    <2> QED BY <2>1, <2>2, <2>3, <2>4, <2>5, <2>6
  <1>6. Hands' = Hands
    <2>1. /\ Hand(p) = IF HasMessage(w) THEN {job[w].msg} ELSE {}
          /\ Hand(p)' = IF HasMessage(w)' THEN {job'[w].msg} ELSE {}
          /\ Hand(p)' = Hand(p) => Hands' = Hands
      BY <1>1, <1>3, <1>4, HandsOf
    <2>2. Hand(p)' = Hand(p)
      BY <1>5, <2>1
    <2> QED BY <2>1, <2>2
  <1>7. UNCHANGED Contract!vars
    BY <1>1, <1>2, <1>6, Stutters
  <1> QED BY <1>7 DEF Promised

\* The arguments whose fronts a process takes next.
Fronts(p) == StrategyOf(Graph[p].strategy, queue[p]).takes

\* What an argument has used is what it was given and its queue does not hold.
LEMMA UsedUp ==
    ASSUME Shape, Histories, Queued, NEW p \in Procs, NEW i \in 1..Arity(p)
    PROVE  LET n == Uses[p][i]
           IN  /\ n \in Nat /\ Len(put[p][i]) \in Nat /\ n = Used(p)[i]
               /\ queue[p].items[i] = << >> => n = Len(put[p][i])
               /\ queue[p].items[i] # << >> => /\ n < Len(put[p][i])
                                               /\ queue[p].items[i][1] = put[p][i][n + 1]
  <1>1. PICK s, t : s = put[p][i] /\ t = queue[p].items[i]
    OBVIOUS
  <1>2. IsSeq(s) /\ IsSeq(t) /\ Ending(s, t)
    BY <1>1 DEF Histories, Shape, IsQueue, Queued
  <1>3. Len(s) \in Nat /\ Len(t) \in Nat /\ Len(t) <= Len(s) /\ (t = << >> <=> Len(t) = 0)
    BY <1>2, SeqOps DEF Ending
  <1>4. t # << >> => Len(s) - Len(t) + 1 \in 1..Len(s) /\ t[1] = s[Len(s) - Len(t) + 1]
    BY <1>2, EndingShrinks
  <1>5. Uses[p][i] = Len(s) - Len(t) /\ Uses[p][i] = Used(p)[i]
    BY <1>1 DEF Uses, Used
  <1>6. Len(s) - Len(t) \in Nat /\ (t = << >> => Len(s) - Len(t) = Len(s))
        /\ (t # << >> => Len(s) - Len(t) < Len(s))
    BY <1>3
  <1> QED BY <1>1, <1>3, <1>4, <1>5, <1>6

\* Whose turn it may be, by strategy.
LEMMA TurnsOf ==
    ASSUME Shape, NEW p \in Procs
    PROVE  LET I == 1..Arity(p)
               s == Graph[p].strategy
           IN  /\ s = "zip_with" => Contract!Turns(p) = {[i \in I |-> i]}
               /\ s = "round_robin" =>
                    Contract!Turns(p) = {<< i >> : i \in {i \in I : \A h \in I :
                                            Uses[p][h] = Uses[p][i] + (IF h < i THEN 1 ELSE 0)}}
               /\ s \in {"default", "unordered"} => Contract!Turns(p) = {<< i >> : i \in I}
  <1>1. Contract!Node(p) = Graph[p] /\ Contract!Inputs(p) = 1..Arity(p)
    BY Terms DEF Shape
  <1> QED BY <1>1 DEF Contract!Turns

LEMMA FrontsTurn ==
    ASSUME Shape, Histories, Queued, Turning, NEW p \in Procs, ~Empty(Graph[p].strategy, queue[p])
    PROVE  LET t == Fronts(p)
           IN  /\ t \in Contract!Possible(p) /\ t # << >> /\ DOMAIN t # {}
               /\ \A k \in DOMAIN t : t[k] \in 1..Arity(p) /\ queue[p].items[t[k]] # << >>
  <1> DEFINE t == Fronts(p)
             s == Graph[p].strategy
  <1>1. t # << >> /\ \A k \in DOMAIN t : queue[p].items[t[k]] # << >>
    BY DEF Empty, Fronts
  <1>2. /\ s \in {"default", "zip_with", "round_robin", "unordered"}
        /\ Arity(p) \in Nat /\ Arity(p) > 0
    BY Nodes DEF Shape
  <1>3. /\ queue[p].items = [i \in 1..Arity(p) |-> queue[p].items[i]]
        /\ queue[p].index \in 1..Arity(p)
    BY DEF Shape, IsQueue
  <1>4. \A k \in DOMAIN t : t[k] \in 1..Arity(p)
    <2>1. Taken(p) \subseteq 1..Arity(p)
      <3>1. IsQueue(p) /\ graph \in DOMAIN Graphs
        BY DEF Shape
      <3> QED BY <3>1, Taking
    <2> QED BY <2>1 DEF Taken, Fronts
  <1>5. t \in Contract!Turns(p) /\ DOMAIN t # {}
    <2>1. CASE s = "zip_with"
      <3>1. t = [i \in 1..Arity(p) |-> i]
        BY <1>3, <2>1 DEF Fronts, StrategyOf, zip_with_queue_strategy, Arguments
      <3>2. 1 \in DOMAIN t
        BY <1>2, <3>1
      <3> HIDE DEF t
      <3> QED BY <2>1, <3>1, <3>2, TurnsOf
    <2>2. CASE s = "round_robin"
      <3>1. PICK x : x = queue[p].index
        OBVIOUS
      <3>2. t = << x >> /\ x \in 1..Arity(p)
        BY <1>3, <2>2, <3>1 DEF Fronts, StrategyOf, round_robin_queue_strategy
      <3>3. \A h \in 1..Arity(p) : Uses[p][h] = Uses[p][x] + (IF h < x THEN 1 ELSE 0)
        <4>1. \A h \in 1..Arity(p) : Used(p)[h] = Used(p)[x] + (IF h < x THEN 1 ELSE 0)
          BY <2>2, <3>1 DEF Turning
        <4>2. Uses[p] = Used(p)
          BY DEF Uses
        <4> QED BY <4>1, <4>2
      <3> HIDE DEF t
      <3>4. t \in Contract!Turns(p)
        BY <2>2, <3>2, <3>3, TurnsOf
      <3> QED BY <3>2, <3>4
    <2>3. CASE s = "default"
      <3>1. t = << 1 >> /\ 1 \in 1..Arity(p)
        BY <1>2, <2>3 DEF Fronts, StrategyOf, default_queue_strategy
      <3> HIDE DEF t
      <3>2. t \in Contract!Turns(p)
        BY <2>3, <3>1, TurnsOf
      <3> QED BY <3>1, <3>2
    <2>4. CASE s = "unordered"
      <3>1. PICK x : x = tuple_find({i \in Arguments(queue[p]) : queue[p].items[i] # << >>},
                                    Len(queue[p].items))
        OBVIOUS
      <3>2. t = IF x > Len(queue[p].items) THEN << >> ELSE << x >>
        BY <2>4, <3>1 DEF Fronts, StrategyOf, unordered_queue_strategy
      <3>3. t = << x >>
        BY <1>1, <3>2
      <3> HIDE DEF t
      <3>4. x \in 1..Arity(p)
        <4>1. 1 \in DOMAIN t /\ t[1] = x
          BY <3>3
        <4> QED BY <1>4, <4>1
      <3>5. t \in Contract!Turns(p)
        BY <2>4, <3>3, <3>4, TurnsOf
      <3> QED BY <3>3, <3>5
    <2> QED BY <1>2, <2>1, <2>2, <2>3, <2>4
  <1> HIDE DEF t
  <1>6. \A k \in DOMAIN t : Uses[p][t[k]] < Len(put[p][t[k]])
    BY <1>1, <1>4, UsedUp
  <1>7. t \in Contract!Possible(p)
    BY <1>5, <1>6 DEF Contract!Possible
  <1> QED BY <1>1, <1>4, <1>5, <1>7 DEF t

LEMMA NoTurn ==
    ASSUME Shape, Histories, Queued, Turning, NEW p \in Procs, Empty(Graph[p].strategy, queue[p])
    PROVE  Contract!Possible(p) = {}
  <1> DEFINE s == Graph[p].strategy
             x == queue[p].index
  <1>1. /\ s \in {"default", "zip_with", "round_robin", "unordered"}
        /\ Arity(p) \in Nat /\ Arity(p) > 0 /\ (s = "default" => Arity(p) = 1)
    <2>1. Arity(p) = 1 \/ Arity(p) = Len(Up(p))
      BY DEF Arity
    <2> QED BY <2>1, Nodes DEF Shape
  <1>2. /\ queue[p].items = [i \in 1..Arity(p) |-> queue[p].items[i]] /\ x \in 1..Arity(p)
        /\ Len(queue[p].items) = Arity(p) /\ Arguments(queue[p]) = 1..Arity(p)
    BY <1>1 DEF Shape, IsQueue, Arguments
  <1>3. Fronts(p) = << >> \/ \E k \in DOMAIN Fronts(p) : queue[p].items[Fronts(p)[k]] = << >>
    BY DEF Empty, Fronts
  <1> SUFFICES ASSUME NEW t \in Contract!Turns(p)
               PROVE  \E k \in DOMAIN t : t[k] \in 1..Arity(p) /\ queue[p].items[t[k]] = << >>
    <2>1. ASSUME NEW t \in Contract!Turns(p), NEW k \in DOMAIN t, t[k] \in 1..Arity(p),
                 queue[p].items[t[k]] = << >>
          PROVE  ~(Uses[p][t[k]] < Len(put[p][t[k]]))
      BY <2>1, UsedUp
    <2> QED BY <2>1 DEF Contract!Possible
  <1>4. CASE s = "zip_with"
    <2>1. t = [i \in 1..Arity(p) |-> i]
      BY <1>4, TurnsOf
    <2>2. Fronts(p) = t
      BY <1>2, <1>4, <2>1 DEF Fronts, StrategyOf, zip_with_queue_strategy
    <2>3. t # << >>
      BY <1>1, <2>1
    <2> QED BY <1>3, <2>1, <2>2, <2>3
  <1>5. CASE s = "round_robin"
    <2>1. PICK i \in 1..Arity(p) : t = << i >> /\ \A h \in 1..Arity(p) :
                                       Uses[p][h] = Uses[p][i] + (IF h < i THEN 1 ELSE 0)
      BY <1>5, TurnsOf
    <2>2. \A h \in 1..Arity(p) : Uses[p][h] = Uses[p][x] + (IF h < x THEN 1 ELSE 0)
      <3>1. Uses[p] = Used(p)
        BY DEF Uses
      <3> QED BY <1>5, <3>1 DEF Turning
    <2>3. Uses[p][i] \in Nat /\ Uses[p][x] \in Nat
      BY <1>2, UsedUp
    <2>4. i = x
      <3>1. i \in Int /\ x \in Int
        BY <1>1, <1>2
      <3>2. ASSUME i < x PROVE FALSE
        <4>1. Uses[p][i] = Uses[p][x] + 1
          BY <2>2, <3>2
        <4>2. ~(x < i)
          BY <3>1, <3>2
        <4>3. Uses[p][x] = Uses[p][i] + 0
          BY <1>2, <2>1, <4>2
        <4> QED BY <2>3, <4>1, <4>3
      <3>3. ASSUME x < i PROVE FALSE
        <4>1. Uses[p][x] = Uses[p][i] + 1
          BY <1>2, <2>1, <3>3
        <4>2. ~(i < x)
          BY <3>1, <3>3
        <4>3. Uses[p][i] = Uses[p][x] + 0
          BY <2>2, <4>2
        <4> QED BY <2>3, <4>1, <4>3
      <3> QED BY <3>1, <3>2, <3>3
    <2>5. Fronts(p) = << x >>
      BY <1>5 DEF Fronts, StrategyOf, round_robin_queue_strategy
    <2>6. queue[p].items[x] = << >>
      BY <1>3, <2>5
    <2> QED BY <2>1, <2>4, <2>6
  <1>6. CASE s = "default"
    <2>1. PICK i \in 1..Arity(p) : t = << i >>
      BY <1>6, TurnsOf
    <2>2. i = 1
      BY <1>1, <1>6
    <2>3. Fronts(p) = << 1 >>
      BY <1>6 DEF Fronts, StrategyOf, default_queue_strategy
    <2>4. queue[p].items[1] = << >>
      BY <1>3, <2>3
    <2> QED BY <2>1, <2>2, <2>4
  <1>7. CASE s = "unordered"
    <2>1. PICK i \in 1..Arity(p) : t = << i >>
      BY <1>7, TurnsOf
    <2> DEFINE P == {j \in Arguments(queue[p]) : queue[p].items[j] # << >>}
    <2>2. PICK f : f = tuple_find(P, Arity(p))
      OBVIOUS
    <2>3. Fronts(p) = IF f > Arity(p) THEN << >> ELSE << f >>
      BY <1>2, <1>7, <2>2 DEF Fronts, StrategyOf, unordered_queue_strategy
    <2>4. ASSUME P # {} PROVE FALSE
      <3>1. f = CHOOSE j \in P : \A h \in P : j <= h
        BY <2>2, <2>4 DEF tuple_find
      <3>2. P \subseteq 1..Arity(p) /\ \A j \in P : queue[p].items[j] # << >>
        BY <1>2
      <3> HIDE DEF P
      <3>3. P \subseteq Nat
        BY <1>1, <3>2
      <3>4. \E j \in P : \A h \in P : j <= h
        BY <2>4, <3>3, Least
      <3>5. f \in P
        BY <3>1, <3>4
      <3>6. f \in 1..Arity(p) /\ queue[p].items[f] # << >>
        BY <3>2, <3>5
      <3>7. Fronts(p) = << f >>
        BY <1>1, <2>3, <3>6
      <3> QED BY <1>3, <3>6, <3>7
    <2>5. queue[p].items[i] = << >>
      BY <1>2, <2>4
    <2> QED BY <2>1, <2>5
  <1> QED BY <1>1, <1>4, <1>5, <1>6, <1>7

\* Each argument that is taken from has used one value more.
LEMMA UsesTaken ==
    ASSUME Shape, Histories, Queued, graph' = graph, NEW p \in Procs, Pops(p)
    PROVE  Uses' = [Uses EXCEPT ![p] = [i \in 1..Arity(p) |->
                        IF \E k \in DOMAIN Fronts(p) : Fronts(p)[k] = i THEN @[i] + 1 ELSE @[i]]]
  <1>1. Procs' = Procs /\ (\A q : Arity(q)' = Arity(q)) /\ UNCHANGED put
    BY Frame DEF Pops
  <1>2. ASSUME NEW q \in Procs, NEW h \in 1..Arity(q), q = p, h \in Taken(p)
        PROVE  Len(put'[q][h]) - Len(queue'[q].items[h]) = Uses[q][h] + 1
    <2>1. queue[q].items[h] # << >> /\ queue'[q].items[h] = Tail(queue[q].items[h])
      BY <1>2, Removed
    <2>2. IsSeq(put[q][h]) /\ IsSeq(queue[q].items[h]) /\ Ending(put[q][h], queue[q].items[h])
      BY DEF Histories, Shape, IsQueue, Queued
    <2>3. Len(put[q][h]) - Len(Tail(queue[q].items[h])) = Len(put[q][h]) - Len(queue[q].items[h]) + 1
      BY <2>1, <2>2, EndingShrinks
    <2> QED BY <1>1, <2>1, <2>3 DEF Uses, Used
  <1>3. ASSUME NEW q \in Procs, NEW h \in 1..Arity(q), ~(q = p /\ h \in Taken(p))
        PROVE  Len(put'[q][h]) - Len(queue'[q].items[h]) = Uses[q][h]
    <2>1. queue'[q].items[h] = queue[q].items[h]
      BY <1>3, Removed
    <2> QED BY <1>1, <2>1 DEF Uses, Used
  <1>4. ASSUME NEW q \in Procs, q # p PROVE Used(q)' = Uses[q]
    <2>1. \A h \in 1..Arity(q) : Len(put'[q][h]) - Len(queue'[q].items[h]) = Uses[q][h]
      BY <1>3, <1>4
    <2> QED BY <1>1, <2>1 DEF Used, Uses
  <1>5. Used(p)' = [i \in 1..Arity(p) |-> IF i \in Taken(p) THEN Uses[p][i] + 1 ELSE Uses[p][i]]
    <2>1. ASSUME NEW i \in 1..Arity(p)
          PROVE  Len(put'[p][i]) - Len(queue'[p].items[i]) = IF i \in Taken(p) THEN Uses[p][i] + 1 ELSE Uses[p][i]
      BY <1>2, <1>3
    <2> QED BY <1>1, <2>1 DEF Used
  <1>6. \A i : i \in Taken(p) <=> \E k \in DOMAIN Fronts(p) : Fronts(p)[k] = i
    BY DEF Taken, Fronts
  <1>7. Uses' = [q \in Procs |-> Used(q)']
    BY <1>1 DEF Uses
  <1>8. Used(p)' = [i \in 1..Arity(p) |->
                        IF \E k \in DOMAIN Fronts(p) : Fronts(p)[k] = i THEN Uses[p][i] + 1 ELSE Uses[p][i]]
    BY <1>5, <1>6
  <1>9. Uses = [q \in Procs |-> Uses[q]]
    BY DEF Uses
  <1> QED BY <1>4, <1>7, <1>8, <1>9

\* Where a message is taken or the close is seen.
LEMMA PromisedTaking ==
    ASSUME Plain, CInv, HInv, [Next]_vars, NEW w \in Workers, NEW p \in Procs, Takes(w, p),
           (Reads(w) /\ p = job[w].p) \/ Starts(w, p)
    PROVE  Promised
  <1> USE DEF CInv, HInv
  <1>1. graph' = graph /\ graph \in DOMAIN Graphs
    BY GraphStays DEF Shape
  <1>2. UNCHANGED << put, process, sent >>
    BY DEF Reads, Starts, userVars
  <1>3. ~final[p] /\ \A v \in Workers : v # w /\ Works(v) => job[v].p # p
    BY Taker
  <1>4. /\ Works(w)' /\ Others(w) /\ job'[w].p = p /\ (Works(w) => job[w].p = p)
        /\ job'[w].pc = "apply" \/ (job'[w].pc = "check" /\ job'[w].then = "apply")
        /\ ~HasMessage(w)
    <2>1. /\ Works(w)' /\ Others(w) /\ job'[w].p = p
          /\ job'[w].pc = "apply" \/ (job'[w].pc = "check" /\ job'[w].then = "apply")
      BY DEF Takes, Goes, Clear
    <2>2. (Works(w) => job[w].p = p) /\ ~HasMessage(w)
      BY DEF Reads, Starts, HasMessage, Works
    <2> QED BY <2>1, <2>2
  <1>5. /\ Hand(p) = {}
        /\ Hand(p)' = IF HasMessage(w)' THEN {job'[w].msg} ELSE {}
        /\ Hands' = [Hands EXCEPT ![p] = Hand(p)'] /\ (Hand(p)' = Hand(p) => Hands' = Hands)
    BY <1>1, <1>3, <1>4, HandsOf
  <1>6. HasMessage(w)' <=> job'[w].msg # << >>
    BY <1>4 DEF HasMessage, Works
  <1>7. Hands[p] = {} /\ p \notin Shut /\ Collected' = Collected
    BY <1>1, <1>2, <1>3, <1>5, CollectedStays DEF Hands, Shut
  <1>8. p \in Contract!Procs /\ Contract!Node(p) = Graph[p] /\ Contract!Inputs(p) = 1..Arity(p)
    BY <1>1, Terms
  <1>9. CASE ~Empty(Graph[p].strategy, queue[p])
    <2>1. Pops(p) /\ UNCHANGED final /\ job'[w].msg = Front(Graph[p].strategy, queue[p])
      BY <1>2, <1>9 DEF Takes, Pops
    <2>2. PICK t : t = Fronts(p)
      OBVIOUS
    <2>3. /\ t \in Contract!Possible(p) /\ DOMAIN t # {}
          /\ \A k \in DOMAIN t : t[k] \in 1..Arity(p) /\ queue[p].items[t[k]] # << >>
      BY <1>9, <2>2, FrontsTurn
    <2>4. job'[w].msg = [k \in DOMAIN t |-> queue[p].items[t[k]][1]]
      BY <2>1, <2>2 DEF Front, Fronts
    <2>5. job'[w].msg = [k \in DOMAIN t |-> put[p][t[k]][Uses[p][t[k]] + 1]]
      <3>1. \A k \in DOMAIN t : queue[p].items[t[k]][1] = put[p][t[k]][Uses[p][t[k]] + 1]
        BY <2>3, UsedUp
      <3> QED BY <2>4, <3>1
    <2>6. job'[w].msg # << >>
      BY <2>3, <2>4
    <2>7. Hands' = [Hands EXCEPT ![p] = {[k \in DOMAIN t |-> put[p][t[k]][Uses[p][t[k]] + 1]]}]
      BY <1>5, <1>6, <2>5, <2>6
    <2>8. Uses' = [Uses EXCEPT ![p] = [i \in Contract!Inputs(p) |->
                        IF \E k \in DOMAIN t : t[k] = i THEN @[i] + 1 ELSE @[i]]]
      BY <1>1, <1>8, <2>1, <2>2, UsesTaken
    <2>9. Shut' = Shut
      BY <1>1, <2>1, ShutStays
    <2>10. Contract!Take(p)
      BY <1>1, <1>2, <1>7, <2>3, <2>7, <2>8, <2>9 DEF Contract!Take
    <2>11. Contract!Next
      BY <1>8, <2>10 DEF Contract!Next
    <2> QED BY <2>11 DEF Promised
  <1>10. CASE Empty(Graph[p].strategy, queue[p])
    <2>1. /\ UNCHANGED queue /\ final' = [final EXCEPT ![p] = closeQueue[p]] /\ job'[w].msg = << >>
      BY <1>10 DEF Takes
    <2>2. Hands' = Hands /\ Uses' = Uses
      BY <1>1, <1>2, <1>5, <1>6, <2>1, UsesStay
    <2>3. CASE ~closeQueue[p]
      <3>1. UNCHANGED final
        BY <1>3, <2>1, <2>3 DEF Shape
      <3>2. UNCHANGED Contract!vars
        BY <1>1, <1>2, <2>1, <2>2, <3>1, Stutters
      <3> QED BY <3>2 DEF Promised
    <2>4. CASE closeQueue[p]
      <3>1. Shut' = Shut \cup {p}
        <4>1. Procs' = Procs
          BY <1>1, Frame
        <4>2. \A q \in Procs : final'[q] <=> final[q] \/ q = p
          BY <2>1, <2>4 DEF Shape
        <4> QED BY <4>1, <4>2 DEF Shut
      <3>2. Contract!Possible(p) = {}
        BY <1>10, NoTurn
      <3>3. ASSUME NEW i \in DOMAIN Up(p)
            PROVE  Contract!Finished(Up(p)[i]) /\ Contract!Given(p, i)
        <4>1. p \in made /\ Alive(p)
          <5>1. CASE Works(w)
            <6>1. job[w].p = p
              BY <1>4, <5>1
            <6>2. p \in made
              BY <5>1, <6>1 DEF Built
            <6>3. Held(p)
              BY <5>1, <6>1 DEF Held, Works
            <6> QED BY <1>1, <6>2, <6>3, Below DEF Alive, Shape
          <5>2. CASE ~Works(w)
            <6>1. Starts(w, p)
              BY <5>2 DEF Reads
            <6>2. Alive(p) /\ pending[p] > 0
              BY <6>1 DEF Starts
            <6> QED BY <6>2 DEF Built
          <5> QED BY <5>1, <5>2
        <4>2. senders[p] = 0 /\ Up(p) # << >>
          BY <2>4, <3>3 DEF Closing
        <4>3. i \notin Unended(p)
          <5>1. Cardinality(Unended(p)) <= 0
            BY <4>1, <4>2 DEF Opening
          <5>2. Unended(p) \subseteq DOMAIN Up(p)
            BY DEF Unended, Feeding
          <5> HIDE DEF Unended
          <5>3. IsFiniteSet(Unended(p)) /\ Cardinality(Unended(p)) \in Nat
            BY <1>1, <5>2, ArgumentSets
          <5>4. Cardinality(Unended(p)) = 0
            BY <5>1, <5>3
          <5> QED BY <5>3, <5>4, FS_EmptySet
        <4>4. PICK u : u = Up(p)[i]
          OBVIOUS
        <4>5. u \in Procs /\ Stopped(u) /\ UpTo(p, i, Len(sent[u]))
          BY <1>1, <3>3, <4>3, <4>4, Nodes DEF Unended, Ended
        <4>6. Contract!Finished(u)
          <5>1. u \in Shut
            BY <4>5 DEF Stopped, Shut
          <5>2. Hands[u] = {}
            <6>1. \A v \in Workers : ~(HasMessage(v) /\ job[v].p = u)
              BY <4>5 DEF HasMessage, Stopped, Works
            <6> QED BY <4>5, <6>1 DEF Hands, Hand
          <5>3. Graph[u].kind = "process" => Len(Collected[u]) < Graph[u].batch
            BY <4>5 DEF Stopped, Keeping, Collected
          <5>4. Contract!Node(u) = Graph[u]
            BY <1>1, <4>5, Terms
          <5> QED BY <5>1, <5>2, <5>3, <5>4 DEF Contract!Finished
        <4>7. Contract!Given(p, i)
          <5>1. Contract!Node(p).up[i] = u
            BY <1>8, <4>4 DEF Up
          <5>2. IsSeq(sent[u])
            BY <4>5 DEF Histories
          <5>3. Len(sent[u]) \in Nat /\ (sent[u] = << >> <=> Len(sent[u]) = 0)
            BY <5>2, SeqOps
          <5>4. CASE put[p][i] = << >>
            <6>1. sent[u] = << >> \/ Late(p, i)
              BY <4>5, <5>3, <5>4 DEF UpTo
            <6>2. sent[u] = << >> \/ Contract!Late(p, i)
              BY <1>1, <6>1, Terms
            <6> QED BY <5>1, <5>4, <6>2 DEF Contract!Given
          <5>5. CASE put[p][i] # << >>
            <6>1. sent[u] # << >> /\ sent[u][Len(sent[u])] = put[p][i][Len(put[p][i])]
              BY <4>4, <4>5, <5>3, <5>5 DEF UpTo, Last
            <6> QED BY <5>1, <5>5, <6>1 DEF Contract!Given
          <5> QED BY <5>4, <5>5
        <4> QED BY <4>4, <4>6, <4>7
      <3>4. Contract!Node(p).up = Up(p)
        BY <1>8 DEF Up
      <3>5. Contract!Close(p)
        BY <1>1, <1>2, <1>7, <2>2, <3>1, <3>2, <3>3, <3>4 DEF Contract!Close
      <3>6. Contract!Next
        BY <1>8, <3>5 DEF Contract!Next
      <3> QED BY <3>6 DEF Promised
    <2> QED BY <2>3, <2>4
  <1> QED BY <1>9, <1>10

\* Where the user's code runs: it is given a message, or yields.
LEMMA PromisedCode ==
    ASSUME Plain, CInv, HInv, [Next]_vars, NEW w \in Workers, NEW p \in Procs, Coding(w, p)
    PROVE  Promised
  <1> USE DEF CInv, HInv
  <1>1. graph' = graph /\ graph \in DOMAIN Graphs
    BY GraphStays DEF Shape
  <1>2. UNCHANGED << queue, put, final >>
    BY Coded DEF flowVars, procVars
  <1>3. /\ Others(w) /\ (Works(w)' => job'[w].p = p) /\ (Works(w) => job[w].p = p)
        /\ \A v \in Workers : v # w /\ Works(v) => job[v].p # p
    BY Coded
  <1>4. Uses' = Uses /\ Shut' = Shut
    BY <1>1, <1>2, UsesStay, ShutStays
  <1>5. /\ Hand(p) = IF HasMessage(w) THEN {job[w].msg} ELSE {}
        /\ Hand(p)' = IF HasMessage(w)' THEN {job'[w].msg} ELSE {}
        /\ Hands' = [Hands EXCEPT ![p] = Hand(p)'] /\ (Hand(p)' = Hand(p) => Hands' = Hands)
    BY <1>1, <1>3, HandsOf
  <1>6. Hands[p] = Hand(p) /\ Collected[p] = process[p].held
    BY DEF Hands, Collected
  <1>7. p \in Contract!Procs /\ Contract!Node(p) = Graph[p]
    BY <1>1, Terms
  <1>8. ASSUME UNCHANGED sent, process'[p].held = process[p].held, Hands' = Hands PROVE Promised
    <2>1. \A q \in Procs : process'[q].held = process[q].held
      BY <1>8, Coded
    <2>2. UNCHANGED Contract!vars
      BY <1>1, <1>2, <1>8, <2>1, Stutters
    <2> QED BY <2>2 DEF Promised
  <1>9. CASE Works(w) /\ Applies(w)
    <2>1. PICK m : m = job[w].msg
      OBVIOUS
    <2>2. job[w].p = p /\ job[w].pc = "apply" /\ (HasMessage(w) <=> m # << >>)
      BY <1>3, <1>9, <2>1 DEF Applies, HasMessage, Works
    <2>3. ~HasMessage(w)'
      BY <1>9 DEF Applies, Goes, Ends, Makes, Suspends, HasMessage, Works
    <2>4. Hand(p)' = {}
      BY <1>5, <2>3
    <2>5. CASE m = << >>
      <3>1. Hands' = Hands
        BY <1>5, <2>2, <2>4, <2>5
      <3>2. UNCHANGED sent /\ (UNCHANGED process \/ process' = [process EXCEPT ![p] = process_close(p)])
        BY <1>9, <2>1, <2>2, <2>5 DEF Applies
      <3>3. process'[p].held = process[p].held
        BY <3>2 DEF process_close, Shape, IsProcess
      <3> QED BY <1>8, <3>1, <3>2, <3>3
    <2>6. CASE m # << >>
      <3>1. m \in Hands[p] /\ Hands' = [Hands EXCEPT ![p] = {}]
        BY <1>5, <1>6, <2>1, <2>2, <2>4, <2>6
      <3>2. ASSUME Contract!Apply(p) PROVE Promised
        <4>1. Contract!Next
          BY <1>7, <3>2 DEF Contract!Next
        <4> QED BY <4>1 DEF Promised
      <3>3. /\ Contract!Broken(m) <=> find_argument_error(m)
            /\ Contract!Throws(p, m) <=> Throws(p, m)
            /\ Contract!Result(m) = Result(m) /\ Contract!Error = Error
        BY <1>7 DEF Contract!Broken, Contract!Throws, Contract!Result, Contract!Error,
                    find_argument_error, Throws, Result, Error
      <3>4. CASE find_argument_error(m)
        <4>1. UNCHANGED sent /\ (UNCHANGED process \/ process' = [process EXCEPT ![p] = process_close(p)])
          BY <1>9, <2>1, <2>2, <3>4 DEF Applies
        <4>2. process'[p].held = process[p].held
          BY <4>1 DEF process_close, Shape, IsProcess
        <4>3. Collected' = Collected
          <5>1. \A q \in Procs : process'[q].held = process[q].held
            BY <4>2, Coded
          <5> QED BY <1>1, <5>1, CollectedStays
        <4>4. Contract!Apply(p)
          BY <1>1, <1>2, <1>4, <3>1, <3>3, <3>4, <4>1, <4>3 DEF Contract!Apply
        <4> QED BY <3>2, <4>4
      <3>5. CASE ~find_argument_error(m) /\ Throws(p, m)
        <4>1. UNCHANGED process /\ sent' = [sent EXCEPT ![p] = Append(@, Error)]
          BY <1>9, <2>1, <2>2, <2>6, <3>5 DEF Applies, Makes
        <4>2. Collected' = Collected
          BY <1>1, <4>1, CollectedStays
        <4>3. Contract!Apply(p)
          BY <1>1, <1>2, <1>4, <3>1, <3>3, <3>5, <4>1, <4>2 DEF Contract!Apply
        <4> QED BY <3>2, <4>3
      <3>6. CASE ~find_argument_error(m) /\ ~Throws(p, m) /\ IsFunction(p)
        <4>1. UNCHANGED process /\ sent' = [sent EXCEPT ![p] = Append(@, Result(m))]
          BY <1>9, <2>1, <2>2, <2>6, <3>6 DEF Applies, Makes, IsFunction
        <4>2. Collected' = Collected
          BY <1>1, <4>1, CollectedStays
        <4>3. Contract!Node(p).kind = "function"
          BY <1>7, <3>6 DEF IsFunction
        <4>4. Contract!Apply(p)
          BY <1>1, <1>2, <1>4, <3>1, <3>3, <3>6, <4>1, <4>2, <4>3 DEF Contract!Apply
        <4> QED BY <3>2, <4>4
      <3>7. CASE ~find_argument_error(m) /\ ~Throws(p, m) /\ ~IsFunction(p)
        <4>1. UNCHANGED sent /\ process' = [process EXCEPT ![p] = await(p, m)]
          BY <1>9, <2>1, <2>2, <2>6, <3>7 DEF Applies, Makes
        <4>2. await(p, m).held = Append(process[p].held, Result(m))
          BY Awaited
        <4>3. Collected' = [Collected EXCEPT ![p] = Append(@, Result(m))]
          <5>1. PICK x : x = await(p, m)
            OBVIOUS
          <5>2. Collected' = [Collected EXCEPT ![p] = x.held]
            BY <1>1, <4>1, <5>1, CollectedBy
          <5> QED BY <1>6, <4>2, <5>1, <5>2
        <4>4. Contract!Node(p).kind # "function"
          BY <1>7, <3>7 DEF IsFunction
        <4>5. Contract!Apply(p)
          BY <1>1, <1>2, <1>4, <3>1, <3>3, <3>7, <4>1, <4>3, <4>4 DEF Contract!Apply
        <4> QED BY <3>2, <4>5
      <3> QED BY <3>4, <3>5, <3>6, <3>7
    <2> QED BY <2>5, <2>6
  <1>10. ASSUME process[p].held # << >>, process' = [process EXCEPT ![p] = Yielded(p)],
                Makes(w, p, YieldResult(p)), Hands' = Hands
         PROVE  Promised
    <2>1. Yielded(p).held = Tail(process[p].held) /\ YieldResult(p) = Head(process[p].held)
      BY <1>10, Awaited DEF YieldResult
    <2>2. Collected' = [Collected EXCEPT ![p] = Tail(@)]
      <3>1. PICK x : x = Yielded(p)
        OBVIOUS
      <3>2. Collected' = [Collected EXCEPT ![p] = x.held]
        BY <1>1, <1>10, <3>1, CollectedBy
      <3> QED BY <1>6, <2>1, <3>1, <3>2
    <2>3. sent' = [sent EXCEPT ![p] = Append(@, Head(Collected[p]))]
      BY <1>6, <1>10, <2>1 DEF Makes
    <2>4. Contract!Yield(p)
      BY <1>1, <1>2, <1>4, <1>6, <1>10, <2>2, <2>3 DEF Contract!Yield
    <2>5. Contract!Next
      BY <1>7, <2>4 DEF Contract!Next
    <2> QED BY <2>5 DEF Promised
  <1>11. CASE Works(w) /\ Decides(w)
    <2>1. job[w].p = p /\ ~HasMessage(w)
      BY <1>3, <1>11 DEF Decides, HasMessage
    <2>2. ~HasMessage(w)'
      BY <1>11 DEF Decides, Goes, Ends, Makes, Suspends, HasMessage, Works
    <2>3. Hands' = Hands
      BY <1>5, <2>1, <2>2
    <2>4. CASE /\ process[p].yields \/ process[p].held # << >>
               /\ process' = [process EXCEPT ![p] = Yielded(p)] /\ Makes(w, p, YieldResult(p))
      <3>1. process[p].held # << >>
        BY <2>4 DEF Keeping
      <3> QED BY <1>10, <2>3, <2>4, <3>1
    <2>5. CASE UNCHANGED << process, sent >>
      BY <1>8, <2>3, <2>5
    <2> QED BY <1>11, <2>1, <2>4, <2>5 DEF Decides
  <1>12. CASE Postponed(w, p)
    <2>1. CASE UNCHANGED << process, job, sent >>
      BY <1>1, <1>8, <2>1, HandsStay
    <2>2. CASE process' = [process EXCEPT ![p] = Yielded(p)] /\ Makes(w, p, YieldResult(p))
      <3>1. process[p].held # << >>
        BY <1>12 DEF Postponed, Keeping
      <3>2. ~HasMessage(w) /\ ~HasMessage(w)'
        BY <1>12, <2>2 DEF Postponed, Makes, Suspends, Goes, HasMessage, Works
      <3>3. Hands' = Hands
        BY <1>5, <3>2
      <3> QED BY <1>10, <2>2, <3>1, <3>3
    <2> QED BY <1>12, <2>1, <2>2 DEF Postponed
  <1> QED BY <1>9, <1>11, <1>12 DEF Coding

\* A process that has passed the close on forgets what it keeps back.
LEMMA PromisedFinish ==
    ASSUME Plain, CInv, HInv, [Next]_vars, NEW w \in Workers, Finishes(w) PROVE Promised
  <1> USE DEF CInv, HInv
  <1>1. graph' = graph /\ graph \in DOMAIN Graphs
    BY GraphStays DEF Shape
  <1>2. PICK p : p = job[w].p
    OBVIOUS
  <1>3. /\ Works(w) /\ job[w].pc = "finish" /\ p \in Procs /\ final[p] /\ ~Works(w)' /\ Others(w)
        /\ \A v \in Workers : v # w /\ Works(v) => job[v].p # p
    <2>1. Works(w) /\ job[w].pc = "finish" /\ ~Works(w)' /\ Others(w)
      BY DEF Finishes, Ends, Works
    <2>2. p \in Procs /\ final[p]
      BY <1>2, <2>1 DEF Shape, IsJob, Jobs
    <2> QED BY <1>2, <2>1, <2>2 DEF Rights
  <1>4. UNCHANGED << queue, put, final, sent >> /\ process' = [process EXCEPT ![p] = Reset]
    BY <1>2 DEF Finishes, flowVars, procVars
  <1>5. ~HasMessage(w) /\ ~HasMessage(w)'
    BY <1>3 DEF HasMessage, Works
  <1>6. Hands' = Hands /\ Hands[p] = {}
    <2>1. /\ Hand(p) = IF HasMessage(w) THEN {job[w].msg} ELSE {}
          /\ Hand(p)' = IF HasMessage(w)' THEN {job'[w].msg} ELSE {}
          /\ Hand(p)' = Hand(p) => Hands' = Hands
      BY <1>1, <1>2, <1>3, HandsOf
    <2> QED BY <1>3, <1>5, <2>1 DEF Hands
  <1>7. Uses' = Uses /\ Shut' = Shut
    BY <1>1, <1>4, UsesStay, ShutStays
  <1>8. Collected' = [Collected EXCEPT ![p] = << >>]
    <2>1. Reset.held = << >>
      BY DEF Reset
    <2> QED BY <1>1, <1>3, <1>4, <2>1, CollectedBy
  <1>9. p \in Contract!Procs /\ Contract!Node(p) = Graph[p]
    BY <1>1, <1>3, Terms
  <1>10. Contract!Finished(p)
    <2>1. p \in Shut
      BY <1>3 DEF Shut
    <2>2. Graph[p].kind = "process" => Len(Collected[p]) < Graph[p].batch
      BY <1>2, <1>3 DEF Keeping, Collected
    <2> QED BY <1>6, <1>9, <2>1, <2>2 DEF Contract!Finished
  <1>11. Contract!Forget(p)
    BY <1>1, <1>4, <1>6, <1>7, <1>8, <1>10 DEF Contract!Forget
  <1>12. Contract!Next
    BY <1>9, <1>11 DEF Contract!Next
  <1> QED BY <1>12 DEF Promised

\* A job that starts and takes no message, or destroys its senders.
LEMMA PromisedStart ==
    ASSUME Plain, CInv, HInv, [Next]_vars, NEW w \in Workers,
           Closes(w) \/ \E p \in Procs : Starts(w, p) /\ ~Takes(w, p)
    PROVE  Promised
  <1> USE DEF CInv, HInv
  <1>1. graph' = graph
    BY GraphStays
  <1>2. CASE Closes(w)
    <2>1. UNCHANGED << queue, put, final, sent, process, job >>
      BY <1>2 DEF Closes, userVars
    <2>2. UNCHANGED Contract!vars
      BY <1>1, <2>1, HandsStay, Stutters
    <2> QED BY <2>2 DEF Promised
  <1>3. ASSUME NEW p \in Procs, Starts(w, p), ~Takes(w, p) PROVE Promised
    <2>1. UNCHANGED << queue, put, final, sent, process >> /\ ~Works(w)
      BY <1>3 DEF Starts, userVars
    <2>2. CASE UNCHANGED job
      <3>1. UNCHANGED Contract!vars
        BY <1>1, <2>1, <2>2, HandsStay, Stutters
      <3> QED BY <3>1 DEF Promised
    <2>3. CASE Goes(w, p, "decide") \/ Goes(w, p, "dequeue")
      <3>1. Others(w) /\ job'[w].p = p /\ ~HasMessage(w) /\ ~HasMessage(w)'
        BY <2>1, <2>3 DEF Goes, HasMessage, Works
      <3>2. \A v \in Workers : v # w /\ Works(v) => job[v].p # p
        BY <1>3, Taker
      <3>3. /\ Hand(p) = IF HasMessage(w) THEN {job[w].msg} ELSE {}
            /\ Hand(p)' = IF HasMessage(w)' THEN {job'[w].msg} ELSE {}
            /\ Hand(p)' = Hand(p) => Hands' = Hands
        BY <1>1, <2>1, <3>1, <3>2, HandsOf
      <3>4. Hands' = Hands
        BY <3>1, <3>3
      <3>5. UNCHANGED Contract!vars
        BY <1>1, <2>1, <3>4, Stutters
      <3> QED BY <3>5 DEF Promised
    <2> QED BY <1>3, <2>2, <2>3 DEF Starts
  <1> QED BY <1>2, <1>3

LEMMA PromisedStep ==
    ASSUME Plain, CInv, HInv, [Next]_vars PROVE Promised
  <1>1. graph' = graph
    BY GraphStays
  <1>2. ASSUME UNCHANGED << queue, put, final, sent, process, job >> PROVE Promised
    <2>1. UNCHANGED Contract!vars
      BY <1>1, <1>2, HandsStay, Stutters
    <2> QED BY <2>1 DEF Promised
  <1>3. ASSUME UserNext PROVE Promised
    <2>1. ASSUME NEW p \in Procs, Send(p) PROVE Promised
      BY <2>1, PromisedSend
    <2>2. CASE ~(\E p \in Procs : Send(p))
      <3>1. UNCHANGED << queue, put, final, sent, process, job >>
        BY <1>3, <2>2 DEF UserNext, Attach, CopyReceiver, SetReady, DestroyReceiver, StartReady,
                          CopySender, CloseSender, AssignSender, flowVars, procVars, userVars
      <3> QED BY <1>2, <3>1
    <2> QED BY <2>1, <2>2
  <1>4. ASSUME NEW w \in Workers, Plays(w) PROVE Promised
    <2>1. CASE Skips(w) \/ Looks(w) \/ Rereads(w) \/ Releases(w) \/ Suspended(w) \/ Rests(w)
      BY <2>1, PromisedPassing
    <2>2. CASE Sends(w)
      BY <2>2, PromisedSending
    <2>3. CASE Closes(w) \/ \E p \in Procs : Starts(w, p) /\ ~Takes(w, p)
      BY <2>3, PromisedStart
    <2>4. CASE Finishes(w)
      BY <2>4, PromisedFinish
    <2>5. CASE Codes(w)
      <3>1. PICK p \in Procs : Coding(w, p)
        BY <2>5, CodeOf DEF CInv
      <3> QED BY <3>1, PromisedCode
    <2>6. CASE Reads(w)
      <3>1. job[w].p \in Procs /\ Takes(w, job[w].p)
        BY <2>6 DEF Reads, CInv, Shape, IsJob
      <3> QED BY <2>6, <3>1, PromisedTaking
    <2>7. ASSUME NEW p \in Procs, Starts(w, p), Takes(w, p) PROVE Promised
      BY <2>7, PromisedTaking
    <2> QED BY <1>4, <2>1, <2>2, <2>3, <2>4, <2>5, <2>6, <2>7 DEF Plays
  <1>5. ASSUME NEW p \in Procs, Expires(p) PROVE Promised
    <2>1. UNCHANGED << queue, put, final, sent, process, job >>
      BY <1>5 DEF Expires, procVars
    <2> QED BY <1>2, <2>1
  <1>6. ASSUME UNCHANGED vars PROVE Promised
    <2>1. UNCHANGED << queue, put, final, sent, process, job >>
      BY <1>6 DEF vars, flowVars, procVars, userVars
    <2> QED BY <1>2, <2>1
  <1> QED BY <1>3, <1>4, <1>5, <1>6, Played

LEMMA PromisedInit ==
    ASSUME Init PROVE Contract!Init
  <1>1. graph \in DOMAIN Graphs
    BY DEF Init
  <1>2. ASSUME NEW p \in Procs, NEW i \in 1..Arity(p)
        PROVE  put[p][i] = << >> /\ queue[p].items[i] = << >>
    <2>1. PICK n : n = Arity(p) /\ i \in 1..n
      OBVIOUS
    <2>2. queue[p] = [items |-> [h \in 1..n |-> << >>], index |-> 1, popped |-> 1]
      BY <2>1 DEF Init, NewQueues
    <2>3. put[p] = [h \in 1..n |-> << >>]
      BY <2>1 DEF Init
    <2> QED BY <2>1, <2>2, <2>3
  <1>3. put = [p \in Contract!Procs |-> [i \in Contract!Inputs(p) |-> << >>]]
    <2>1. put = [p \in Procs |-> [i \in 1..Arity(p) |-> << >>]]
      BY DEF Init
    <2>2. Contract!Procs = Procs
      BY DEF Contract!Procs, Procs, Graph
    <2>3. \A p \in Procs : Contract!Inputs(p) = 1..Arity(p)
      BY <1>1, Terms
    <2> QED BY <2>1, <2>2, <2>3
  <1>4. Uses = [p \in Contract!Procs |-> [i \in Contract!Inputs(p) |-> 0]]
    <2>1. \A p \in Procs : Used(p) = [i \in 1..Arity(p) |-> 0]
      <3>1. ASSUME NEW p \in Procs, NEW i \in 1..Arity(p) PROVE Len(put[p][i]) - Len(queue[p].items[i]) = 0
        <4>1. put[p][i] = << >> /\ queue[p].items[i] = << >>
          BY <1>2, <3>1
        <4>2. Len(<< >>) - Len(<< >>) = 0
          OBVIOUS
        <4> QED BY <4>1, <4>2
      <3> QED BY <3>1 DEF Used
    <2>2. \A p \in Procs : Contract!Inputs(p) = 1..Arity(p)
      BY <1>1, Terms
    <2>3. Contract!Procs = Procs
      BY DEF Contract!Procs, Procs, Graph
    <2> QED BY <2>1, <2>2, <2>3 DEF Uses
  <1>5. Hands = [p \in Contract!Procs |-> {}]
    <2>1. \A w \in Workers : ~HasMessage(w)
      BY DEF Init, HasMessage
    <2>2. \A p : Hand(p) = {}
      BY <2>1 DEF Hand
    <2> QED BY <2>2 DEF Hands, Contract!Procs, Procs, Graph
  <1>6. Collected = [p \in Contract!Procs |->
                        IF Contract!Node(p).kind = "source"
                        THEN [k \in 1..Contract!Node(p).batch |-> << p, k >>] ELSE << >>]
    <2>1. ASSUME NEW p \in Procs
          PROVE  process[p].held = IF Graph[p].kind = "source" THEN [k \in 1..Graph[p].batch |-> << p, k >>]
                                   ELSE << >>
      BY DEF Init
    <2>2. \A p \in Procs : Contract!Node(p) = Graph[p]
      BY <1>1, Terms
    <2>3. Contract!Procs = Procs
      BY DEF Contract!Procs, Procs, Graph
    <2> QED BY <2>1, <2>2, <2>3 DEF Collected
  <1>7. sent = [p \in Contract!Procs |-> << >>] /\ Shut = {}
    BY DEF Init, Shut, Contract!Procs, Procs, Graph
  <1> QED BY <1>1, <1>3, <1>4, <1>5, <1>6, <1>7 DEF Contract!Init

\* A graph of channels whose buffers are of one and in which no process waits for a time keeps the
\* promise: whatever the threads do, no value is lost, repeated or out of order, a message is what the
\* merge strategy says, and a process sees the close when all it is sent has been taken.
THEOREM KeepsPromise == Spec /\ Plain => Promise
  <1>1. Init => Contract!Init
    BY PromisedInit
  <1>2. Plain /\ HistoryInv /\ [Next]_vars => [Contract!Next]_(Contract!vars)
    BY PromisedStep DEF HistoryInv, Promised
  <1>3. Plain /\ [Next]_vars => Plain'
    BY PlainStays
  <1> QED BY <1>1, <1>2, <1>3, HistoryHolds, PTL DEF Spec, Promise, Contract!Spec
=============================================================================
