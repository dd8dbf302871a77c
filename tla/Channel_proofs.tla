--------------------------- MODULE Channel_proofs ---------------------------
(***************************************************************************)
(* Proofs about Channel, for every graph in which each buffer has the      *)
(* default size, no process waits for a time and a move-only result has    *)
(* one taker: a process runs one step at a time, no queue outgrows its     *)
(* buffer and the assertions hold.                                         *)
(*                                                                         *)
(* The inductive invariant follows the one right to run a process.  It is  *)
(* with a closure of run() or of a delayed yield, with a job, or with the  *)
(* processes that _process_suspend_count waits for (Rights); that count is *)
(* never less than what it waits for (Suspension), so the last             *)
(* clear_to_send is the only one to hand the right on; a process that has  *)
(* seen the close is not given it again (Closing), so that the job that    *)
(* destroys it is its last (Lively).                                       *)
(***************************************************************************)
EXTENDS Channel, TLAPS, FiniteSetTheorems, SequenceTheorems, WellFoundedInduction

\* Each downstream has a buffer of one, no process waits for a time, and what sends a move-only result
\* has one process downstream.
Feeds(p, q) == \E i \in DOMAIN Up(q) : Up(q)[i] = p

Plain == \A p \in Procs :
             /\ Graph[p].wait # "timed"
             /\ Up(p) # << >> => Graph[p].buffer = 1
             /\ Graph[p].moveOnly => \A q, r \in Procs : Feeds(p, q) /\ Feeds(p, r) => q = r

Works(w) == job[w] # NoJob
Clearing == {"check", "state", "release"}

\* A job that has broadcast or is about to send waits for its own clear_to_send too.
Broadcasts(w) == job[w].pc = "send" \/ (job[w].pc \in Clearing /\ job[w].then = "end")

\* The values the job is still to send.
Unsent(w) == IF job[w].pc = "send" /\ job[w].low THEN job[w].n + 1 - job[w].k ELSE 0

\* p has a value of its argument i, or a job of p is still to tell the sender it was taken.
Clears(w, p, i) ==
    /\ Works(w) /\ job[w].p = p /\ job[w].pc \in Clearing /\ job[w].then = "apply"
    /\ \E k \in DOMAIN job[w].cts : job[w].cts[k] = Up(p)[i]

Owes(p, i) == queue[p].items[i] # << >> \/ \E w \in Workers : Clears(w, p, i)

\* The processes u waits for.
Waiting(u) == {p \in Procs : \E i \in DOMAIN Up(p) : Up(p)[i] = u /\ Owes(p, i)}

-----------------------------------------------------------------------------
IsSeq(s) == s \in Seq({s[k] : k \in DOMAIN s})

IsJob(j) ==
    /\ DOMAIN j = {"pc", "p", "locked", "cts", "then", "msg", "out", "n", "k", "low", "seen",
                 "expires"}
    /\ j.p \in Procs /\ j.cts \in Seq(Procs) /\ j.n \in Nat /\ j.k \in Nat /\ j.low \in BOOLEAN
    /\ j.pc \in Clearing \cup {"dequeue", "apply", "decide", "suspend", "send", "done", "finish"}
    /\ ~j.expires

IsQueue(p) ==
    /\ queue[p] = [items |-> queue[p].items, index |-> queue[p].index, popped |-> queue[p].popped]
    /\ queue[p].items = [i \in 1..Arity(p) |-> queue[p].items[i]]
    /\ \A i \in 1..Arity(p) : IsSeq(queue[p].items[i])
    /\ queue[p].index \in 1..Arity(p) /\ queue[p].popped \in 1..Arity(p)

IsProcess(x) ==
    /\ x = [live |-> x.live, held |-> x.held, yields |-> x.yields]
    /\ x.live \in BOOLEAN /\ x.yields \in BOOLEAN

Shape ==
    /\ graph \in DOMAIN Graphs /\ made \subseteq Procs
    /\ open \in [Procs -> Nat] /\ ready \in [Procs -> Nat] /\ handles \in [Procs -> Nat]
    /\ checking \in [Procs -> Nat] /\ receivers \in [Procs -> Nat] /\ senders \in [Procs -> Nat]
    /\ suspend \in [Procs -> Nat] /\ pending \in [Procs -> Nat] /\ delayed \in [Procs -> Nat]
    /\ timeouts \in [Procs -> Nat] /\ timeoutActive \in [Procs -> BOOLEAN]
    /\ running \in [Procs -> BOOLEAN] /\ closeQueue \in [Procs -> BOOLEAN]
    /\ final \in [Procs -> BOOLEAN]
    /\ down \in [Procs -> Seq(Procs \X Nat)]
    /\ queue = [p \in Procs |-> queue[p]] /\ \A p \in Procs : IsQueue(p)
    /\ process = [p \in Procs |-> process[p]] /\ \A p \in Procs : IsProcess(process[p])
    /\ job = [w \in Workers |-> job[w]] /\ \A w \in Workers : Works(w) => IsJob(job[w])
    /\ \A p \in Procs : timeouts[p] = 0 /\ ~timeoutActive[p]

\* What is not made has never run; what is, has its upstream; the user sends to heads only; a downstream
\* list names each process once, with the argument it feeds; a move-only one has room for one.
Built ==
    /\ Heads \subseteq made
    /\ \A p \in Procs : handles[p] > 0 => Up(p) = << >>
    /\ \A p \in made : \A i \in DOMAIN Up(p) : Up(p)[i] \in made
    /\ \A p \in Procs \ made :
          /\ open[p] = 0 /\ ready[p] = 0 /\ checking[p] = 0 /\ handles[p] = 0
          /\ pending[p] = 0 /\ delayed[p] = 0
          /\ \A i \in DOMAIN Up(p) : queue[p].items[i] = << >>
    /\ \A w \in Workers : Works(w) => job[w].p \in made
    /\ \A u \in Procs : \A k \in DOMAIN down[u] :
          LET d == down[u][k] IN d[1] \in made /\ d[2] \in DOMAIN Up(d[1]) /\ Up(d[1])[d[2]] = u
    /\ \A u \in Procs : \A k, h \in DOMAIN down[u] : down[u][k][1] = down[u][h][1] => k = h
    /\ \A u \in Procs : Graph[u].moveOnly => Len(down[u]) <= 1

\* What a job has to clear, and to send.
Jobs ==
    \A w \in Workers : Works(w) =>
        LET j == job[w]
        IN  /\ j.pc \in Clearing =>
                /\ j.cts # << >>
                /\ j.then = "apply" \/ (j.then = "end" /\ j.cts = << j.p >>)
            /\ j.pc \in Clearing /\ j.then = "apply" =>
                /\ \A h, k \in DOMAIN j.cts : j.cts[h] = j.cts[k] => h = k
                /\ \A k \in DOMAIN j.cts : \E i \in DOMAIN Up(j.p) : Up(j.p)[i] = j.cts[k]
                /\ \A i \in DOMAIN Up(j.p) : Clears(w, j.p, i) => queue[j.p].items[i] = << >>
            /\ j.pc \in {"state", "release"} => ~final[Head(j.cts)]
            /\ j.pc \in {"suspend", "send"} =>
                /\ Graph[j.p].moveOnly => j.n = 1
                /\ ~Graph[j.p].moveOnly => j.n <= Len(down[j.p])
                /\ ~j.low => down[j.p] # << >> /\ \A k \in 1..j.n : ~Alive(down[j.p][k][1])
                /\ j.k \in 1..(j.n + 1)
            /\ j.pc = "suspend" => j.k = 1
            /\ j.pc = "send" =>
                /\ j.k <= j.n /\ j.n <= Len(down[j.p])
                /\ \A k \in j.k..Len(down[j.p]) : down[j.p][k][1] \notin Waiting(j.p)
            /\ j.pc = "finish" => final[j.p]

\* There is one right to run a process.
Rights ==
    /\ \A v, w \in Workers : Works(v) /\ Works(w) /\ job[v].p = job[w].p => v = w
    /\ \A p \in Procs :
          /\ pending[p] + delayed[p] <= 1
          /\ pending[p] + delayed[p] > 0 =>
                running[p] /\ suspend[p] = 0 /\ \A w \in Workers : Works(w) => job[w].p # p
          /\ suspend[p] > 0 => running[p]
    /\ \A w \in Workers : Works(w) /\ job[w].pc # "finish" => running[job[w].p]
    /\ \A w \in Workers : Works(w) /\ ~Broadcasts(w) => suspend[job[w].p] = 0

Suspension ==
    /\ \A u \in Procs : Cardinality(Waiting(u)) <= suspend[u]
    /\ \A w \in Workers : Works(w) /\ Broadcasts(w) =>
          Cardinality(Waiting(job[w].p)) + 1 + Unsent(w) <= suspend[job[w].p]

Bounded == \A p \in Procs : \A i \in DOMAIN Up(p) : Len(queue[p].items[i]) <= 1

\* The close is seen when nobody can send any more, and is the last thing the process sees.
Closing ==
    /\ \A p \in Procs :
          /\ closeQueue[p] \/ final[p] => senders[p] = 0
          /\ final[p] => /\ Empty(Graph[p].strategy, queue[p]) /\ ~closeQueue[p]
                         /\ pending[p] = 0 /\ Graph[p].kind # "source"
          /\ ~final[p] => process[p].live
    /\ \A w \in Workers : Works(w) =>
          LET j == job[w]
          IN  /\ final[j.p] => /\ j.pc # "dequeue" /\ (j.pc \in Clearing => j.then = "end")
                               /\ j.pc = "apply" => j.msg = << >>
              /\ j.pc = "dequeue" => Graph[j.p].kind # "source"

\* What runs, and what a delayed yield is to run, has not been destroyed.
Lively ==
    /\ \A p \in Procs : delayed[p] > 0 => process[p].live
    /\ \A w \in Workers : Works(w) => process[job[w].p].live

\* The arguments of p that are fed, by what its upstream has downstream.
Feeding(p) == {i \in DOMAIN Up(p) : \E k \in DOMAIN down[Up(p)[i]] : down[Up(p)[i]][k] = << p, i >>}

Counts ==
    \A p \in Procs :
        /\ p \in made /\ Alive(p) => handles[p] + Cardinality(Feeding(p)) <= senders[p]
        /\ p \notin made => senders[p] = Arity(p) /\ (Graph[p].void \/ receivers[p] > 0)
        /\ open[p] <= receivers[p] \/ Graph[p].void

CInv == Shape /\ Built /\ Jobs /\ Rights /\ Suspension /\ Bounded /\ Closing /\ Lively /\ Counts

IInv == Plain => CInv

-----------------------------------------------------------------------------
(***************************************************************************)
(* The graph.                                                              *)
(***************************************************************************)
LEMMA Nodes ==
    ASSUME graph \in DOMAIN Graphs
    PROVE  /\ IsFiniteSet(Procs)
           /\ \A p \in Procs :
                 /\ Up(p) \in Seq(Procs) /\ Len(Up(p)) \in Nat /\ DOMAIN Up(p) = 1..Len(Up(p))
                 /\ \A i \in DOMAIN Up(p) : Up(p)[i] \in Procs
                 /\ \A i, j \in DOMAIN Up(p) : Up(p)[i] = Up(p)[j] => i = j
                 /\ Graph[p].kind \in {"function", "process", "source"}
                 /\ Graph[p].kind = "source" => Up(p) = << >>
                 /\ Graph[p].strategy \in {"default", "zip_with", "round_robin", "unordered"}
                 /\ Graph[p].strategy = "default" => Len(Up(p)) <= 1
                 /\ Arity(p) \in Nat /\ Arity(p) > 0 /\ DOMAIN Up(p) \subseteq 1..Arity(p)
                 /\ p \in Heads <=> Up(p) = << >>
                 /\ Up(p) # << >> => Arity(p) = Len(Up(p))
  <1> SUFFICES ASSUME NEW p \in Procs
               PROVE  /\ Up(p) \in Seq(Procs) /\ Len(Up(p)) \in Nat /\ DOMAIN Up(p) = 1..Len(Up(p))
                      /\ \A i \in DOMAIN Up(p) : Up(p)[i] \in Procs
                      /\ \A i, j \in DOMAIN Up(p) : Up(p)[i] = Up(p)[j] => i = j
                      /\ Graph[p].kind \in {"function", "process", "source"}
                      /\ Graph[p].kind = "source" => Up(p) = << >>
                      /\ Graph[p].strategy \in {"default", "zip_with", "round_robin", "unordered"}
                      /\ Graph[p].strategy = "default" => Len(Up(p)) <= 1
                      /\ Arity(p) \in Nat /\ Arity(p) > 0 /\ DOMAIN Up(p) \subseteq 1..Arity(p)
                      /\ p \in Heads <=> Up(p) = << >>
                      /\ Up(p) # << >> => Arity(p) = Len(Up(p))
    BY GraphAssumption DEF Procs, Graph
  <1>1. /\ Up(p) \in Seq(Procs)
        /\ \A i, j \in DOMAIN Up(p) : Up(p)[i] = Up(p)[j] => i = j
        /\ Graph[p].kind \in {"function", "process", "source"}
        /\ Graph[p].kind = "source" => Up(p) = << >>
        /\ Graph[p].strategy \in {"default", "zip_with", "round_robin", "unordered"}
        /\ Graph[p].strategy = "default" => Len(Up(p)) <= 1
    BY GraphAssumption DEF Procs, Graph, Up
  <1>2. /\ Len(Up(p)) \in Nat /\ DOMAIN Up(p) = 1..Len(Up(p))
        /\ \A i \in DOMAIN Up(p) : Up(p)[i] \in Procs
        /\ Up(p) # << >> => Len(Up(p)) > 0
    BY <1>1
  <1>3. p \in Heads <=> Up(p) = << >>
    BY DEF Heads
  <1>4. /\ Arity(p) \in Nat /\ Arity(p) > 0 /\ DOMAIN Up(p) \subseteq 1..Arity(p)
        /\ Up(p) # << >> => Arity(p) = Len(Up(p))
    <2>1. CASE Up(p) = << >>
      BY <2>1, <1>2, <1>3 DEF Arity
    <2>2. CASE Up(p) # << >>
      BY <2>2, <1>2, <1>3 DEF Arity
    <2> QED BY <2>1, <2>2
  <1> QED BY <1>1, <1>2, <1>3, <1>4

\* A process is downstream of itself, of what is above it, and of nothing else that is not.
LEMMA Below ==
    ASSUME graph \in DOMAIN Graphs, NEW p \in Procs
    PROVE  /\ Downstream[graph][p] \subseteq Procs
           /\ p \in Downstream[graph][p]
           /\ \A q \in Downstream[graph][p] : Downstream[graph][q] \subseteq Downstream[graph][p]
           /\ \A q \in Downstream[graph][p] : q # p =>
                 \E i \in DOMAIN Up(q) : Up(q)[i] \in Downstream[graph][p]
  <1> DEFINE Closed == {S \in SUBSET Procs : \A q \in Procs :
                          (\E i \in DOMAIN Up(q) : Up(q)[i] \in S) => q \in S}
             D(r) == {q \in Procs : \A S \in Closed : r \in S => q \in S}
  <1>1. \A r \in Procs : Downstream[graph][r] = D(r)
    BY DEF Downstream, Procs, Graph, Up
  <1>2. /\ D(p) \subseteq Procs /\ p \in D(p)
    OBVIOUS
  <1>3. D(p) \in Closed
    OBVIOUS
  <1>4. \A q \in D(p) : D(q) \subseteq D(p)
    BY <1>2, <1>3
  <1>5. ASSUME NEW q \in D(p), q # p, \A i \in DOMAIN Up(q) : Up(q)[i] \notin D(p)
        PROVE  FALSE
    <2>1. D(p) \ {q} \in Closed
      BY <1>3, <1>5
    <2>2. p \in D(p) \ {q}
      BY <1>2, <1>5
    <2> QED BY <2>1, <2>2, <1>5
  <1> HIDE DEF D
  <1> QED BY <1>1, <1>2, <1>4, <1>5
-----------------------------------------------------------------------------
(***************************************************************************)
(* The queues.                                                             *)
(***************************************************************************)
\* A set of natural numbers has a least one.
LEMMA Least ==
    ASSUME NEW T, T \subseteq Nat, T # {}
    PROVE  \E m \in T : \A n \in T : m <= n
  <1>1. PICK m \in T : \A n \in T : << n, m >> \notin OpToRel(<, Nat)
    BY WFMin, NatLessThanWellFounded
  <1>2. \A n \in T : ~(n < m)
    BY <1>1 DEF OpToRel
  <1> QED BY <1>2

LEMMA SeqOps ==
    ASSUME NEW s, IsSeq(s)
    PROVE  /\ Len(s) \in Nat /\ (s = << >> <=> Len(s) = 0) /\ DOMAIN s = 1..Len(s)
           /\ \A m : IsSeq(Append(s, m)) /\ Len(Append(s, m)) = Len(s) + 1 /\ Append(s, m) # << >>
           /\ s # << >> => IsSeq(Tail(s)) /\ Len(Tail(s)) = Len(s) - 1
  <1> DEFINE T == {s[k] : k \in DOMAIN s}
  <1>1. s \in Seq(T)
    BY DEF IsSeq
  <1>2. ASSUME NEW S, NEW t \in Seq(S) PROVE IsSeq(t)
    <2>1. \A k \in 1..Len(t) : t[k] \in {t[h] : h \in DOMAIN t}
      BY <1>2
    <2> QED BY <2>1, <1>2, LenProperties DEF IsSeq
  <1>3. ASSUME NEW m PROVE IsSeq(Append(s, m)) /\ Len(Append(s, m)) = Len(s) + 1 /\ Append(s, m) # << >>
    <2>1. s \in Seq(T \cup {m})
      BY <1>1, SeqMonotonic
    <2>2. Append(s, m) \in Seq(T \cup {m}) /\ Len(Append(s, m)) = Len(s) + 1
      BY <2>1
    <2>3. IsSeq(Append(s, m))
      BY <1>2, <2>2
    <2>4. Append(s, m) # << >>
      BY <2>1
    <2> QED BY <2>2, <2>3, <2>4
  <1>4. ASSUME s # << >> PROVE IsSeq(Tail(s)) /\ Len(Tail(s)) = Len(s) - 1
    BY <1>1, <1>2, <1>4, HeadTailProperties
  <1>5. Len(s) \in Nat /\ (s = << >> <=> Len(s) = 0) /\ DOMAIN s = 1..Len(s)
    BY <1>1
  <1> QED BY <1>3, <1>4, <1>5

\* What a strategy takes from p when there is a message.
Taken(p) == LET takes == StrategyOf(Graph[p].strategy, queue[p]).takes
            IN  {takes[k] : k \in DOMAIN takes}

LEMMA Taking ==
    ASSUME graph \in DOMAIN Graphs, NEW p \in Procs, IsQueue(p),
           ~Empty(Graph[p].strategy, queue[p])
    PROVE  LET s == Graph[p].strategy
               popped == PopFront(s, queue[p])
           IN  /\ Taken(p) \subseteq 1..Arity(p)
               /\ \A i \in Taken(p) : queue[p].items[i] # << >>
               /\ (\E i \in 1..Arity(p) : Taken(p) = {i}) \/ Taken(p) = 1..Arity(p)
               /\ popped = [items |-> popped.items, index |-> popped.index, popped |-> popped.popped]
               /\ popped.items = [i \in 1..Arity(p) |-> IF i \in Taken(p) THEN Tail(queue[p].items[i])
                                                        ELSE queue[p].items[i]]
               /\ popped.index \in 1..Arity(p) /\ popped.popped \in 1..Arity(p)
               /\ StrategyOf(s, popped).counted = Taken(p)
  <1> DEFINE s == Graph[p].strategy
             q == queue[p]
             n == Arity(p)
             popped == PopFront(s, q)
             takes == StrategyOf(s, q).takes
             Chosen(T) == /\ T \subseteq 1..n /\ \A i \in T : q.items[i] # << >>
                          /\ (\E i \in 1..n : T = {i}) \/ T = 1..n
                          /\ StrategyOf(s, q).index \in 1..n /\ popped.popped \in 1..n
                          /\ StrategyOf(s, popped).counted = T
  <1>1. /\ n \in Nat /\ n > 0
        /\ s \in {"default", "zip_with", "round_robin", "unordered"}
        /\ s = "default" => n = 1
    <2>1. n = 1 \/ n = Len(Up(p))
      BY DEF Arity
    <2> QED BY <2>1, Nodes
  <1>2. /\ q = [items |-> q.items, index |-> q.index, popped |-> q.popped]
        /\ q.items = [i \in 1..n |-> q.items[i]] /\ DOMAIN q.items = 1..n
        /\ \A i \in 1..n : IsSeq(q.items[i])
        /\ q.index \in 1..n /\ q.popped \in 1..n
    BY DEF IsQueue
  <1>3. Len(q.items) = n
    BY <1>1, <1>2
  <1>4. takes # << >> /\ \A k \in DOMAIN takes : q.items[takes[k]] # << >>
    BY DEF Empty
  <1>5. /\ popped = [items |-> popped.items, index |-> popped.index, popped |-> popped.popped]
        /\ popped.items = [i \in 1..n |-> IF i \in Taken(p) THEN Tail(q.items[i]) ELSE q.items[i]]
        /\ popped.index = StrategyOf(s, q).index
        /\ popped.popped = IF s \in {"round_robin", "unordered"} THEN takes[1] ELSE q.popped
    BY <1>2 DEF PopFront, Arguments, Taken
  <1>6. DOMAIN popped.items = 1..n /\ Len(popped.items) = n
    BY <1>1, <1>5
  <1>7. Taken(p) = {takes[k] : k \in DOMAIN takes}
    BY DEF Taken
  <1>8. ASSUME NEW i, takes = << i >> PROVE Taken(p) = {i} /\ q.items[i] # << >>
    <2> HIDE DEF takes
    <2> QED BY <1>4, <1>7, <1>8
  <1>9. ASSUME s = "default" PROVE Chosen(Taken(p))
    <2>1. takes = << 1 >> /\ StrategyOf(s, q).index = q.index /\ StrategyOf(s, popped).counted = {1}
      BY <1>9 DEF StrategyOf, default_queue_strategy
    <2>2. Taken(p) = {1} /\ q.items[1] # << >>
      BY <1>8, <2>1
    <2> HIDE DEF takes, popped, q
    <2> QED BY <1>1, <1>2, <1>5, <1>9, <2>1, <2>2
  <1>10. ASSUME s = "zip_with" PROVE Chosen(Taken(p))
    <2>1. takes = [i \in 1..n |-> i] /\ StrategyOf(s, q).index = q.index
      BY <1>2, <1>10 DEF StrategyOf, zip_with_queue_strategy, Arguments
    <2>2. StrategyOf(s, popped).counted = 1..n
      BY <1>6, <1>10 DEF StrategyOf, zip_with_queue_strategy, Arguments
    <2> HIDE DEF takes, popped, q
    <2>3. Taken(p) = 1..n
      BY <1>7, <2>1
    <2>4. \A i \in 1..n : q.items[i] # << >>
      BY <1>4, <2>1
    <2> QED BY <1>1, <1>2, <1>5, <1>10, <2>1, <2>2, <2>3, <2>4
  <1>11. ASSUME s = "round_robin" PROVE Chosen(Taken(p))
    <2>1. takes = << q.index >> /\ StrategyOf(s, q).index \in 1..n
      BY <1>1, <1>2, <1>3, <1>11 DEF StrategyOf, round_robin_queue_strategy
    <2>2. popped.popped = q.index
      BY <1>5, <1>11, <2>1
    <2>3. StrategyOf(s, popped).counted = {q.index}
      BY <1>11, <2>2 DEF StrategyOf, round_robin_queue_strategy
    <2>4. Taken(p) = {q.index} /\ q.items[q.index] # << >>
      BY <1>8, <2>1
    <2> HIDE DEF takes, popped, q
    <2> QED BY <1>1, <1>2, <1>5, <2>1, <2>2, <2>3, <2>4
  <1>12. ASSUME s = "unordered" PROVE Chosen(Taken(p))
    <2> DEFINE P == {j \in Arguments(q) : q.items[j] # << >>}
               first == tuple_find(P, Len(q.items))
    <2>1. /\ takes = (IF first > n THEN << >> ELSE << first >>)
          /\ StrategyOf(s, q).index = first
      BY <1>3, <1>12 DEF StrategyOf, unordered_queue_strategy
    <2>2. takes = << first >> /\ ~(first > n)
      BY <1>4, <2>1
    <2>3. first \in 1..n
      <3>1. P # {}
        BY <1>1, <1>3, <2>2 DEF tuple_find
      <3>2. P \subseteq 1..n
        BY <1>2 DEF Arguments
      <3>3. first = CHOOSE j \in P : \A h \in P : j <= h
        BY <3>1 DEF tuple_find
      <3> HIDE DEF P
      <3>4. P \subseteq Nat
        BY <1>1, <3>2
      <3>5. \E j \in P : \A h \in P : j <= h
        BY <3>1, <3>4, Least
      <3> QED BY <3>2, <3>3, <3>5
    <2>4. popped.popped = first
      BY <1>5, <1>12, <2>2
    <2>5. StrategyOf(s, popped).counted = {first}
      BY <1>12, <2>4 DEF StrategyOf, unordered_queue_strategy
    <2>6. Taken(p) = {first} /\ q.items[first] # << >>
      BY <1>8, <2>2
    <2> HIDE DEF takes, popped, first, q
    <2> QED BY <1>1, <1>2, <1>5, <2>1, <2>2, <2>3, <2>4, <2>5, <2>6
  <1>13. Chosen(Taken(p))
    BY <1>1, <1>9, <1>10, <1>11, <1>12
  <1> QED BY <1>5, <1>13

\* The senders that taking a message clears to send, as pop_from_queue lists them.
ClearedBy(p) ==
    LET cleared == {i \in DOMAIN Up(p) : Sizes(Graph[p].strategy,
                                               PopFront(Graph[p].strategy, queue[p]))[i]
                                            <= Minus(Graph[p].buffer, 1)}
    IN  [k \in 1..Cardinality(cleared) |->
            Up(p)[CHOOSE i \in cleared : Cardinality({h \in cleared : h <= i}) = k]]

\* Each argument that was taken has been emptied, and its sender is cleared to send once.
LEMMA Popping ==
    ASSUME graph \in DOMAIN Graphs, Plain, NEW p \in Procs, IsQueue(p),
           ~Empty(Graph[p].strategy, queue[p]),
           \A i \in DOMAIN Up(p) : Len(queue[p].items[i]) <= 1
    PROVE  LET cts == ClearedBy(p)
           IN  /\ cts \in Seq(Procs)
               /\ \A h, k \in DOMAIN cts : cts[h] = cts[k] => h = k
               /\ \A k \in DOMAIN cts : \E i \in DOMAIN Up(p) :
                    /\ Up(p)[i] = cts[k] /\ queue[p].items[i] # << >>
                    /\ PopFront(Graph[p].strategy, queue[p]).items[i] = << >>
  <1> DEFINE s == Graph[p].strategy
             q == queue[p]
             n == Arity(p)
             popped == PopFront(s, q)
             cleared == {i \in DOMAIN Up(p) : Sizes(s, popped)[i] <= Minus(Graph[p].buffer, 1)}
             below(i) == {h \in cleared : h <= i}
             c(k) == CHOOSE i \in cleared : Cardinality(below(i)) = k
             N == Cardinality(cleared)
             cts == [k \in 1..N |-> Up(p)[c(k)]]
  <1>1. /\ n \in Nat /\ n > 0
        /\ DOMAIN Up(p) = 1..Len(Up(p)) /\ Len(Up(p)) \in Nat
        /\ DOMAIN Up(p) \subseteq 1..n /\ (Up(p) # << >> => n = Len(Up(p)))
        /\ \A i \in DOMAIN Up(p) : Up(p)[i] \in Procs
        /\ \A i, j \in DOMAIN Up(p) : Up(p)[i] = Up(p)[j] => i = j
        /\ Up(p) \in Seq(Procs)
    BY Nodes
  <1>2. /\ \A i \in 1..n : IsSeq(q.items[i])
    BY DEF IsQueue
  <1>3. /\ Taken(p) \subseteq 1..n
        /\ \A i \in Taken(p) : q.items[i] # << >>
        /\ (\E i \in 1..n : Taken(p) = {i}) \/ Taken(p) = 1..n
        /\ popped.items = [i \in 1..n |-> IF i \in Taken(p) THEN Tail(q.items[i]) ELSE q.items[i]]
        /\ StrategyOf(s, popped).counted = Taken(p)
    BY Taking
  <1>4. \A i \in DOMAIN Up(p) : i \in Taken(p) => popped.items[i] = << >>
    <2> SUFFICES ASSUME NEW i \in DOMAIN Up(p), i \in Taken(p) PROVE popped.items[i] = << >>
      OBVIOUS
    <2>1. i \in 1..n /\ IsSeq(q.items[i]) /\ q.items[i] # << >> /\ Len(q.items[i]) <= 1
      BY <1>1, <1>2, <1>3
    <2> HIDE DEF q
    <2>2. IsSeq(Tail(q.items[i])) /\ Len(Tail(q.items[i])) = 0
      <3> DEFINE t == q.items[i]
      <3>1. IsSeq(t) /\ t # << >> /\ Len(t) <= 1
        BY <2>1
      <3> HIDE DEF t
      <3>2. Len(t) \in Nat /\ Len(t) # 0
        BY <3>1, SeqOps
      <3>3. IsSeq(Tail(t)) /\ Len(Tail(t)) = Len(t) - 1
        BY <3>1, SeqOps
      <3>4. Len(Tail(t)) = 0
        BY <3>1, <3>2, <3>3
      <3> QED BY <3>3, <3>4 DEF t
    <2>3. Tail(q.items[i]) = << >>
      BY <2>2, SeqOps
    <2>4. popped.items[i] = Tail(q.items[i])
      BY <1>3, <2>1
    <2> QED BY <2>3, <2>4
  <1>5. cleared = Taken(p) \cap DOMAIN Up(p)
    <2> SUFFICES ASSUME NEW i \in DOMAIN Up(p)
                 PROVE  Sizes(s, popped)[i] <= Minus(Graph[p].buffer, 1) <=> i \in Taken(p)
      OBVIOUS
    <2>1. Graph[p].buffer = 1
      BY <1>1 DEF Plain
    <2>2. Minus(Graph[p].buffer, 1) = 0
      BY <2>1 DEF Minus, SizeMax
    <2>3. DOMAIN popped.items = 1..n
      BY <1>3
    <2>4. Sizes(s, popped)[i] = IF i \in Taken(p) THEN Len(popped.items[i]) ELSE SizeMax
      BY <1>1, <1>3, <2>3 DEF Sizes, Arguments
    <2>5. CASE i \in Taken(p)
      BY <1>4, <2>2, <2>4, <2>5
    <2>6. CASE i \notin Taken(p)
      BY <2>2, <2>4, <2>6 DEF SizeMax
    <2> QED BY <2>5, <2>6
  <1>6. cleared = {} \/ (\E i \in DOMAIN Up(p) : cleared = {i}) \/ cleared = 1..n
    BY <1>1, <1>3, <1>5
  <1>7. N \in Nat /\ \A k \in 1..N : \E i \in cleared : Cardinality(below(i)) = k
    <2>0. N = Cardinality(cleared)
      OBVIOUS
    <2> HIDE DEF N, cleared
    <2>1. CASE cleared = {}
      BY <2>0, <2>1, FS_EmptySet
    <2>2. ASSUME NEW i \in DOMAIN Up(p), cleared = {i}
          PROVE  N \in Nat /\ \A k \in 1..N : \E j \in cleared : Cardinality(below(j)) = k
      <3>1. below(i) = {i}
        BY <1>1, <2>2
      <3>2. Cardinality(below(i)) = 1 /\ N = 1
        BY <2>0, <2>2, <3>1, FS_Singleton
      <3> HIDE DEF below
      <3> QED BY <2>2, <3>2
    <2>3. CASE cleared = 1..n
      <3>1. N = n
        BY <1>1, <2>0, <2>3, FS_Interval
      <3>2. \A k \in 1..n : below(k) = 1..k
        BY <1>1, <2>3
      <3> HIDE DEF below
      <3>3. \A k \in 1..n : Cardinality(1..k) = k
        BY <1>1, FS_Interval
      <3>4. \A k \in 1..n : Cardinality(below(k)) = k
        BY <3>2, <3>3
      <3> QED BY <1>1, <2>3, <3>1, <3>4
    <2> QED BY <1>6, <2>1, <2>2, <2>3
  <1> HIDE DEF below
  <1>8. \A k \in 1..N : c(k) \in cleared /\ Cardinality(below(c(k))) = k
    BY <1>7
  <1> HIDE DEF c
  <1>9. \A k \in 1..N : /\ c(k) \in DOMAIN Up(p) /\ q.items[c(k)] # << >> /\ popped.items[c(k)] = << >>
    BY <1>3, <1>4, <1>5, <1>8
  <1> HIDE DEF popped, cleared, N
  <1>10. cts \in [1..N -> Procs] /\ DOMAIN cts = 1..N /\ \A k \in 1..N : cts[k] = Up(p)[c(k)]
    BY <1>1, <1>9
  <1>11. cts \in Seq(Procs)
    BY <1>7, <1>10
  <1>12. \A h, k \in 1..N : cts[h] = cts[k] => h = k
    BY <1>1, <1>8, <1>9, <1>10
  <1>13. cts = ClearedBy(p)
    BY DEF ClearedBy, c, cleared, N, popped, below
  <1> HIDE DEF cts
  <1> QED BY <1>9, <1>10, <1>11, <1>12, <1>13 DEF popped

-----------------------------------------------------------------------------
(***************************************************************************)
(* The actions of Channel with the next job resolved.                      *)
(***************************************************************************)
Others(w) == \A v \in Workers : v # w => job'[v] = job[v]

Ends(w) == job'[w] = NoJob /\ Others(w)

\* A job of p, new or not, goes to pc.
Goes(w, p, pc) == Works(w)' /\ Others(w) /\ job'[w].p = p /\ job'[w].pc = pc

\* It has to call clear_to_send, and then goes where then says.
Clear(w, p, cts, then) == Goes(w, p, "check") /\ job'[w].cts = cts /\ job'[w].then = then

\* It calls clear_to_send on its own process, and ends.
ClearsSelf(w) == Clear(w, job[w].p, << job[w].p >>, "end")

\* It is about to broadcast.
Suspends(w, p) ==
    /\ Goes(w, p, "suspend") /\ job'[w].k = 1
    /\ job'[w].n = downstream_size(p) /\ job'[w].low = minimum_free_buffer_low(p)

\* The head of cts has been called.
Called(w) ==
    \/ /\ Tail(job[w].cts) # << >> /\ job'[w].msg = job[w].msg
       /\ Clear(w, job[w].p, Tail(job[w].cts), job[w].then)
    \/ Tail(job[w].cts) = << >> /\ job[w].then = "end" /\ Ends(w)
    \/ /\ Tail(job[w].cts) = << >> /\ job[w].then = "apply" /\ Goes(w, job[w].p, "apply")
       /\ job'[w].msg = job[w].msg

Skips(w) ==
    /\ Works(w) /\ job[w].pc = "check" /\ final[Head(job[w].cts)] /\ Called(w)
    /\ UNCHANGED << graphVars, senders, down, flowVars, procVars, userVars, sent >>

Looks(w) ==
    /\ Works(w) /\ job[w].pc \in {"check", "state"}
    /\ job[w].pc = "check" => ~final[Head(job[w].cts)]
    /\ Works(w)' /\ Others(w) /\ job'[w].pc \in {"state", "release"}
    /\ job'[w].p = job[w].p /\ job'[w].cts = job[w].cts /\ job'[w].then = job[w].then
    /\ job'[w].msg = job[w].msg
    /\ UNCHANGED << graphVars, senders, down, flowVars, procVars, userVars, sent >>

\* What is downstream is looked at again, once some of it has expired.
Rereads(w) ==
    LET j == job[w]
        d == down[j.p]
    IN  /\ Works(w) /\ j.pc = "suspend" /\ Goes(w, j.p, "suspend")
        /\ job'[w].n = j.n /\ job'[w].k = j.k /\ job'[w].out = j.out
        /\ \E k \in DOMAIN d : ~Alive(d[k][1])
        /\ \/ Graph[j.p].moveOnly \/ job'[w].low
           \/ \A k \in 1..j.n : Alive(d[k][1]) => ~(free_buffer(d[k][1], d[k][2]) <= 1)
        /\ UNCHANGED << graphVars, senders, down, flowVars, procVars, userVars, sent >>

Releases(w) ==
    /\ Works(w) /\ job[w].pc = "release" /\ Called(w)
    /\ clear_to_send(Head(job[w].cts), job[w].low)
    /\ UNCHANGED << graphVars, senders, down, queue, put, closeQueue, final, userVars, sent >>

Suspended(w) ==
    LET j == job[w]
    IN  /\ Works(w) /\ j.pc = "suspend"
        /\ suspend' = [suspend EXCEPT ![j.p] = IF j.low THEN j.n + 1 ELSE 1]
        /\ \/ (j.n = 0 \/ down[j.p] = << >>) /\ ClearsSelf(w)
           \/ /\ j.n # 0 /\ down[j.p] # << >> /\ Goes(w, j.p, "send")
              /\ job'[w].n = j.n /\ job'[w].k = j.k /\ job'[w].low = j.low /\ job'[w].out = j.out
        /\ UNCHANGED << graphVars, senders, down, flowVars, closeQueue, final, userVars, sent >>

Sends(w) ==
    LET j == job[w]
        d == down[j.p][j.k]
    IN  /\ Works(w) /\ j.pc = "send" /\ send(d[1], d[2], j.out)
        /\ \/ j.k = j.n /\ ClearsSelf(w)
           \/ /\ j.k # j.n /\ Goes(w, j.p, "send")
              /\ job'[w].n = j.n /\ job'[w].k = j.k + 1 /\ job'[w].low = j.low /\ job'[w].out = j.out
        /\ UNCHANGED << graphVars, senders, down, procVars, userVars, sent >>

Rests(w) ==
    LET p == job[w].p
        doRun == ~Empty(Graph[p].strategy, queue[p]) \/ closeQueue[p]
    IN  /\ Works(w) /\ job[w].pc = "done"
        /\ running' = [running EXCEPT ![p] = doRun]
        /\ pending' = [pending EXCEPT ![p] = @ + (IF doRun THEN 1 ELSE 0)]
        /\ (final[p] /\ Goes(w, p, "finish")) \/ (~final[p] /\ Ends(w))
        /\ UNCHANGED << graphVars, senders, down, queue, put, procVars, userVars, sent >>

Closes(w) ==
    LET p == job[w].p
        q == Head(down[p])[1]
    IN  /\ Works(w) /\ job[w].pc = "finish" /\ down[p] # << >>
        /\ down' = [down EXCEPT ![p] = Tail(@)]
        /\ IF Alive(q) THEN remove_sender(q) ELSE UNCHANGED << senders, closeQueue, running, pending >>
        /\ UNCHANGED << graphVars, queue, put, suspend, final, userVars, job, sent >>

Finishes(w) ==
    /\ Works(w) /\ job[w].pc = "finish" /\ Ends(w)
    /\ process' = [process EXCEPT ![job[w].p] = Reset]
    /\ UNCHANGED << graphVars, senders, down, flowVars, procVars, delayed, timeouts,
                    timeoutActive, sent >>

\* The user's code leaves a process that is alive so.
Keeps(p) ==
    \E x : IsProcess(x) /\ (process[p].live => x.live) /\ process' = [process EXCEPT ![p] = x]

\* What a job does after a message, or the close.
Thinks(w) ==
    /\ Works(w) /\ job[w].pc \in {"apply", "decide"} /\ Keeps(job[w].p)
    /\ \/ delayed' = delayed /\ Ends(w)
       \/ delayed' = [delayed EXCEPT ![job[w].p] = @ + 1] /\ Ends(w)
       \/ delayed' = delayed /\ Goes(w, job[w].p, "done")
       \/ delayed' = delayed /\ Goes(w, job[w].p, "decide")
       \/ /\ delayed' = delayed /\ Goes(w, job[w].p, "dequeue")
          /\ job[w].pc = "apply" /\ job[w].msg # << >> /\ Graph[job[w].p].kind # "source"
       \/ delayed' = delayed /\ Suspends(w, job[w].p)
    /\ UNCHANGED << graphVars, senders, down, flowVars, procVars, timeouts, timeoutActive >>

\* A message is taken, or the close is seen.
Takes(w, p) ==
    LET s == Graph[p].strategy
    IN  /\ Graph[p].kind # "source"
        /\ \/ /\ Empty(s, queue[p]) /\ UNCHANGED queue
              /\ final' = [final EXCEPT ![p] = closeQueue[p]]
              /\ closeQueue' = [closeQueue EXCEPT ![p] = FALSE]
              /\ Goes(w, p, "apply") /\ job'[w].msg = << >>
           \/ /\ ~Empty(s, queue[p]) /\ UNCHANGED << final, closeQueue >>
              /\ queue' = [queue EXCEPT ![p] = PopFront(s, queue[p])]
              /\ job'[w].msg = Front(s, queue[p])
              /\ \/ Goes(w, p, "apply")
                 \/ \E cts \in Seq(Procs) :
                      /\ cts # << >> /\ Clear(w, p, cts, "apply")
                      /\ \A h, k \in DOMAIN cts : cts[h] = cts[k] => h = k
                      /\ \A k \in DOMAIN cts : \E i \in DOMAIN Up(p) :
                            /\ Up(p)[i] = cts[k]
                            /\ queue[p].items[i] # << >> /\ queue'[p].items[i] = << >>

Reads(w) ==
    /\ Works(w) /\ job[w].pc = "dequeue" /\ Takes(w, job[w].p)
    /\ UNCHANGED << graphVars, senders, down, running, pending, put, suspend, userVars, sent >>

Starts(w, p) ==
    /\ ~Works(w) /\ pending[p] > 0 /\ Alive(p)
    /\ pending' = [pending EXCEPT ![p] = @ - 1]
    /\ \/ Takes(w, p)
       \/ /\ \/ Goes(w, p, "decide")
             \/ Graph[p].kind # "source" /\ Goes(w, p, "dequeue")
             \/ UNCHANGED job
          /\ UNCHANGED << queue, final, closeQueue >>
    /\ UNCHANGED << graphVars, senders, down, running, put, suspend, userVars, sent >>

Delays(w, p) ==
    /\ ~Works(w) /\ delayed[p] > 0 /\ Alive(p)
    /\ delayed' = [delayed EXCEPT ![p] = @ - 1]
    /\ UNCHANGED << process, job >> \/ (Keeps(p) /\ Suspends(w, p))
    /\ UNCHANGED << graphVars, senders, down, flowVars, procVars, timeouts, timeoutActive >>

Expires(p) ==
    /\ ~Alive(p)
    /\ pending' = [pending EXCEPT ![p] = 0]
    /\ delayed' = [delayed EXCEPT ![p] = 0]
    /\ UNCHANGED << graphVars, senders, down, queue, running, put, procVars, process, timeouts,
                    timeoutActive, job, sent >>

Runs(w) ==
    \/ Skips(w) \/ Looks(w) \/ Rereads(w) \/ Releases(w) \/ Suspended(w) \/ Sends(w) \/ Rests(w)
    \/ Closes(w) \/ Finishes(w) \/ Thinks(w) \/ Reads(w)
    \/ \E p \in Procs : Starts(w, p) \/ Delays(w, p)

Flat ==
    \/ UserNext
    \/ \E w \in Workers : Runs(w)
    \/ \E p \in Procs : Expires(p)
    \/ UNCHANGED vars

\* The jobs of the next state are jobs.
JobsKeep == job' = [w \in Workers |-> job'[w]] /\ \A w \in Workers : Works(w)' => IsJob(job'[w])

LEMMA JobFields ==
    ASSUME NEW j, IsJob(j)
    PROVE  /\ j # NoJob /\ j.p \in Procs /\ ~j.expires
           /\ \A m : IsJob([j EXCEPT !.msg = m]) /\ [j EXCEPT !.msg = m].p = j.p
                     /\ [j EXCEPT !.msg = m].msg = m
  BY DEF IsJob, Clearing, NoJob

LEMMA AfterClears ==
    ASSUME NEW j, IsJob(j), NEW cts \in Seq(Procs), cts # << >>, NEW then
    PROVE  /\ IsJob(After(j, cts, then)) /\ After(j, cts, then).pc = "check"
           /\ After(j, cts, then).cts = cts /\ After(j, cts, then).then = then
           /\ After(j, cts, then).p = j.p /\ After(j, cts, then).msg = j.msg
  BY DEF After, IsJob, Clearing

LEMMA AfterEnds ==
    ASSUME NEW j, IsJob(j) PROVE After(j, << >>, "end") = NoJob
  BY DEF After, IsJob

LEMMA AfterGoes ==
    ASSUME NEW j, IsJob(j), NEW then \in {"apply", "dequeue", "decide", "done", "finish"}
    PROVE  /\ IsJob(After(j, << >>, then)) /\ After(j, << >>, then).pc = then
           /\ After(j, << >>, then).p = j.p /\ After(j, << >>, then).msg = j.msg
  BY DEF After, IsJob, Clearing

LEMMA NewJobFields ==
    ASSUME NEW p \in Procs, NEW pc \in {"apply", "decide", "dequeue", "suspend"},
           NEW locked \in BOOLEAN
    PROVE  IsJob(NewJob(p, pc, locked)) /\ NewJob(p, pc, locked).p = p
           /\ NewJob(p, pc, locked).pc = pc
  BY DEF IsJob, NewJob

LEMMA BroadcastFields ==
    ASSUME NEW j, IsJob(j), NEW out, down \in [Procs -> Seq(Procs \X Nat)]
    PROVE  LET r == LookDownstream(j, out)
           IN  /\ IsJob(r) /\ r.p = j.p /\ r.pc = "suspend" /\ r.k = 1
               /\ r.n = downstream_size(j.p) /\ r.low = minimum_free_buffer_low(j.p)
  <1>1. downstream_size(j.p) \in Nat
    BY DEF downstream_size, IsJob
  <1>2. minimum_free_buffer_low(j.p) \in BOOLEAN
    BY DEF minimum_free_buffer_low
  <1> DEFINE n == downstream_size(j.p)
             low == minimum_free_buffer_low(j.p)
             seen == {down[j.p][k][1] : k \in {k \in DOMAIN down[j.p] : Alive(down[j.p][k][1])}}
  <1>4. n \in Nat /\ low \in BOOLEAN
    BY <1>1, <1>2
  <1>5. LookDownstream(j, out) = [j EXCEPT !.pc = "suspend", !.out = out, !.n = n, !.k = 1, !.low = low,
                                           !.seen = seen]
    BY DEF LookDownstream
  <1> HIDE DEF n, low, seen
  <1> DEFINE r == [j EXCEPT !.pc = "suspend", !.out = out, !.n = n, !.k = 1, !.low = low,
                            !.seen = seen]
  <1>6. IsJob(r) /\ r.p = j.p /\ r.pc = "suspend" /\ r.k = 1 /\ r.n = n /\ r.low = low
    BY <1>4 DEF IsJob, Clearing
  <1> HIDE DEF r
  <1>7. LookDownstream(j, out) = r
    BY <1>5 DEF r
  <1> QED BY <1>6, <1>7 DEF n, low

\* One job changes.
LEMMA Continues ==
    ASSUME Shape, NEW w \in Workers, NEW r, Continue(w, r), r = NoJob \/ IsJob(r)
    PROVE  JobsKeep /\ Others(w) /\ job'[w] = r /\ (IsJob(r) => Works(w)')
  BY JobFields DEF Continue, JobsKeep, Others, Works, Shape

\* job has not changed.
LEMMA Stays == Shape /\ UNCHANGED job => JobsKeep
  BY DEF Shape, JobsKeep, Works

LEMMA ToClear ==
    ASSUME Shape, NEW w \in Workers, NEW j, IsJob(j), NEW cts \in Seq(Procs), cts # << >>, NEW then,
           Continue(w, After(j, cts, then))
    PROVE  JobsKeep /\ Clear(w, j.p, cts, then) /\ job'[w].msg = j.msg
  <1> DEFINE r == After(j, cts, then)
  <1>1. IsJob(r) /\ r.pc = "check" /\ r.cts = cts /\ r.then = then /\ r.p = j.p /\ r.msg = j.msg
    BY AfterClears
  <1>2. Continue(w, r)
    OBVIOUS
  <1> HIDE DEF r
  <1> QED BY <1>1, <1>2, Continues DEF Clear, Goes

LEMMA ToEnd ==
    ASSUME Shape, NEW w \in Workers, NEW j, IsJob(j), Continue(w, After(j, << >>, "end"))
    PROVE  JobsKeep /\ Ends(w)
  <1>1. Continue(w, NoJob)
    BY AfterEnds
  <1> QED BY <1>1, Continues DEF Ends

LEMMA ToGo ==
    ASSUME Shape, NEW w \in Workers, NEW j, IsJob(j),
           NEW then \in {"apply", "dequeue", "decide", "done", "finish"},
           Continue(w, After(j, << >>, then))
    PROVE  JobsKeep /\ Goes(w, j.p, then) /\ job'[w].msg = j.msg
  <1> DEFINE r == After(j, << >>, then)
  <1>1. IsJob(r) /\ r.pc = then /\ r.p = j.p /\ r.msg = j.msg
    BY AfterGoes
  <1>2. Continue(w, r)
    OBVIOUS
  <1> HIDE DEF r
  <1> QED BY <1>1, <1>2, Continues DEF Goes

LEMMA ToSuspend ==
    ASSUME Shape, NEW w \in Workers, NEW j, IsJob(j), NEW out, Continue(w, LookDownstream(j, out))
    PROVE  JobsKeep /\ Suspends(w, j.p)
  <1> DEFINE r == LookDownstream(j, out)
  <1>1. /\ IsJob(r) /\ r.p = j.p /\ r.pc = "suspend" /\ r.k = 1
        /\ r.n = downstream_size(j.p) /\ r.low = minimum_free_buffer_low(j.p)
    BY BroadcastFields DEF Shape
  <1>2. Continue(w, r)
    OBVIOUS
  <1> HIDE DEF r
  <1> QED BY <1>1, <1>2, Continues DEF Suspends, Goes

LEMMA ToNew ==
    ASSUME Shape, NEW w \in Workers, NEW p \in Procs,
           NEW pc \in {"apply", "decide", "dequeue", "suspend"}, NEW locked \in BOOLEAN,
           Continue(w, NewJob(p, pc, locked))
    PROVE  JobsKeep /\ Goes(w, p, pc)
  <1> DEFINE r == NewJob(p, pc, locked)
  <1>1. IsJob(r) /\ r.p = p /\ r.pc = pc
    BY NewJobFields
  <1>2. Continue(w, r)
    OBVIOUS
  <1> HIDE DEF r
  <1> QED BY <1>1, <1>2, Continues DEF Goes

\* The job at a pc is one, and has what it is to clear.
LEMMA JobAt ==
    ASSUME Shape, Jobs, NEW w \in Workers, NEW pc, At(w, pc), pc # "idle"
    PROVE  /\ Works(w) /\ IsJob(job[w]) /\ job[w].p \in Procs /\ job[w].pc = pc
           /\ pc \in Clearing \cup {"dequeue", "apply", "decide", "suspend", "send", "done", "finish"}
           /\ job[w].cts \in Seq(Procs)
           /\ pc \in Clearing =>
                /\ job[w].cts # << >> /\ job[w].then \in {"apply", "end"}
                /\ Tail(job[w].cts) \in Seq(Procs) /\ Head(job[w].cts) \in Procs
  <1>1. Works(w) /\ IsJob(job[w])
    BY DEF At, Works, NoJob, Shape
  <1>2. job[w].pc = pc
    BY DEF At
  <1>3. /\ job[w].p \in Procs /\ job[w].cts \in Seq(Procs)
        /\ pc \in Clearing \cup {"dequeue", "apply", "decide", "suspend", "send", "done", "finish"}
    BY <1>1, <1>2 DEF IsJob
  <1>4. pc \in Clearing => job[w].cts # << >> /\ job[w].then \in {"apply", "end"}
    BY <1>1, <1>2 DEF Jobs
  <1> QED BY <1>1, <1>2, <1>3, <1>4, HeadTailProperties

LEMMA Calls ==
    ASSUME Shape, Jobs, NEW w \in Workers, NEW pc \in Clearing, At(w, pc),
           Continue(w, After(job[w], Tail(job[w].cts), job[w].then))
    PROVE  JobsKeep /\ Called(w)
  <1>1. pc # "idle"
    BY DEF Clearing
  <1>2. /\ Works(w) /\ IsJob(job[w]) /\ job[w].then \in {"apply", "end"}
        /\ Tail(job[w].cts) \in Seq(Procs)
    BY <1>1, JobAt
  <1> DEFINE j == job[w]
             cts == Tail(j.cts)
  <1>3. Continue(w, After(j, cts, j.then))
    OBVIOUS
  <1>4. ASSUME cts # << >> PROVE JobsKeep /\ Called(w)
    <2>1. JobsKeep /\ Clear(w, j.p, cts, j.then) /\ job'[w].msg = j.msg
      BY <1>2, <1>3, <1>4, ToClear
    <2> QED BY <1>4, <2>1 DEF Called
  <1>5. ASSUME cts = << >>, j.then = "end" PROVE JobsKeep /\ Called(w)
    <2>1. JobsKeep /\ Ends(w)
      BY <1>2, <1>3, <1>5, ToEnd
    <2> QED BY <1>5, <2>1 DEF Called
  <1>6. ASSUME cts = << >>, j.then = "apply" PROVE JobsKeep /\ Called(w)
    <2>1. JobsKeep /\ Goes(w, j.p, "apply") /\ job'[w].msg = j.msg
      BY <1>2, <1>3, <1>6, ToGo
    <2> QED BY <1>6, <2>1 DEF Called
  <1> QED BY <1>2, <1>4, <1>5, <1>6

LEMMA FlatClearing ==
    ASSUME Shape, Jobs, NEW w \in Workers, CtsCheck(w) \/ CtsState(w) \/ CtsRelease(w)
    PROVE  JobsKeep /\ Runs(w)
  <1>1. ASSUME CtsCheck(w), final[Head(job[w].cts)] PROVE JobsKeep /\ Skips(w)
    <2>1. At(w, "check") /\ Works(w)
      BY <1>1, JobAt DEF CtsCheck
    <2>2. Continue(w, After(job[w], Tail(job[w].cts), job[w].then))
      BY <1>1 DEF CtsCheck
    <2>3. JobsKeep /\ Called(w)
      BY <2>1, <2>2, Calls DEF Clearing
    <2> QED BY <1>1, <2>1, <2>3 DEF CtsCheck, Skips, At
  <1>2. ASSUME CtsCheck(w), ~final[Head(job[w].cts)] PROVE JobsKeep /\ Looks(w)
    <2> DEFINE u == Head(job[w].cts)
               r == [job[w] EXCEPT !.pc = IF IsFunction(u) THEN "release" ELSE "state",
                                   !.low = FALSE]
    <2>1. At(w, "check") /\ Works(w) /\ IsJob(job[w])
      BY <1>1, <1>2, JobAt DEF CtsCheck
    <2>2. Continue(w, r)
      BY <1>2 DEF CtsCheck
    <2>3. /\ IsJob(r) /\ r.pc \in {"state", "release"}
          /\ r.p = job[w].p /\ r.cts = job[w].cts /\ r.then = job[w].then /\ r.msg = job[w].msg
      BY <2>1 DEF IsJob, Clearing
    <2> HIDE DEF r
    <2>4. JobsKeep /\ Others(w) /\ job'[w] = r /\ Works(w)'
      BY <2>2, <2>3, Continues
    <2> QED BY <1>2, <2>1, <2>3, <2>4 DEF CtsCheck, Looks, At
  <1>3. ASSUME CtsState(w) PROVE JobsKeep /\ Looks(w)
    <2> DEFINE u == Head(job[w].cts)
    <2>1. At(w, "state") /\ Works(w) /\ IsJob(job[w]) /\ u \in Procs
      BY <1>3, JobAt DEF CtsState, Clearing
    <2>2. PICK yields \in States(process[u]) :
              Continue(w, [job[w] EXCEPT !.pc = "release", !.low = yields])
      BY <1>3 DEF CtsState
    <2>3. yields \in BOOLEAN
      BY <2>1, <2>2 DEF Shape, IsProcess, States
    <2> DEFINE r == [job[w] EXCEPT !.pc = "release", !.low = yields]
    <2>4. /\ IsJob(r) /\ r.pc = "release"
          /\ r.p = job[w].p /\ r.cts = job[w].cts /\ r.then = job[w].then /\ r.msg = job[w].msg
      BY <2>1, <2>3 DEF IsJob, Clearing
    <2>6. Continue(w, r)
      BY <2>2
    <2> HIDE DEF r
    <2>5. JobsKeep /\ Others(w) /\ job'[w] = r /\ Works(w)'
      BY <2>4, <2>6, Continues
    <2> QED BY <1>3, <2>1, <2>4, <2>5 DEF CtsState, Looks, At
  <1>4. ASSUME CtsRelease(w) PROVE JobsKeep /\ Releases(w)
    <2>1. At(w, "release") /\ Works(w)
      BY <1>4, JobAt DEF CtsRelease
    <2>2. Continue(w, After(job[w], Tail(job[w].cts), job[w].then))
      BY <1>4 DEF CtsRelease
    <2>3. JobsKeep /\ Called(w)
      BY <2>1, <2>2, Calls DEF Clearing
    <2> QED BY <1>4, <2>1, <2>3 DEF CtsRelease, Releases, At
  <1> QED BY <1>1, <1>2, <1>3, <1>4 DEF Runs

LEMMA FlatSending ==
    ASSUME Shape, Jobs, NEW w \in Workers, LookExpired(w) \/ SuspendProcess(w) \/ SendDown(w)
    PROVE  JobsKeep /\ Runs(w)
  <1> DEFINE j == job[w]
             self == After(j, << j.p >>, "end")
  <1>1. Works(w) /\ IsJob(j) /\ j.p \in Procs
    BY JobAt DEF LookExpired, SuspendProcess, SendDown
  <1>2. ASSUME Continue(w, self) PROVE JobsKeep /\ ClearsSelf(w)
    <2>1. << j.p >> \in Seq(Procs) /\ << j.p >> # << >>
      BY <1>1
    <2>2. JobsKeep /\ Clear(w, j.p, << j.p >>, "end")
      BY <1>1, <1>2, <2>1, ToClear
    <2> QED BY <2>2 DEF ClearsSelf
  <1>3. ASSUME SuspendProcess(w) PROVE JobsKeep /\ Suspended(w)
    <2> DEFINE r == [j EXCEPT !.pc = "send"]
    <2>1. CASE j.n = 0 \/ down[j.p] = << >>
      <3>1. Continue(w, self)
        BY <1>3, <2>1 DEF SuspendProcess
      <3> QED BY <1>1, <1>2, <1>3, <2>1, <3>1 DEF SuspendProcess, Suspended, At
    <2>2. CASE ~(j.n = 0 \/ down[j.p] = << >>)
      <3>1. Continue(w, r)
        BY <1>3, <2>2 DEF SuspendProcess
      <3>2. IsJob(r) /\ r.p = j.p /\ r.pc = "send" /\ r.n = j.n /\ r.k = j.k /\ r.low = j.low
            /\ r.out = j.out
        BY <1>1 DEF IsJob, Clearing
      <3> HIDE DEF r
      <3>3. JobsKeep /\ Others(w) /\ job'[w] = r /\ Works(w)'
        BY <3>1, <3>2, Continues
      <3> QED BY <1>1, <1>3, <2>2, <3>2, <3>3 DEF SuspendProcess, Suspended, At, Goes
    <2> QED BY <2>1, <2>2
  <1>4. ASSUME SendDown(w) PROVE JobsKeep /\ Sends(w)
    <2> DEFINE r == [j EXCEPT !.k = @ + 1]
    <2>1. CASE j.k = j.n
      <3>1. Continue(w, self)
        BY <1>4, <2>1 DEF SendDown
      <3> QED BY <1>1, <1>2, <1>4, <2>1, <3>1 DEF SendDown, Sends, At
    <2>2. CASE j.k # j.n
      <3>1. Continue(w, r) /\ j.pc = "send"
        BY <1>4, <2>2 DEF SendDown, At
      <3>2. IsJob(r) /\ r.p = j.p /\ r.pc = "send" /\ r.n = j.n /\ r.k = j.k + 1 /\ r.low = j.low
            /\ r.out = j.out
        BY <1>1, <3>1 DEF IsJob, Clearing
      <3> HIDE DEF r
      <3>3. JobsKeep /\ Others(w) /\ job'[w] = r /\ Works(w)'
        BY <3>1, <3>2, Continues
      <3> QED BY <1>1, <1>4, <2>2, <3>2, <3>3 DEF SendDown, Sends, At, Goes
    <2> QED BY <2>1, <2>2
  <1>5. ASSUME LookExpired(w) PROVE JobsKeep /\ Rereads(w)
    <2> DEFINE d == down[j.p]
               full == \E k \in 1..j.n : Alive(d[k][1]) /\ free_buffer(d[k][1], d[k][2]) <= 1
    <2>1. /\ j.pc = "suspend" /\ \E k \in DOMAIN d : ~Alive(d[k][1])
          /\ UNCHANGED << graphVars, senders, down, flowVars, procVars, userVars, sent >>
      BY <1>5 DEF LookExpired, At
    <2>2. PICK low \in IF Graph[j.p].moveOnly THEN BOOLEAN ELSE {TRUE, full} :
              Continue(w, [j EXCEPT !.low = low, !.seen = {}])
      BY <1>5 DEF LookExpired
    <2> DEFINE r == [j EXCEPT !.low = low, !.seen = {}]
    <2>3. low \in BOOLEAN /\ (Graph[j.p].moveOnly \/ low \/ ~full)
      BY <2>2
    <2>4. IsJob(r) /\ r.p = j.p /\ r.pc = "suspend" /\ r.n = j.n /\ r.k = j.k /\ r.low = low
          /\ r.out = j.out
      BY <1>1, <2>1, <2>3 DEF IsJob
    <2>5. Continue(w, r)
      BY <2>2
    <2> HIDE DEF r
    <2>6. JobsKeep /\ Others(w) /\ job'[w] = r /\ Works(w)'
      BY <2>4, <2>5, Continues
    <2> QED BY <1>1, <2>1, <2>3, <2>4, <2>6 DEF Rereads, Goes
  <1> QED BY <1>3, <1>4, <1>5 DEF Runs

LEMMA FlatEnding ==
    ASSUME Shape, Jobs, NEW w \in Workers, TaskDone(w) \/ ClearDownstream(w)
    PROVE  JobsKeep /\ Runs(w)
  <1> DEFINE j == job[w]
  <1>1. Works(w) /\ IsJob(j) /\ j.p \in Procs
    BY JobAt DEF TaskDone, ClearDownstream
  <1>2. ASSUME TaskDone(w) PROVE JobsKeep /\ Rests(w)
    <2>1. CASE final[j.p]
      <3>1. Continue(w, After(j, << >>, "finish"))
        BY <1>2, <2>1 DEF TaskDone
      <3>2. JobsKeep /\ Goes(w, j.p, "finish")
        BY <1>1, <3>1, ToGo
      <3> QED BY <1>1, <1>2, <2>1, <3>2 DEF TaskDone, Rests, At
    <2>2. CASE ~final[j.p]
      <3>1. Continue(w, After(j, << >>, "end"))
        BY <1>2, <2>2 DEF TaskDone
      <3>2. JobsKeep /\ Ends(w)
        BY <1>1, <3>1, ToEnd
      <3> QED BY <1>1, <1>2, <2>2, <3>2 DEF TaskDone, Rests, At
    <2> QED BY <2>1, <2>2
  <1>3. ASSUME ClearDownstream(w) PROVE JobsKeep /\ Runs(w)
    <2>1. CASE down[j.p] = << >>
      <3>1. Continue(w, After(j, << >>, "end"))
        BY <1>3, <2>1 DEF ClearDownstream
      <3>2. JobsKeep /\ Ends(w)
        BY <1>1, <3>1, ToEnd
      <3>3. Finishes(w)
        BY <1>1, <1>3, <2>1, <3>2 DEF ClearDownstream, Finishes, At, flowVars, procVars
      <3> QED BY <3>2, <3>3 DEF Runs
    <2>2. CASE down[j.p] # << >>
      <3>1. Closes(w) /\ UNCHANGED job
        BY <1>1, <1>3, <2>2 DEF ClearDownstream, Closes, At, userVars
      <3> QED BY <3>1, Stays DEF Runs
    <2> QED BY <2>1, <2>2
  <1> QED BY <1>2, <1>3 DEF Runs

\* A process collects and yields; it is no less alive.
WithBatch(x, held, yields) == [x EXCEPT !.held = held, !.yields = yields]

LEMMA TwoFields ==
    ASSUME NEW x, NEW a, NEW b, NEW c, NEW held, NEW yields,
           x = [live |-> a, held |-> b, yields |-> c]
    PROVE  WithBatch(x, held, yields) = [live |-> a, held |-> held, yields |-> yields]
  <1>1. DOMAIN x = {"live", "held", "yields"} /\ x = [i \in DOMAIN x |-> x[i]] /\ x.live = a
    OBVIOUS
  <1>2. WithBatch(x, held, yields) = [i \in {"live", "held", "yields"} |->
                                   IF i = "live" THEN a ELSE IF i = "held" THEN held ELSE yields]
    BY <1>1 DEF WithBatch
  <1> QED BY <1>2

LEMMA Collecting ==
    ASSUME NEW x, IsProcess(x), NEW held, NEW yields \in BOOLEAN
    PROVE  /\ IsProcess(WithBatch(x, held, yields))
           /\ WithBatch(x, held, yields).live = x.live
           /\ WithBatch(x, held, yields).held = held
           /\ WithBatch(x, held, yields).yields = yields
  <1>1. PICK a, b, c : x = [live |-> a, held |-> b, yields |-> c] /\ a \in BOOLEAN
    BY DEF IsProcess
  <1>2. WithBatch(x, held, yields) = [live |-> a, held |-> held, yields |-> yields]
    BY <1>1, TwoFields
  <1>3. x.live = a
    BY <1>1
  <1> QED BY <1>1, <1>2, <1>3 DEF IsProcess

\* A process replaced by another that is one, and no less alive.
LEMMA KeepsProcess ==
    ASSUME Shape, NEW p \in Procs
    PROVE  /\ UNCHANGED process => Keeps(p)
           /\ process' = [process EXCEPT ![p] = Yielded(p)] => Keeps(p)
           /\ process' = [process EXCEPT ![p] = process_close(p)] => Keeps(p)
           /\ \A m : process' = [process EXCEPT ![p] = await(p, m)] => Keeps(p)
  <1>1. process = [q \in Procs |-> process[q]] /\ IsProcess(process[p])
    BY DEF Shape
  <1>2. UNCHANGED process => Keeps(p)
    BY <1>1 DEF Keeps
  <1>3. IsProcess(Yielded(p)) /\ Yielded(p).live = process[p].live
    <2> DEFINE rest == IF process[p].held = << >> THEN << >> ELSE Tail(process[p].held)
               yields == rest # << >>
    <2>1. Yielded(p) = WithBatch(process[p], rest, yields)
      BY DEF Yielded, WithBatch
    <2>2. yields \in BOOLEAN
      OBVIOUS
    <2> HIDE DEF rest, yields
    <2> QED BY <1>1, <2>1, <2>2, Collecting
  <1>4. IsProcess(process_close(p)) /\ process_close(p).live = process[p].live
    BY <1>1 DEF IsProcess, process_close
  <1>5. ASSUME NEW m PROVE IsProcess(await(p, m)) /\ await(p, m).live = process[p].live
    <2> DEFINE held == Append(process[p].held, Result(m))
               yields == Len(held) >= Graph[p].batch
    <2>1. await(p, m) = WithBatch(process[p], held, yields)
      BY DEF await, WithBatch
    <2>2. yields \in BOOLEAN
      OBVIOUS
    <2> HIDE DEF held, yields
    <2> QED BY <1>1, <2>1, <2>2, Collecting
  <1> QED BY <1>2, <1>3, <1>4, <1>5 DEF Keeps

LEMMA FlatThinking ==
    ASSUME Plain, Shape, Jobs, NEW w \in Workers, ApplyFunction(w) \/ ApplyProcess(w) \/ Decide(w)
    PROVE  JobsKeep /\ Thinks(w)
  <1> DEFINE j == job[w]
             p == j.p
             Rest == UNCHANGED << graphVars, senders, down, flowVars, procVars, timeouts,
                                  timeoutActive >>
  <1>1. Works(w) /\ IsJob(j) /\ p \in Procs
    BY JobAt DEF ApplyFunction, ApplyProcess, Decide
  <1>2. ASSUME ApplyFunction(w) PROVE JobsKeep /\ Thinks(w)
    <2>1. j.pc = "apply" /\ Rest /\ delayed' = delayed /\ Keeps(p)
      BY <1>1, <1>2, KeepsProcess DEF ApplyFunction, At, userVars
    <2>2. ASSUME Continue(w, After(j, << >>, "done")) PROVE JobsKeep /\ Goes(w, p, "done")
      BY <1>1, <2>2, ToGo
    <2>3. ASSUME Continue(w, After(j, << >>, "end")) PROVE JobsKeep /\ Ends(w)
      BY <1>1, <2>3, ToEnd
    <2>4. ASSUME NEW out, Continue(w, LookDownstream(j, out)) PROVE JobsKeep /\ Suspends(w, p)
      BY <1>1, <2>4, ToSuspend
    <2>5. \/ Continue(w, After(j, << >>, "done")) \/ Continue(w, After(j, << >>, "end"))
          \/ \E out : Continue(w, LookDownstream(j, out))
      <3> HIDE DEF Continue
      <3>1. CASE j.msg = << >>
        BY <1>2, <3>1 DEF ApplyFunction
      <3>2. CASE j.msg # << >> /\ find_argument_error(j.msg)
        BY <1>2, <3>2 DEF ApplyFunction
      <3>3. CASE j.msg # << >> /\ ~find_argument_error(j.msg)
        BY <1>2, <3>3 DEF ApplyFunction, broadcast
      <3> QED BY <3>1, <3>2, <3>3
    <2> QED BY <1>1, <2>1, <2>2, <2>3, <2>4, <2>5 DEF Thinks
  <1>3. ASSUME ApplyProcess(w) PROVE JobsKeep /\ Thinks(w)
    <2>1. j.pc = "apply" /\ Rest /\ delayed' = delayed /\ Graph[p].kind # "source"
      BY <1>1, <1>3 DEF ApplyProcess, At
    <2>2. CASE j.msg # << >> /\ ~find_argument_error(j.msg) /\ Throws(p, j.msg)
      <3>1. Continue(w, LookDownstream(j, Error)) /\ UNCHANGED process
        BY <1>3, <2>2 DEF ApplyProcess, broadcast
      <3>2. JobsKeep /\ Suspends(w, p) /\ Keeps(p)
        BY <1>1, <3>1, ToSuspend, KeepsProcess
      <3> QED BY <1>1, <2>1, <3>2 DEF Thinks
    <2>3. CASE ~(j.msg # << >> /\ ~find_argument_error(j.msg) /\ Throws(p, j.msg))
      <3> DEFINE q == IF j.msg = << >> THEN process_close(p)
                      ELSE IF ~find_argument_error(j.msg) THEN await(p, j.msg)
                      ELSE IF Graph[p].setsError THEN process[p]
                      ELSE process_close(p)
      <3>1. process' = [process EXCEPT ![p] = q]
        BY <1>3, <2>3 DEF ApplyProcess
      <3>5. PICK yields \in States(q) :
              Continue(w, After(j, << >>, IF j.msg = << >> \/ yields THEN "decide" ELSE "dequeue"))
        BY <1>3, <2>3 DEF ApplyProcess
      <3> DEFINE next == IF j.msg = << >> \/ yields THEN "decide" ELSE "dequeue"
      <3>2. Keeps(p)
        <4>1. process = [r \in Procs |-> process[r]]
          BY DEF Shape
        <4>2. process = [process EXCEPT ![p] = process[p]]
          BY <4>1
        <4>3. q = process_close(p) \/ q = await(p, j.msg) \/ q = process[p]
          OBVIOUS
        <4> HIDE DEF q
        <4> QED BY <1>1, <3>1, <4>2, <4>3, KeepsProcess
      <3>3. next = "decide" \/ (next = "dequeue" /\ j.msg # << >>)
        OBVIOUS
      <3> HIDE DEF next
      <3>4. JobsKeep /\ Goes(w, p, next)
        BY <1>1, <3>3, <3>5, ToGo DEF next
      <3> QED BY <1>1, <2>1, <3>2, <3>3, <3>4 DEF Thinks
    <2> QED BY <2>2, <2>3
  <1>4. ASSUME Decide(w) PROVE JobsKeep /\ Thinks(w)
    <2>1. j.pc = "decide"
      BY <1>4 DEF Decide, At
    <2>2. ASSUME YieldNow(w, p, j) PROVE JobsKeep /\ Thinks(w)
      <3>1. process' = [process EXCEPT ![p] = Yielded(p)] /\ Continue(w, LookDownstream(j, YieldResult(p)))
        BY <2>2 DEF YieldNow, broadcast
      <3>2. JobsKeep /\ Suspends(w, p) /\ Keeps(p)
        BY <1>1, <3>1, ToSuspend, KeepsProcess
      <3>3. Rest /\ delayed' = delayed
        BY <1>4, <2>2 DEF Decide, YieldNow
      <3> QED BY <1>1, <2>1, <3>2, <3>3 DEF Thinks
    <2>3. ASSUME delayed' = [delayed EXCEPT ![p] = @ + 1], Continue(w, After(j, << >>, "end")),
                 UNCHANGED << process, timeouts, timeoutActive >>
          PROVE  JobsKeep /\ Thinks(w)
      <3>1. JobsKeep /\ Ends(w) /\ Keeps(p)
        BY <1>1, <2>3, ToEnd, KeepsProcess
      <3>2. Rest
        BY <1>4, <2>3 DEF Decide
      <3> QED BY <1>1, <2>1, <2>3, <3>1, <3>2 DEF Thinks
    <2>4. ASSUME Continue(w, After(j, << >>, "done")), UNCHANGED userVars
          PROVE  JobsKeep /\ Thinks(w)
      <3>1. JobsKeep /\ Goes(w, p, "done") /\ Keeps(p)
        BY <1>1, <2>4, ToGo, KeepsProcess DEF userVars
      <3>2. Rest /\ delayed' = delayed
        BY <1>4, <2>4 DEF Decide, userVars
      <3> QED BY <1>1, <2>1, <3>1, <3>2 DEF Thinks
    <2>5. Graph[p].wait # "timed"
      BY <1>1 DEF Plain
    <2> QED BY <1>4, <2>2, <2>3, <2>4, <2>5 DEF Decide
  <1> QED BY <1>2, <1>3, <1>4

LEMMA FlatTaking ==
    ASSUME Plain, Shape, Bounded, NEW w \in Workers, NEW j, IsJob(j), Graph[j.p].kind # "source",
           pop_from_queue(w, j)
    PROVE  JobsKeep /\ Takes(w, j.p)
  <1> DEFINE p == j.p
             s == Graph[p].strategy
  <1>1. p \in Procs /\ IsQueue(p)
    BY DEF IsJob, Shape
  <1>2. CASE Empty(s, queue[p])
    <2> DEFINE i == [j EXCEPT !.msg = << >>]
    <2>1. /\ final' = [final EXCEPT ![p] = closeQueue[p]]
          /\ closeQueue' = [closeQueue EXCEPT ![p] = FALSE]
          /\ UNCHANGED queue
          /\ Continue(w, After(i, << >>, "apply"))
      BY <1>2 DEF pop_from_queue
    <2>2. IsJob(i) /\ i.p = p /\ i.msg = << >>
      BY JobFields
    <2> HIDE DEF i
    <2>3. JobsKeep /\ Goes(w, i.p, "apply") /\ job'[w].msg = i.msg
      BY <2>1, <2>2, ToGo
    <2> QED BY <1>2, <2>1, <2>2, <2>3 DEF Takes
  <1>3. CASE ~Empty(s, queue[p])
    <2> DEFINE i == [j EXCEPT !.msg = Front(s, queue[p])]
               cts == ClearedBy(p)
    <2>1. /\ queue' = [queue EXCEPT ![p] = PopFront(s, queue[p])]
          /\ UNCHANGED << final, closeQueue >>
          /\ Continue(w, After(i, cts, "apply"))
      BY <1>3 DEF pop_from_queue, ClearedBy
    <2>2. IsJob(i) /\ i.p = p /\ i.msg = Front(s, queue[p])
      BY JobFields
    <2>3. /\ cts \in Seq(Procs)
          /\ \A h, k \in DOMAIN cts : cts[h] = cts[k] => h = k
          /\ \A k \in DOMAIN cts : \E a \in DOMAIN Up(p) :
                /\ Up(p)[a] = cts[k] /\ queue[p].items[a] # << >>
                /\ PopFront(s, queue[p]).items[a] = << >>
      BY <1>1, <1>3, Popping DEF Shape, Bounded
    <2>4. queue'[p] = PopFront(s, queue[p])
      BY <1>1, <2>1 DEF Shape
    <2> HIDE DEF i, cts, s
    <2>5. CASE cts = << >>
      <3>1. JobsKeep /\ Goes(w, i.p, "apply") /\ job'[w].msg = i.msg
        BY <2>1, <2>2, <2>5, ToGo
      <3> QED BY <1>3, <2>1, <2>2, <3>1 DEF Takes, s
    <2>6. CASE cts # << >>
      <3>1. JobsKeep /\ Clear(w, i.p, cts, "apply") /\ job'[w].msg = i.msg
        BY <2>1, <2>2, <2>3, <2>6, ToClear
      <3> QED BY <1>3, <2>1, <2>2, <2>3, <2>4, <2>6, <3>1 DEF Takes, s
    <2> QED BY <2>5, <2>6
  <1> QED BY <1>2, <1>3

LEMMA FlatReading ==
    ASSUME Plain, Shape, Jobs, Bounded, Closing, NEW w \in Workers, Dequeue(w)
    PROVE  JobsKeep /\ Runs(w)
  <1>1. Works(w) /\ IsJob(job[w]) /\ job[w].pc = "dequeue"
    BY JobAt DEF Dequeue
  <1>2. Graph[job[w].p].kind # "source"
    BY <1>1 DEF Closing
  <1>3. JobsKeep /\ Takes(w, job[w].p)
    BY <1>1, <1>2, FlatTaking DEF Dequeue
  <1> QED BY <1>1, <1>3 DEF Dequeue, Reads, Runs

LEMMA FlatStarting ==
    ASSUME Plain, Shape, Bounded, NEW w \in Workers, NEW p \in Procs,
           StepFunction(w, p) \/ StepProcess(w, p) \/ StepSource(w, p)
    PROVE  JobsKeep /\ Runs(w)
  <1>1. /\ ~Works(w) /\ pending[p] > 0 /\ Alive(p)
        /\ pending' = [pending EXCEPT ![p] = @ - 1]
    BY DEF StepFunction, StepProcess, StepSource, Works
  <1>2. [timeoutActive EXCEPT ![p] = FALSE] = timeoutActive
    BY DEF Shape
  <1>3. ASSUME StepFunction(w, p) PROVE JobsKeep /\ Starts(w, p)
    <2> DEFINE j == NewJob(p, "apply", FALSE)
    <2>1. IsJob(j) /\ j.p = p
      BY NewJobFields
    <2>2. pop_from_queue(w, j)
      BY <1>3 DEF StepFunction
    <2>3. Graph[p].kind # "source"
      BY <1>3 DEF StepFunction, IsFunction
    <2> HIDE DEF j
    <2>4. JobsKeep /\ Takes(w, p)
      BY <2>1, <2>2, <2>3, FlatTaking
    <2> QED BY <1>1, <1>3, <2>4 DEF StepFunction, Starts
  <1>4. ASSUME StepProcess(w, p) PROVE JobsKeep /\ Starts(w, p)
    <2>4. PICK yields \in States(process[p]) :
              Continue(w, NewJob(p, IF yields THEN "decide" ELSE "dequeue", TRUE))
      BY <1>4 DEF StepProcess
    <2> DEFINE pc == IF yields THEN "decide" ELSE "dequeue"
    <2>1. Continue(w, NewJob(p, pc, TRUE)) /\ Graph[p].kind # "source"
      BY <1>4, <2>4 DEF StepProcess
    <2>2. pc = "decide" \/ pc = "dequeue"
      OBVIOUS
    <2> HIDE DEF pc
    <2>3. JobsKeep /\ Goes(w, p, pc)
      BY <2>1, <2>2, ToNew
    <2> QED BY <1>1, <1>2, <1>4, <2>1, <2>2, <2>3 DEF StepProcess, Starts, procVars, userVars
  <1>5. ASSUME StepSource(w, p) PROVE JobsKeep /\ Starts(w, p)
    <2>1. JobsKeep /\ (Goes(w, p, "decide") \/ UNCHANGED job)
      <3>1. CASE process[p].yields
        <4>1. Continue(w, NewJob(p, "decide", TRUE))
          BY <1>5, <3>1 DEF StepSource
        <4> QED BY <4>1, ToNew
      <3>2. CASE ~process[p].yields
        BY <1>5, <3>2, Stays DEF StepSource
      <3> QED BY <3>1, <3>2
    <2> QED BY <1>1, <1>2, <1>5, <2>1 DEF StepSource, Starts, procVars, userVars
  <1> QED BY <1>3, <1>4, <1>5 DEF Runs

LEMMA FlatDelayed ==
    ASSUME Shape, NEW w \in Workers, NEW p \in Procs, RunDelayed(w, p)
    PROVE  JobsKeep /\ Runs(w)
  <1>1. CASE process[p].live
    <2> DEFINE j == NewJob(p, "suspend", FALSE)
    <2>1. /\ process' = [process EXCEPT ![p] = Yielded(p)]
          /\ Continue(w, LookDownstream(j, YieldResult(p)))
      BY <1>1 DEF RunDelayed, broadcast
    <2>2. IsJob(j) /\ j.p = p
      BY NewJobFields
    <2> HIDE DEF j
    <2>3. JobsKeep /\ Suspends(w, p) /\ Keeps(p)
      BY <2>1, <2>2, ToSuspend, KeepsProcess
    <2> QED BY <2>3 DEF RunDelayed, Delays, Runs, Works
  <1>2. CASE ~process[p].live
    <2>1. JobsKeep
      BY <1>2, Stays DEF RunDelayed
    <2> QED BY <1>2, <2>1 DEF RunDelayed, Delays, Runs, Works
  <1> QED BY <1>1, <1>2

LEMMA Flattened ==
    ASSUME Plain, Shape, Jobs, Bounded, Closing, [Next]_vars
    PROVE  JobsKeep /\ Flat
  <1>1. ASSUME UserNext PROVE JobsKeep /\ Flat
    <2>1. UNCHANGED job
      BY <1>1 DEF UserNext, Attach, CopyReceiver, SetReady, DestroyReceiver, StartReady, Send,
                  CopySender, CloseSender, AssignSender, userVars
    <2> QED BY <1>1, <2>1, Stays DEF Flat
  <1>2. ASSUME NEW w \in Workers, JobNext(w) PROVE JobsKeep /\ Flat
    <2>1. ~EndTimeout(w)
      BY JobAt DEF EndTimeout, Clearing
    <2>2. JobsKeep /\ Runs(w)
      BY <1>2, <2>1, FlatClearing, FlatSending, FlatEnding, FlatThinking, FlatReading
         DEF JobNext, Runs
    <2> QED BY <2>2 DEF Flat
  <1>3. ASSUME NEW w \in Workers, NEW p \in Procs, StartNext(w, p) PROVE JobsKeep /\ Flat
    <2>1. ~RunTimeout(w, p)
      BY DEF RunTimeout, Shape
    <2>2. JobsKeep /\ Runs(w)
      BY <1>3, <2>1, FlatStarting, FlatDelayed DEF StartNext
    <2> QED BY <2>2 DEF Flat
  <1>4. ASSUME NEW p \in Procs, ExpiredClosure(p) PROVE JobsKeep /\ Flat
    <2>1. [timeouts EXCEPT ![p] = 0] = timeouts
      BY DEF Shape
    <2>2. Expires(p) /\ UNCHANGED job
      BY <1>4, <2>1 DEF ExpiredClosure, Expires
    <2> QED BY <2>2, Stays DEF Flat
  <1>5. ASSUME UNCHANGED vars PROVE JobsKeep /\ Flat
    BY <1>5, Stays DEF Flat, vars
  <1> QED BY <1>1, <1>2, <1>3, <1>4, <1>5 DEF Next

-----------------------------------------------------------------------------
(***************************************************************************)
(* What is gone stays gone.                                                *)
(***************************************************************************)

\* A job stays with its process, and a new one is for a process that is alive.
LEMMA JobStays ==
    ASSUME Shape, NEW w \in Workers, Runs(w)
    PROVE  /\ \A v \in Workers : v # w => job'[v] = job[v]
           /\ UNCHANGED << graphVars >>
           /\ Works(w)' =>
                \/ Works(w) /\ job'[w].p = job[w].p
                \/ ~Works(w) /\ job'[w].p \in Procs /\ Alive(job'[w].p)
  <1> USE DEF Others, Ends, Goes, Clear, Works
  <1>1. ASSUME Skips(w) \/ Looks(w) \/ Releases(w)
        PROVE  /\ \A v \in Workers : v # w => job'[v] = job[v]
               /\ UNCHANGED << graphVars >>
               /\ Works(w)' => Works(w) /\ job'[w].p = job[w].p
    BY <1>1 DEF Skips, Looks, Releases, Called
  <1>2. ASSUME Rereads(w) \/ Suspended(w) \/ Sends(w)
        PROVE  /\ \A v \in Workers : v # w => job'[v] = job[v]
               /\ UNCHANGED << graphVars >>
               /\ Works(w)' => Works(w) /\ job'[w].p = job[w].p
    BY <1>2 DEF Rereads, Suspended, Sends, ClearsSelf
  <1>3. ASSUME Rests(w) \/ Closes(w) \/ Finishes(w) \/ Thinks(w)
        PROVE  /\ \A v \in Workers : v # w => job'[v] = job[v]
               /\ UNCHANGED << graphVars >>
               /\ Works(w)' => Works(w) /\ job'[w].p = job[w].p
    BY <1>3 DEF Rests, Closes, Finishes, Thinks, Suspends
  <1>4. ASSUME NEW p, Takes(w, p)
        PROVE  (\A v \in Workers : v # w => job'[v] = job[v]) /\ job'[w].p = p
    BY <1>4 DEF Takes
  <1>5. ASSUME Reads(w)
        PROVE  /\ \A v \in Workers : v # w => job'[v] = job[v]
               /\ UNCHANGED << graphVars >>
               /\ Works(w)' => Works(w) /\ job'[w].p = job[w].p
    BY <1>4, <1>5 DEF Reads
  <1>6. ASSUME NEW p \in Procs, Starts(w, p)
        PROVE  /\ \A v \in Workers : v # w => job'[v] = job[v]
               /\ UNCHANGED << graphVars >>
               /\ Works(w)' => ~Works(w) /\ job'[w].p = p /\ Alive(p)
    BY <1>4, <1>6 DEF Starts
  <1>7. ASSUME NEW p \in Procs, Delays(w, p)
        PROVE  /\ \A v \in Workers : v # w => job'[v] = job[v]
               /\ UNCHANGED << graphVars >>
               /\ Works(w)' => ~Works(w) /\ job'[w].p = p /\ Alive(p)
    BY <1>7 DEF Delays, Suspends
  <1> QED BY <1>1, <1>2, <1>3, <1>5, <1>6, <1>7 DEF Runs

LEMMA HoldersFew ==
    ASSUME graph \in DOMAIN Graphs, graph' = graph, made \subseteq Procs, made' \subseteq Procs,
           \A q \in made' : Held(q)' =>
                \/ q \in made /\ Held(q)
                \/ Alive(q)
                \/ /\ q \notin made
                   /\ \A i \in DOMAIN Up(q) : Alive(Up(q)[i]) /\ Up(q)[i] \in Procs
    PROVE  \A p \in made : Alive(p)' => Alive(p)
  <1> SUFFICES ASSUME NEW p \in made, Alive(p)' PROVE Alive(p)
    OBVIOUS
  <1>1. PICK q \in Downstream[graph][p] : q \in made' /\ Held(q)'
    BY DEF Alive
  <1>2. p \in Procs /\ q \in Procs
    BY <1>1
  <1>3. ASSUME NEW r \in Downstream[graph][p], Alive(r) PROVE Alive(p)
    <2>1. PICK s \in Downstream[graph][r] : s \in made /\ Held(s)
      BY <1>3 DEF Alive
    <2>2. s \in Downstream[graph][p]
      BY <1>2, <2>1, Below
    <2> QED BY <2>1, <2>2 DEF Alive
  <1>4. CASE q \in made /\ Held(q)
    BY <1>1, <1>4 DEF Alive
  <1>5. CASE Alive(q)
    BY <1>1, <1>3, <1>5
  <1>6. CASE q \notin made /\ \A i \in DOMAIN Up(q) : Alive(Up(q)[i]) /\ Up(q)[i] \in Procs
    <2>1. PICK i \in DOMAIN Up(q) : Up(q)[i] \in Downstream[graph][p]
      BY <1>1, <1>2, <1>6, Below
    <2> QED BY <1>3, <1>6, <2>1
  <1> QED BY <1>1, <1>4, <1>5, <1>6

\* A process that has been made and is gone stays gone.
LEMMA StaysGone ==
    ASSUME Plain, CInv, [Next]_vars
    PROVE  \A p \in made : Alive(p)' => Alive(p)
  <1> DEFINE Few == \A q \in made' : Held(q)' =>
                        \/ q \in made /\ Held(q)
                        \/ Alive(q)
                        \/ /\ q \notin made
                           /\ \A i \in DOMAIN Up(q) : Alive(Up(q)[i]) /\ Up(q)[i] \in Procs
  <1>1. /\ graph \in DOMAIN Graphs /\ made \subseteq Procs
        /\ open \in [Procs -> Nat] /\ ready \in [Procs -> Nat] /\ checking \in [Procs -> Nat]
        /\ Flat
    BY Flattened DEF CInv, Shape
  <1>2. ASSUME NEW p \in Procs, Attach(p) PROVE Few /\ made' \subseteq Procs /\ graph' = graph
    <2>1. \A u \in made : open[u] > 0 \/ ready[u] > 0 => Alive(u)
      <3> SUFFICES ASSUME NEW u \in made, open[u] > 0 \/ ready[u] > 0 PROVE Alive(u)
        OBVIOUS
      <3>1. open[u] \in Nat /\ ready[u] \in Nat /\ checking[u] \in Nat
        BY <1>1
      <3>2. Held(u)
        BY <3>1 DEF Held
      <3>3. u \in Downstream[graph][u]
        BY <1>1, Below
      <3> QED BY <3>2, <3>3 DEF Alive
    <2>2. \A i \in DOMAIN Up(p) : Alive(Up(p)[i]) /\ Up(p)[i] \in Procs
      BY <1>1, <1>2, <2>1 DEF Attach
    <2>3. p \notin made /\ made' = made \cup {p} /\ graph' = graph /\ open' = [open EXCEPT ![p] = 1]
          /\ UNCHANGED << ready, checking, job >>
      BY <1>2 DEF Attach
    <2>4. \A q \in made : Held(q)' => Held(q)
      BY <1>1, <2>3 DEF Held
    <2> QED BY <1>1, <2>2, <2>3, <2>4
  <1>3. ASSUME NEW p \in Procs,
               \/ CopyReceiver(p) \/ SetReady(p) \/ DestroyReceiver(p) \/ StartReady(p)
               \/ Send(p) \/ CopySender(p) \/ CloseSender(p) \/ AssignSender(p)
        PROVE  Few /\ made' \subseteq Procs /\ graph' = graph
    <2>1. made' = made /\ graph' = graph /\ job' = job
      BY <1>3 DEF CopyReceiver, SetReady, DestroyReceiver, StartReady, Send, CopySender,
                  CloseSender, AssignSender, graphVars
    <2>2. \A q \in Procs :
            open'[q] + ready'[q] + checking'[q] > 0 => open[q] + ready[q] + checking[q] > 0
      <3>1. CASE CopyReceiver(p)
        BY <1>1, <3>1 DEF CopyReceiver
      <3>2. CASE SetReady(p)
        BY <1>1, <3>2 DEF SetReady, remove_receiver
      <3>3. CASE DestroyReceiver(p)
        BY <1>1, <3>3 DEF DestroyReceiver, remove_receiver
      <3>4. CASE StartReady(p)
        BY <1>1, <3>4 DEF StartReady
      <3>5. CASE Send(p) \/ CopySender(p) \/ CloseSender(p) \/ AssignSender(p)
        BY <3>5 DEF Send, CopySender, CloseSender, AssignSender, graphVars
      <3> QED BY <1>3, <3>1, <3>2, <3>3, <3>4, <3>5
    <2>3. \A q \in Procs : Held(q)' => Held(q)
      BY <2>1, <2>2 DEF Held
    <2> QED BY <1>1, <2>1, <2>3
  <1>4. ASSUME NEW w \in Workers, Runs(w) PROVE Few /\ made' \subseteq Procs /\ graph' = graph
    <2>1. /\ \A v \in Workers : v # w => job'[v] = job[v]
          /\ UNCHANGED << graph, made, open, ready, checking >>
          /\ Works(w)' =>
                \/ Works(w) /\ job'[w].p = job[w].p
                \/ ~Works(w) /\ job'[w].p \in Procs /\ Alive(job'[w].p)
      BY <1>4, JobStays DEF CInv, graphVars
    <2>2. ASSUME NEW q \in Procs, Held(q)' PROVE Held(q) \/ Alive(q)
      <3>1. CASE open'[q] + ready'[q] + checking'[q] > 0
        BY <2>1, <3>1 DEF Held
      <3>2. ASSUME NEW v \in Workers, job'[v] # NoJob, job'[v].p = q PROVE Held(q) \/ Alive(q)
        BY <2>1, <3>2 DEF Held, Works
      <3> QED BY <2>2, <3>1, <3>2 DEF Held
    <2> QED BY <1>1, <2>1, <2>2
  <1>5. ASSUME (\E p \in Procs : Expires(p)) \/ UNCHANGED vars
        PROVE  Few /\ made' \subseteq Procs /\ graph' = graph
    <2>1. UNCHANGED << graph, made, open, ready, checking, job >>
      BY <1>5 DEF Expires, vars, graphVars
    <2>2. \A q \in Procs : Held(q)' => Held(q)
      BY <2>1 DEF Held
    <2> QED BY <1>1, <2>1, <2>2
  <1>6. Few /\ made' \subseteq Procs /\ graph' = graph
    BY <1>1, <1>2, <1>3, <1>4, <1>5 DEF Flat, UserNext
  <1> HIDE DEF CInv
  <1> QED BY <1>1, <1>6, HoldersFew
-----------------------------------------------------------------------------
(***************************************************************************)
(* What a process waits for.                                               *)
(***************************************************************************)
LEMMA WaitingFinite ==
    ASSUME graph \in DOMAIN Graphs
    PROVE  \A u : Waiting(u) \subseteq Procs /\ IsFiniteSet(Waiting(u)) /\ Cardinality(Waiting(u)) \in Nat
  <1> SUFFICES ASSUME NEW u
               PROVE  Waiting(u) \subseteq Procs /\ IsFiniteSet(Waiting(u))
                      /\ Cardinality(Waiting(u)) \in Nat
    OBVIOUS
  <1>1. Waiting(u) \subseteq Procs
    BY DEF Waiting
  <1>2. IsFiniteSet(Procs)
    BY Nodes
  <1> HIDE DEF Waiting
  <1>3. IsFiniteSet(Waiting(u))
    BY <1>1, <1>2, FS_Subset
  <1> QED BY <1>1, <1>3, FS_CardinalityType

\* Taking a message leaves what was not taken, and empties what was.
LEMMA Popped ==
    ASSUME Shape, NEW p \in Procs, ~Empty(Graph[p].strategy, queue[p]),
           queue' = [queue EXCEPT ![p] = PopFront(Graph[p].strategy, queue[p])]
    PROVE  \A r \in Procs : \A i \in DOMAIN Up(r) :
              /\ queue'[r].items[i] # << >> => queue[r].items[i] # << >>
              /\ Len(queue[r].items[i]) <= 1 => Len(queue'[r].items[i]) <= 1
  <1> SUFFICES ASSUME NEW r \in Procs, NEW i \in DOMAIN Up(r)
               PROVE  /\ queue'[r].items[i] # << >> => queue[r].items[i] # << >>
                      /\ Len(queue[r].items[i]) <= 1 => Len(queue'[r].items[i]) <= 1
    OBVIOUS
  <1> DEFINE items == queue[p].items
             popped == PopFront(Graph[p].strategy, queue[p]).items
  <1>1. CASE r # p
    BY <1>1 DEF Shape
  <1>2. CASE r = p
    <2>1. /\ popped = [a \in 1..Arity(p) |-> IF a \in Taken(p) THEN Tail(items[a]) ELSE items[a]]
          /\ \A a \in Taken(p) : items[a] # << >>
      BY Taking DEF Shape
    <2>2. queue'[p].items = popped
      BY DEF Shape
    <2>3. i \in 1..Arity(p) /\ IsSeq(items[i])
      BY <1>2, Nodes DEF Shape, IsQueue
    <2>4. queue[r].items[i] = items[i] /\ queue'[r].items[i] = popped[i]
      BY <1>2, <2>2
    <2> HIDE DEF items, popped
    <2>5. CASE i \in Taken(p)
      <3>1. popped[i] = Tail(items[i]) /\ items[i] # << >>
        BY <2>1, <2>3, <2>5
      <3> DEFINE t == items[i]
      <3>2. IsSeq(t) /\ t # << >>
        BY <2>3, <3>1
      <3> HIDE DEF t
      <3>3. Len(Tail(t)) = Len(t) - 1 /\ Len(t) \in Nat
        BY <3>2, SeqOps
      <3>4. Len(t) <= 1 => Len(Tail(t)) <= 1
        BY <3>3
      <3> QED BY <2>4, <3>1, <3>4 DEF t
    <2>6. CASE i \notin Taken(p)
      BY <2>1, <2>3, <2>4, <2>6
    <2> QED BY <2>5, <2>6
  <1> QED BY <1>1, <1>2

\* The job comes to clear only what it has taken.
LEMMA Clearances ==
    ASSUME Shape, Jobs, NEW w \in Workers, Runs(w), NEW p \in Procs, NEW i \in DOMAIN Up(p),
           Clears(w, p, i)'
    PROVE  \/ Clears(w, p, i)
           \/ queue[p].items[i] # << >> /\ queue'[p].items[i] = << >>
  <1> USE DEF Ends, Goes, Clear, Clears, Clearing, Works
  <1>1. graph' = graph
    BY JobStays DEF graphVars
  <1>2. /\ Works(w)' /\ job'[w].p = p /\ job'[w].pc \in Clearing /\ job'[w].then = "apply"
        /\ \E k \in DOMAIN job'[w].cts : job'[w].cts[k] = Up(p)[i]
    BY <1>1 DEF Up, Graph
  <1>3. CASE Skips(w) \/ Releases(w)
    <2>1. Works(w) /\ job[w].pc \in Clearing /\ Called(w)
      BY <1>3 DEF Skips, Releases
    <2>2. job[w].cts # << >> /\ job[w].cts \in Seq(Procs)
      BY <2>1 DEF Jobs, Shape, IsJob
    <2>3. ~Ends(w) /\ ~Goes(w, job[w].p, "apply")
      BY <1>2
    <2>4. /\ job'[w].cts = Tail(job[w].cts) /\ job'[w].then = job[w].then
          /\ job'[w].p = job[w].p
      BY <2>1, <2>3 DEF Called
    <2>5. \A k \in DOMAIN Tail(job[w].cts) :
             k + 1 \in DOMAIN job[w].cts /\ Tail(job[w].cts)[k] = job[w].cts[k + 1]
      BY <2>2
    <2> QED BY <1>2, <2>1, <2>4, <2>5
  <1>4. CASE Looks(w)
    BY <1>2, <1>4 DEF Looks
  <1>5. CASE Rereads(w) \/ Suspended(w) \/ Sends(w)
    BY <1>2, <1>5 DEF Rereads, Suspended, Sends, ClearsSelf
  <1>6. CASE Rests(w)
    BY <1>2, <1>6 DEF Rests
  <1>7. CASE Finishes(w)
    BY <1>2, <1>7 DEF Finishes
  <1>8. CASE Thinks(w)
    BY <1>2, <1>8 DEF Thinks, Suspends
  <1>9. CASE Closes(w)
    BY <1>2, <1>9 DEF Closes
  <1>10. ASSUME NEW r \in Procs, Takes(w, r)
        PROVE  queue[p].items[i] # << >> /\ queue'[p].items[i] = << >>
    <2>1. PICK cts \in Seq(Procs) :
            /\ job'[w].p = r /\ job'[w].cts = cts
            /\ \A k \in DOMAIN cts : \E a \in DOMAIN Up(r) :
                  /\ Up(r)[a] = cts[k]
                  /\ queue[r].items[a] # << >> /\ queue'[r].items[a] = << >>
      BY <1>2, <1>10 DEF Takes
    <2>2. PICK a \in DOMAIN Up(p) : /\ Up(p)[a] = Up(p)[i]
                                    /\ queue[p].items[a] # << >> /\ queue'[p].items[a] = << >>
      BY <1>2, <2>1
    <2>3. a = i
      BY <2>2, Nodes DEF Shape
    <2> QED BY <2>2, <2>3
  <1>11. CASE Reads(w)
    <2>1. Takes(w, job[w].p) /\ job[w].p \in Procs
      BY <1>11 DEF Reads, Shape, IsJob
    <2> QED BY <1>10, <2>1
  <1>12. ASSUME NEW r \in Procs, Starts(w, r) \/ Delays(w, r)
         PROVE  queue[p].items[i] # << >> /\ queue'[p].items[i] = << >>
    <2>1. CASE Takes(w, r)
      BY <1>10, <2>1
    <2>2. CASE ~Takes(w, r)
      BY <1>2, <1>12, <2>2 DEF Starts, Delays, Suspends
    <2> QED BY <2>1, <2>2
  <1> QED BY <1>3, <1>4, <1>5, <1>6, <1>7, <1>8, <1>9, <1>11, <1>12 DEF Runs

LEMMA Frame ==
    ASSUME graph' = graph
    PROVE  /\ Procs' = Procs /\ Graph' = Graph /\ Heads' = Heads
           /\ \A p : Up(p)' = Up(p) /\ Arity(p)' = Arity(p)
  BY DEF Procs, Graph, Heads, Up, Arity

LEMMA GraphStays ==
    ASSUME Plain, CInv, [Next]_vars
    PROVE  graph' = graph /\ JobsKeep /\ Flat
  <1>1. JobsKeep /\ Flat
    BY Flattened DEF CInv
  <1>2. ASSUME UserNext PROVE graph' = graph
    BY <1>2 DEF UserNext, Attach, CopyReceiver, SetReady, DestroyReceiver, StartReady, Send,
                CopySender, CloseSender, AssignSender, graphVars
  <1>3. ASSUME NEW w \in Workers, Runs(w) PROVE graph' = graph
    BY <1>3, JobStays DEF CInv, graphVars
  <1>4. ASSUME NEW p \in Procs, Expires(p) PROVE graph' = graph
    BY <1>4 DEF Expires, graphVars
  <1>5. UNCHANGED vars => graph' = graph
    BY DEF vars, graphVars
  <1> QED BY <1>1, <1>2, <1>3, <1>4, <1>5 DEF Flat

\* What is queued for the arguments that have an upstream, unless a job sends.
LEMMA QueuesShrink ==
    ASSUME Shape, Built, Flat, \A w \in Workers : ~Sends(w)
    PROVE  \A r \in Procs : \A i \in DOMAIN Up(r) :
              /\ queue'[r].items[i] # << >> => queue[r].items[i] # << >>
              /\ Len(queue[r].items[i]) <= 1 => Len(queue'[r].items[i]) <= 1
  <1> DEFINE Less == \A r \in Procs : \A i \in DOMAIN Up(r) :
                        /\ queue'[r].items[i] # << >> => queue[r].items[i] # << >>
                        /\ Len(queue[r].items[i]) <= 1 => Len(queue'[r].items[i]) <= 1
  <1>1. UNCHANGED queue => Less
    OBVIOUS
  <1>2. ASSUME NEW p \in Procs, Send(p) PROVE Less
    <2>1. queue' = queue \/ queue' = [queue EXCEPT ![p] = queue'[p]]
      BY <1>2 DEF Send, send, enqueue, flowVars, Shape
    <2>2. Up(p) = << >>
      BY <1>2 DEF Send, Built
    <2> HIDE DEF Less
    <2>3. CASE queue' # queue
      <3> USE DEF Less
      <3>1. \A r \in Procs : r # p => queue'[r] = queue[r]
        BY <2>1, <2>3 DEF Shape
      <3>2. \A i \in DOMAIN Up(p) : FALSE
        BY <2>2
      <3> QED BY <3>1, <3>2
    <2> QED BY <1>1, <2>3
  <1>3. ASSUME UserNext PROVE Less
    <2>1. ASSUME NEW p \in Procs,
                 \/ Attach(p) \/ CopyReceiver(p) \/ SetReady(p) \/ DestroyReceiver(p) \/ StartReady(p)
                 \/ CopySender(p) \/ CloseSender(p) \/ AssignSender(p)
          PROVE  UNCHANGED queue
      BY <2>1 DEF Attach, CopyReceiver, SetReady, DestroyReceiver, StartReady, CopySender,
                  CloseSender, AssignSender, flowVars
    <2> HIDE DEF Less
    <2> QED BY <1>1, <1>2, <1>3, <2>1 DEF UserNext
  <1>4. ASSUME NEW w \in Workers, NEW p \in Procs, Takes(w, p) PROVE Less
    <2>1. \/ UNCHANGED queue
          \/ /\ ~Empty(Graph[p].strategy, queue[p])
             /\ queue' = [queue EXCEPT ![p] = PopFront(Graph[p].strategy, queue[p])]
      BY <1>4 DEF Takes
    <2> QED BY <1>1, <2>1, Popped
  <1>5. ASSUME NEW w \in Workers, Runs(w) PROVE Less
    <2>1. CASE Reads(w)
      <3>1. Takes(w, job[w].p) /\ job[w].p \in Procs
        BY <2>1 DEF Reads, Shape, IsJob
      <3> QED BY <1>4, <3>1
    <2>2. ASSUME NEW p \in Procs, Starts(w, p) PROVE Less
      <3>1. Takes(w, p) \/ UNCHANGED queue
        BY <2>2 DEF Starts
      <3> HIDE DEF Less
      <3> QED BY <1>1, <1>4, <3>1
    <2>3. ASSUME NEW p \in Procs, Delays(w, p) PROVE UNCHANGED queue
      BY <2>3 DEF Delays, flowVars
    <2>4. CASE \/ Skips(w) \/ Looks(w) \/ Rereads(w) \/ Releases(w) \/ Suspended(w) \/ Rests(w)
               \/ Closes(w) \/ Finishes(w) \/ Thinks(w)
      <3>1. UNCHANGED queue
        BY <2>4 DEF Skips, Looks, Rereads, Releases, Suspended, Rests, Closes, Finishes, Thinks, flowVars
      <3> QED BY <1>1, <3>1
    <2> HIDE DEF Less
    <2> QED BY <1>1, <1>5, <2>1, <2>2, <2>3, <2>4 DEF Runs
  <1>6. ASSUME (\E p \in Procs : Expires(p)) \/ UNCHANGED vars PROVE UNCHANGED queue
    BY <1>6 DEF Expires, vars, flowVars
  <1> HIDE DEF Less
  <1>7. Less
    BY <1>1, <1>3, <1>5, <1>6 DEF Flat
  <1> QED BY <1>7 DEF Less

\* The argument of the value that w sends: it has a value, or its process is gone.
LEMMA Sending ==
    ASSUME Shape, Built, Jobs, NEW w \in Workers, Sends(w)
    PROVE  LET p == job[w].p
               d == down[p][job[w].k]
           IN  /\ Works(w) /\ p \in made /\ job[w].k \in DOMAIN down[p] /\ job[w].pc = "send"
               /\ d[1] \in made /\ d[2] \in DOMAIN Up(d[1]) /\ Up(d[1])[d[2]] = p
               /\ queue[d[1]].items[d[2]] = << >>
               /\ IF Alive(d[1])
                  THEN /\ queue' = [queue EXCEPT ![d[1]].items[d[2]] = Append(<< >>, job[w].out)]
                       /\ Schedule(d[1], receivers[d[1]] = 0 /\ ~running[d[1]])
                  ELSE UNCHANGED << queue, running, pending >>
  <1> DEFINE j == job[w]
             p == j.p
             d == down[p][j.k]
  <1>1. Works(w) /\ j.pc = "send" /\ send(d[1], d[2], j.out)
    BY DEF Sends
  <1>2. /\ p \in made /\ p \in Procs /\ j.k \in Nat /\ j.n \in Nat
        /\ down[p] \in Seq(Procs \X Nat)
    BY <1>1 DEF Built, Shape, IsJob
  <1>3. /\ j.k \in 1..(j.n + 1) /\ j.k <= j.n /\ j.n <= Len(down[p])
        /\ \A k \in j.k..Len(down[p]) : down[p][k][1] \notin Waiting(p)
    BY <1>1 DEF Jobs
  <1>4. j.k \in DOMAIN down[p] /\ j.k \in j.k..Len(down[p])
    BY <1>2, <1>3
  <1>5. /\ d[1] \in made /\ d[2] \in DOMAIN Up(d[1]) /\ Up(d[1])[d[2]] = p
        /\ d[1] \in Procs /\ d[1] \notin Waiting(p)
    BY <1>2, <1>3, <1>4 DEF Built, Shape
  <1>6. queue[d[1]].items[d[2]] = << >>
    BY <1>5 DEF Waiting, Owes
  <1> HIDE DEF d
  <1>7. CASE Alive(d[1])
    <2>1. /\ queue' = [queue EXCEPT ![d[1]] = AppendTo(@, d[2], j.out)]
          /\ Schedule(d[1], receivers[d[1]] = 0 /\ (~running[d[1]] \/ timeoutActive[d[1]]))
      BY <1>1, <1>7 DEF send, enqueue
    <2>2. ~timeoutActive[d[1]]
      BY <1>5 DEF Shape
    <2>3. queue' = [queue EXCEPT ![d[1]].items[d[2]] = Append(<< >>, j.out)]
      BY <1>5, <1>6, <2>1 DEF AppendTo, Shape
    <2>4. Schedule(d[1], receivers[d[1]] = 0 /\ ~running[d[1]])
      BY <2>1, <2>2
    <2> QED BY <1>1, <1>2, <1>4, <1>5, <1>6, <1>7, <2>3, <2>4 DEF d
  <1>8. CASE ~Alive(d[1])
    <2>1. UNCHANGED << queue, running, pending >>
      BY <1>1, <1>8 DEF send, flowVars
    <2> QED BY <1>1, <1>2, <1>4, <1>5, <1>6, <1>8, <2>1 DEF d
  <1> QED BY <1>7, <1>8

\* Who waits for a message to be taken, or to be told so, already did; only a send adds one.
LEMMA ClearsOwed ==
    ASSUME Plain, CInv, [Next]_vars, NEW p \in Procs, NEW i \in DOMAIN Up(p), NEW w \in Workers,
           Clears(w, p, i)'
    PROVE  Owes(p, i)
  <1>1. graph' = graph /\ Flat /\ Shape /\ Jobs
    BY GraphStays DEF CInv
  <1>2. ASSUME job'[w] = job[w] PROVE Clears(w, p, i)
    BY <1>1, <1>2, Frame DEF Clears, Works
  <1>3. ASSUME UNCHANGED job PROVE Owes(p, i)
    BY <1>2, <1>3 DEF Owes
  <1>4. ASSUME NEW v \in Workers, Runs(v) PROVE Owes(p, i)
    <2>1. CASE v = w
      BY <1>1, <1>4, <2>1, Clearances DEF Owes
    <2>2. CASE v # w
      BY <1>1, <1>2, <1>4, <2>2, JobStays DEF Owes
    <2> QED BY <2>1, <2>2
  <1>5. ASSUME UserNext \/ (\E r \in Procs : Expires(r)) \/ UNCHANGED vars PROVE UNCHANGED job
    BY <1>5 DEF UserNext, Attach, CopyReceiver, SetReady, DestroyReceiver, StartReady, Send,
                CopySender, CloseSender, AssignSender, Expires, vars
  <1> QED BY <1>1, <1>3, <1>4, <1>5 DEF Flat

LEMMA WaitingKept ==
    ASSUME Plain, CInv, [Next]_vars, \A w \in Workers : ~Sends(w)
    PROVE  \A u \in Procs : Waiting(u)' \subseteq Waiting(u)
  <1>1. graph' = graph /\ Flat /\ Shape /\ Built
    BY GraphStays DEF CInv
  <1>2. ASSUME NEW p \in Procs, NEW i \in DOMAIN Up(p), Owes(p, i)' PROVE Owes(p, i)
    <2>1. CASE queue'[p].items[i] # << >>
      BY <1>1, <2>1, QueuesShrink DEF Owes
    <2>2. ASSUME NEW w \in Workers, Clears(w, p, i)' PROVE Owes(p, i)
      BY <2>2, ClearsOwed
    <2> QED BY <1>2, <2>1, <2>2 DEF Owes
  <1> QED BY <1>1, <1>2, Frame DEF Waiting

\* A queue is written to, and the others left.
LEMMA Appended ==
    ASSUME Shape, NEW r, NEW a, NEW x, queue' = [queue EXCEPT ![r].items[a] = x],
           NEW q \in Procs, NEW i \in DOMAIN Up(q)
    PROVE  queue'[q].items[i] = IF q = r /\ i = a THEN x ELSE queue[q].items[i]
  <1>1. queue = [p \in Procs |-> queue[p]] /\ IsQueue(q) /\ i \in 1..Arity(q)
    BY Nodes DEF Shape
  <1>2. CASE q # r
    BY <1>1, <1>2
  <1>3. CASE q = r
    <2>1. queue'[q].items = [queue[q].items EXCEPT ![a] = x]
      BY <1>1, <1>3 DEF IsQueue
    <2> QED BY <1>1, <1>3, <2>1 DEF IsQueue
  <1> QED BY <1>2, <1>3

LEMMA WaitingSent ==
    ASSUME Plain, CInv, [Next]_vars, NEW w \in Workers, Sends(w)
    PROVE  LET p == job[w].p
               d == down[p][job[w].k]
           IN  \A u \in Procs :
                 Waiting(u)' \subseteq Waiting(u) \cup (IF u = p /\ Alive(d[1]) THEN {d[1]} ELSE {})
  <1> DEFINE p == job[w].p
             d == down[p][job[w].k]
  <1>1. graph' = graph /\ Shape /\ Built /\ Jobs
    BY GraphStays DEF CInv
  <1>2. /\ d[1] \in made /\ d[2] \in DOMAIN Up(d[1]) /\ Up(d[1])[d[2]] = p
        /\ IF Alive(d[1])
           THEN queue' = [queue EXCEPT ![d[1]].items[d[2]] = Append(<< >>, job[w].out)]
           ELSE UNCHANGED queue
    BY <1>1, Sending
  <1> HIDE DEF d
  <1>3. ASSUME NEW q \in Procs, NEW i \in DOMAIN Up(q), queue'[q].items[i] # << >>
        PROVE  queue[q].items[i] # << >> \/ (Alive(d[1]) /\ q = d[1] /\ i = d[2])
    <2>1. CASE ~Alive(d[1])
      BY <1>2, <1>3, <2>1
    <2>2. CASE Alive(d[1])
      <3>1. queue' = [queue EXCEPT ![d[1]].items[d[2]] = Append(<< >>, job[w].out)]
        BY <1>2, <2>2
      <3>2. q # d[1] \/ i # d[2] => queue'[q].items[i] = queue[q].items[i]
        BY <1>1, <3>1, Appended
      <3> QED BY <1>3, <2>2, <3>2
    <2> QED BY <2>1, <2>2
  <1>4. ASSUME NEW q \in Procs, NEW i \in DOMAIN Up(q), Owes(q, i)'
        PROVE  Owes(q, i) \/ (Alive(d[1]) /\ q = d[1] /\ i = d[2])
    <2>1. CASE queue'[q].items[i] # << >>
      BY <1>3, <2>1 DEF Owes
    <2>2. ASSUME NEW v \in Workers, Clears(v, q, i)' PROVE Owes(q, i)
      BY <2>2, ClearsOwed
    <2> QED BY <1>4, <2>1, <2>2 DEF Owes
  <1>5. ASSUME NEW u \in Procs, NEW q \in Waiting(u)'
        PROVE  q \in Waiting(u) \/ (u = p /\ Alive(d[1]) /\ q = d[1])
    <2>1. q \in Procs /\ \E i \in DOMAIN Up(q) : Up(q)[i] = u /\ Owes(q, i)'
      BY <1>1, <1>5, Frame DEF Waiting
    <2> QED BY <1>2, <1>4, <2>1 DEF Waiting
  <1> HIDE DEF p
  <1>6. \A u \in Procs : Waiting(u)' \subseteq Waiting(u) \cup (IF u = p /\ Alive(d[1]) THEN {d[1]} ELSE {})
    BY <1>5
  <1> QED BY <1>6 DEF p, d

\* A process that is told a message was taken waits for that no more.
LEMMA WaitingCalled ==
    ASSUME Plain, CInv, [Next]_vars, NEW w \in Workers, Skips(w) \/ Releases(w),
           job[w].then = "apply", NEW p, p = job[w].p, NEW u, u = Head(job[w].cts)
    PROVE  p \notin Waiting(u)'
  <1> DEFINE cts == job[w].cts
  <1>1. graph' = graph /\ Shape /\ Jobs /\ Rights
    BY GraphStays DEF CInv
  <1>2. /\ Works(w) /\ job[w].pc \in Clearing /\ Called(w) /\ UNCHANGED queue
    BY DEF Skips, Releases, flowVars, Clearing
  <1>3. /\ cts # << >> /\ cts \in Seq(Procs) /\ p \in Procs
        /\ \A h, k \in DOMAIN cts : cts[h] = cts[k] => h = k
        /\ \A i \in DOMAIN Up(p) : Clears(w, p, i) => queue[p].items[i] = << >>
    BY <1>1, <1>2 DEF Jobs, Shape, IsJob
  <1>4. 1 \in DOMAIN cts /\ u = cts[1]
    BY <1>3
  <1>5. ASSUME NEW i \in DOMAIN Up(p), Up(p)[i] = u PROVE ~Owes(p, i)'
    <2>1. queue'[p].items[i] = << >>
      BY <1>2, <1>3, <1>4, <1>5 DEF Clears
    <2>2. ASSUME NEW v \in Workers, v # w PROVE ~Clears(v, p, i)'
      <3>1. job'[v] = job[v]
        BY <1>2, <2>2 DEF Called, Clear, Goes, Ends, Others
      <3> QED BY <1>1, <1>2, <2>2, <3>1 DEF Rights, Clears, Works
    <2>3. ASSUME Clears(w, p, i)' PROVE FALSE
      <3>1. job'[w].cts = Tail(cts) /\ \E k \in DOMAIN job'[w].cts : job'[w].cts[k] = Up(p)[i]
        BY <1>1, <1>2, <2>3, Frame DEF Called, Clear, Goes, Ends, Clears, Clearing, Works
      <3>2. \A k \in DOMAIN Tail(cts) : k + 1 \in DOMAIN cts /\ k + 1 # 1 /\ Tail(cts)[k] = cts[k + 1]
        BY <1>3
      <3> QED BY <1>3, <1>4, <1>5, <3>1, <3>2
    <2> QED BY <2>1, <2>2, <2>3 DEF Owes
  <1> QED BY <1>1, <1>5, Frame DEF Waiting

-----------------------------------------------------------------------------
(***************************************************************************)
(* Who may be started.                                                     *)
(***************************************************************************)
\* A process that a live sender reaches has not been given the close.
LEMMA Wanted ==
    ASSUME Shape, Built, Counts, Closing, NEW p \in made, Alive(p),
           handles[p] > 0 \/ Feeding(p) # {}
    PROVE  senders[p] > 0 /\ ~final[p] /\ ~closeQueue[p]
  <1>1. p \in Procs /\ handles[p] \in Nat /\ senders[p] \in Nat
    BY DEF Shape
  <1>2. handles[p] + Cardinality(Feeding(p)) <= senders[p]
    BY <1>1 DEF Counts
  <1>3. Cardinality(Feeding(p)) \in Nat /\ (Feeding(p) # {} => Cardinality(Feeding(p)) > 0)
    <2>1. Len(Up(p)) \in Nat /\ DOMAIN Up(p) = 1..Len(Up(p))
      BY <1>1, Nodes DEF Shape
    <2>2. IsFiniteSet(1..Len(Up(p))) /\ Feeding(p) \subseteq 1..Len(Up(p))
      BY <2>1, FS_Interval DEF Feeding
    <2> HIDE DEF Feeding
    <2>3. IsFiniteSet(Feeding(p))
      BY <2>2, FS_Subset
    <2>4. Cardinality(Feeding(p)) \in Nat /\ (Cardinality(Feeding(p)) = 0 <=> Feeding(p) = {})
      BY <2>3, FS_CardinalityType, FS_EmptySet
    <2> QED BY <2>4
  <1>4. senders[p] > 0
    BY <1>1, <1>2, <1>3
  <1> QED BY <1>1, <1>4 DEF Closing

LEMMA WantedDown ==
    ASSUME Shape, Built, Counts, Closing, NEW u \in Procs, NEW k \in DOMAIN down[u],
           Alive(down[u][k][1])
    PROVE  LET p == down[u][k][1]
           IN  p \in made /\ p \in Procs /\ down[u][k][2] \in Feeding(p)
               /\ senders[p] > 0 /\ ~final[p] /\ ~closeQueue[p]
  <1> DEFINE d == down[u][k]
  <1>1. d[1] \in made /\ d[2] \in DOMAIN Up(d[1]) /\ Up(d[1])[d[2]] = u
    BY DEF Built
  <1>2. d = << d[1], d[2] >>
    <2>1. down[u] \in Seq(Procs \X Nat)
      BY DEF Shape
    <2>2. d \in Procs \X Nat
      BY <2>1
    <2> QED BY <2>2
  <1>3. d[2] \in Feeding(d[1])
    BY <1>1, <1>2 DEF Feeding
  <1> HIDE DEF d
  <1>4. senders[d[1]] > 0 /\ ~final[d[1]] /\ ~closeQueue[d[1]]
    BY <1>1, <1>3, Wanted DEF d
  <1> QED BY <1>1, <1>3, <1>4 DEF d, Shape

\* Who is idle, and has not been given the close, has no job and nothing scheduled.
LEMMA Idle ==
    ASSUME Shape, Jobs, Rights, NEW p \in Procs, ~running[p], ~final[p]
    PROVE  pending[p] = 0 /\ delayed[p] = 0 /\ suspend[p] = 0
           /\ \A w \in Workers : Works(w) => job[w].p # p
  <1>1. pending[p] \in Nat /\ delayed[p] \in Nat /\ suspend[p] \in Nat
    BY DEF Shape
  <1>2. pending[p] = 0 /\ delayed[p] = 0 /\ suspend[p] = 0
    BY <1>1 DEF Rights
  <1> QED BY <1>2 DEF Rights, Jobs

\* The process that is told waits: it has nothing scheduled, and a job only while that broadcasts.
LEMMA Telling ==
    ASSUME Shape, Built, Jobs, Rights, Suspension, NEW w \in Workers, Works(w),
           job[w].pc \in Clearing, job[w].then = "apply"
    PROVE  LET u == Head(job[w].cts)
           IN  /\ u \in made /\ u \in Procs /\ u # job[w].p /\ job[w].p \in Waiting(u)
               /\ suspend[u] > 0 /\ running[u] /\ pending[u] = 0 /\ delayed[u] = 0
               /\ \A v \in Workers : Works(v) /\ job[v].p = u => Broadcasts(v) /\ suspend[u] > 1
  <1> DEFINE p == job[w].p
             cts == job[w].cts
             u == Head(cts)
  <1>1. /\ cts # << >> /\ cts \in Seq(Procs) /\ p \in Procs /\ p \in made
        /\ \A k \in DOMAIN cts : \E i \in DOMAIN Up(p) : Up(p)[i] = cts[k]
    BY DEF Jobs, Shape, IsJob, Built
  <1>2. 1 \in DOMAIN cts /\ u = cts[1] /\ u \in Procs
    BY <1>1
  <1>3. PICK i \in DOMAIN Up(p) : Up(p)[i] = u
    BY <1>1, <1>2
  <1>4. Owes(p, i)
    BY <1>2, <1>3 DEF Owes, Clears
  <1>5. p \in Waiting(u) /\ u \in made
    BY <1>1, <1>3, <1>4 DEF Waiting, Built
  <1> HIDE DEF u
  <1>6. IsFiniteSet(Waiting(u)) /\ Cardinality(Waiting(u)) \in Nat
    BY WaitingFinite DEF Shape
  <1>7. Cardinality(Waiting(u)) # 0
    BY <1>5, <1>6, FS_EmptySet
  <1>8. Cardinality(Waiting(u)) <= suspend[u] /\ suspend[u] \in Nat
    BY <1>2 DEF Suspension, Shape
  <1>9. suspend[u] > 0
    BY <1>6, <1>7, <1>8
  <1>10. u # p
    BY <1>1, <1>9 DEF Rights, Broadcasts, Clearing
  <1>11. running[u] /\ pending[u] = 0 /\ delayed[u] = 0
    <2>1. pending[u] \in Nat /\ delayed[u] \in Nat
      BY <1>2 DEF Shape
    <2>2. ~(pending[u] + delayed[u] > 0)
      BY <1>2, <1>9, <1>8 DEF Rights
    <2> QED BY <1>2, <1>9, <2>1, <2>2 DEF Rights
  <1>12. ASSUME NEW v \in Workers, Works(v), job[v].p = u PROVE Broadcasts(v) /\ suspend[u] > 1
    <2>1. Broadcasts(v)
      BY <1>8, <1>9, <1>12 DEF Rights
    <2>2. Unsent(v) \in Int /\ Unsent(v) >= 0
      <3>1. CASE job[v].pc = "send"
        <4>1. job[v].n \in Nat /\ job[v].k \in Nat /\ job[v].k <= job[v].n
          BY <1>12, <3>1 DEF Jobs, Shape, IsJob
        <4> QED BY <4>1 DEF Unsent
      <3>2. CASE job[v].pc # "send"
        BY <3>2 DEF Unsent
      <3> QED BY <3>1, <3>2
    <2>3. Cardinality(Waiting(u)) + 1 + Unsent(v) <= suspend[u]
      BY <1>12, <2>1 DEF Suspension
    <2> QED BY <1>6, <1>7, <1>8, <2>1, <2>2, <2>3
  <1> QED BY <1>2, <1>5, <1>9, <1>10, <1>11, <1>12 DEF u

\* The job that tells its own process does so last.
LEMMA TellingSelf ==
    ASSUME Shape, Jobs, Rights, Suspension, NEW w \in Workers, Works(w),
           job[w].pc \in Clearing, job[w].then # "apply"
    PROVE  LET p == job[w].p
           IN  /\ job[w].then = "end" /\ Head(job[w].cts) = p /\ Tail(job[w].cts) = << >> /\ p \in Procs
               /\ Cardinality(Waiting(p)) + 1 <= suspend[p] /\ running[p]
               /\ pending[p] = 0 /\ delayed[p] = 0 /\ Broadcasts(w)
  <1> DEFINE p == job[w].p
  <1>1. job[w].then = "end" /\ job[w].cts = << p >> /\ p \in Procs /\ job[w].pc \notin {"send", "finish"}
    BY DEF Jobs, Shape, IsJob, Clearing
  <1>2. Broadcasts(w) /\ Unsent(w) = 0
    BY <1>1 DEF Broadcasts, Unsent
  <1>3. Cardinality(Waiting(p)) + 1 + 0 <= suspend[p]
    BY <1>2 DEF Suspension
  <1>4. Cardinality(Waiting(p)) \in Nat
    BY WaitingFinite DEF Shape
  <1>5. pending[p] \in Nat /\ delayed[p] \in Nat /\ ~(pending[p] + delayed[p] > 0)
    BY <1>1 DEF Rights, Shape
  <1>6. Head(job[w].cts) = p /\ Tail(job[w].cts) = << >>
    BY <1>1
  <1>7. running[p]
    BY <1>1 DEF Rights
  <1> QED BY <1>1, <1>2, <1>3, <1>4, <1>5, <1>6, <1>7

-----------------------------------------------------------------------------
(***************************************************************************)
(* Each part of the invariant is kept.                                     *)
(***************************************************************************)
LEMMA BoundedStep ==
    ASSUME Plain, CInv, [Next]_vars PROVE Bounded'
  <1>1. graph' = graph /\ Flat /\ Shape /\ Built /\ Jobs /\ Bounded
    BY GraphStays DEF CInv
  <1>2. CASE \A w \in Workers : ~Sends(w)
    BY <1>1, <1>2, QueuesShrink, Frame DEF Bounded
  <1>3. ASSUME NEW w \in Workers, Sends(w) PROVE Bounded'
    <2> DEFINE d == down[job[w].p][job[w].k]
    <2>1. \/ queue' = [queue EXCEPT ![d[1]].items[d[2]] = Append(<< >>, job[w].out)]
          \/ UNCHANGED queue
      BY <1>1, <1>3, Sending
    <2> HIDE DEF d
    <2>2. Len(Append(<< >>, job[w].out)) <= 1
      OBVIOUS
    <2>3. ASSUME NEW q \in Procs, NEW i \in DOMAIN Up(q) PROVE Len(queue'[q].items[i]) <= 1
      <3>1. Len(queue[q].items[i]) <= 1
        BY <1>1 DEF Bounded
      <3>2. CASE UNCHANGED queue
        BY <3>1, <3>2
      <3>3. CASE queue' = [queue EXCEPT ![d[1]].items[d[2]] = Append(<< >>, job[w].out)]
        <4>1. \/ queue'[q].items[i] = Append(<< >>, job[w].out)
              \/ queue'[q].items[i] = queue[q].items[i]
          BY <1>1, <3>3, Appended
        <4> QED BY <2>2, <3>1, <4>1
      <3> QED BY <2>1, <3>2, <3>3
    <2> QED BY <1>1, <2>3, Frame DEF Bounded
  <1> QED BY <1>2, <1>3

\* A job changes no count but the senders of what it closes.
LEMMA CountsFrame ==
    ASSUME Shape, NEW w \in Workers, Runs(w)
    PROVE  Closes(w) \/ UNCHANGED << senders, down >>
  <1>1. ASSUME NEW p \in Procs, Starts(w, p) \/ Delays(w, p) PROVE UNCHANGED << senders, down >>
    BY <1>1 DEF Starts, Delays
  <1> QED BY <1>1 DEF Runs, Skips, Looks, Rereads, Releases, Suspended, Sends, Rests, Finishes, Thinks, Reads

LEMMA ArgumentSets ==
    ASSUME graph \in DOMAIN Graphs, NEW p \in Procs, NEW S, S \subseteq DOMAIN Up(p)
    PROVE  /\ IsFiniteSet(S) /\ Cardinality(S) \in Nat /\ Cardinality(S) <= Arity(p)
           /\ \A T : T \subseteq S => Cardinality(T) \in Nat /\ Cardinality(T) <= Cardinality(S)
           /\ \A i \in S : \A T : T \subseteq S \ {i} =>
                Cardinality(T) \in Nat /\ Cardinality(T) + 1 <= Cardinality(S)
  <1>1. Arity(p) \in Nat /\ S \subseteq 1..Arity(p)
    BY Nodes
  <1>2. IsFiniteSet(1..Arity(p)) /\ Cardinality(1..Arity(p)) = Arity(p)
    BY <1>1, FS_Interval
  <1>3. IsFiniteSet(S) /\ Cardinality(S) <= Arity(p) /\ Cardinality(S) \in Nat
    BY <1>1, <1>2, FS_Subset, FS_CardinalityType
  <1>4. ASSUME NEW T, T \subseteq S PROVE Cardinality(T) \in Nat /\ Cardinality(T) <= Cardinality(S)
    BY <1>3, <1>4, FS_Subset, FS_CardinalityType
  <1>5. ASSUME NEW i \in S, NEW T, T \subseteq S \ {i}
        PROVE  Cardinality(T) \in Nat /\ Cardinality(T) + 1 <= Cardinality(S)
    <2>1. IsFiniteSet(S \ {i}) /\ Cardinality(S \ {i}) = Cardinality(S) - 1
      BY <1>3, <1>5, FS_RemoveElement
    <2>2. Cardinality(T) <= Cardinality(S \ {i}) /\ Cardinality(T) \in Nat
      BY <1>5, <2>1, FS_Subset, FS_CardinalityType
    <2> QED BY <1>3, <2>1, <2>2
  <1> QED BY <1>3, <1>4, <1>5

LEMMA CountsStep ==
    ASSUME Plain, CInv, [Next]_vars PROVE Counts'
  <1>1. graph' = graph /\ Flat /\ Shape /\ Built /\ Jobs /\ Counts
    BY GraphStays DEF CInv
  <1>2. /\ \A p \in made : Alive(p)' => Alive(p)
        /\ \A p : Feeding(p) \subseteq DOMAIN Up(p) /\ Feeding(p)' \subseteq DOMAIN Up(p)
    BY <1>1, StaysGone, Frame DEF Feeding
  <1>3. /\ made \subseteq Procs /\ graph \in DOMAIN Graphs
        /\ open \in [Procs -> Nat] /\ ready \in [Procs -> Nat] /\ receivers \in [Procs -> Nat]
        /\ handles \in [Procs -> Nat] /\ senders \in [Procs -> Nat] /\ down \in [Procs -> Seq(Procs \X Nat)]
    BY <1>1 DEF Shape
  <1>4. \A p \in Procs :
           /\ p \in made /\ Alive(p) => handles[p] + Cardinality(Feeding(p)) <= senders[p]
           /\ p \notin made => senders[p] = Arity(p) /\ (Graph[p].void \/ receivers[p] > 0)
           /\ open[p] <= receivers[p] \/ Graph[p].void
    BY <1>1 DEF Counts
  <1>5. ASSUME NEW p \in made, Feeding(p)' \subseteq Feeding(p), Alive(p)',
               handles'[p] \in Nat, senders'[p] \in Nat,
               handles'[p] + senders[p] <= senders'[p] + handles[p]
        PROVE  handles'[p] + Cardinality(Feeding(p)') <= senders'[p]
    <2>1. /\ Cardinality(Feeding(p)') \in Nat /\ Cardinality(Feeding(p)) \in Nat
          /\ Cardinality(Feeding(p)') <= Cardinality(Feeding(p))
      BY <1>2, <1>3, <1>5, ArgumentSets
    <2>2. handles[p] + Cardinality(Feeding(p)) <= senders[p]
      BY <1>2, <1>3, <1>4, <1>5
    <2>3. p \in Procs /\ handles[p] \in Nat /\ senders[p] \in Nat
      BY <1>3
    <2> HIDE DEF Feeding
    <2> QED BY <1>5, <2>1, <2>2, <2>3
  <1> DEFINE Fed == \A p \in Procs : p \in made' /\ Alive(p)' =>
                        handles'[p] + Cardinality(Feeding(p)') <= senders'[p]
             Open == \A p \in Procs : /\ open'[p] <= receivers'[p] \/ Graph[p].void
                                      /\ p \notin made' => Graph[p].void \/ receivers'[p] > 0
             Unmade == \A p \in Procs : p \notin made' => senders'[p] = Arity(p)
  <1>6. ASSUME UNCHANGED << made, down, handles, senders >> PROVE Fed /\ Unmade
    <2>1. \A p \in Procs : Feeding(p)' = Feeding(p)
      BY <1>1, <1>6, Frame DEF Feeding
    <2>2. \A p \in made : Alive(p)' => handles'[p] + Cardinality(Feeding(p)') <= senders'[p]
      BY <1>2, <1>3, <1>4, <1>6, <2>1
    <2> QED BY <1>4, <1>6, <2>2
  <1>7. UNCHANGED << made, open, receivers >> => Open
    BY <1>4
  <1>8. ASSUME NEW q \in Procs, Attach(q) PROVE Fed /\ Unmade /\ Open
    <2>1. /\ q \notin made /\ made' = made \cup {q} /\ open' = [open EXCEPT ![q] = 1]
          /\ UNCHANGED << handles, receivers, senders >>
          /\ down' = [u \in Procs |-> IF \E i \in DOMAIN Up(q) : Up(q)[i] = u
                                      THEN append_receiver(u, << q, ArgumentFrom(q, u) >>)
                                      ELSE down[u]]
      BY <1>8 DEF Attach
    <2>2. Open /\ Unmade
      BY <1>3, <1>4, <2>1
    <2>3. handles[q] = 0 /\ senders[q] = Arity(q)
      BY <1>1, <1>4, <2>1 DEF Built
    <2>4. handles'[q] + Cardinality(Feeding(q)') <= senders'[q]
      <3>1. Cardinality(Feeding(q)') \in Nat /\ Cardinality(Feeding(q)') <= Arity(q)
        BY <1>2, <1>3, ArgumentSets
      <3>2. handles'[q] = 0 /\ senders'[q] = Arity(q) /\ Arity(q) \in Nat
        BY <1>3, <2>1, <2>3, Nodes
      <3> HIDE DEF Feeding
      <3> QED BY <3>1, <3>2
    <2>5. ASSUME NEW p \in made PROVE Feeding(p)' \subseteq Feeding(p)
      <3>1. p # q /\ p \in Procs
        BY <1>3, <2>1, <2>5
      <3>2. ASSUME NEW u \in Procs, NEW k \in DOMAIN down'[u], NEW i, down'[u][k] = << p, i >>
            PROVE  \E h \in DOMAIN down[u] : down[u][h] = << p, i >>
        <4>1. down[u] \in Seq(Procs \X Nat)
          BY <1>3
        <4> DEFINE s == << q, ArgumentFrom(q, u) >>
        <4>2. down'[u] = << s >> \/ down'[u] = Append(down[u], s) \/ down'[u] = down[u]
          BY <2>1 DEF append_receiver
        <4>3. s # << p, i >>
          BY <3>1
        <4> HIDE DEF s
        <4>4. down'[u] # << s >>
          BY <3>2, <4>3
        <4>5. down'[u] = Append(down[u], s) => k \in DOMAIN down[u] /\ down[u][k] = down'[u][k]
          <5> DEFINE T == (Procs \X Nat) \cup {s}
          <5>1. down[u] \in Seq(T) /\ s \in T
            BY <4>1, SeqMonotonic
          <5> HIDE DEF T
          <5>2. /\ DOMAIN Append(down[u], s) = 1..(Len(down[u]) + 1) /\ Len(down[u]) \in Nat
                /\ DOMAIN down[u] = 1..Len(down[u])
                /\ \A h \in 1..Len(down[u]) : Append(down[u], s)[h] = down[u][h]
                /\ Append(down[u], s)[Len(down[u]) + 1] = s
            BY <5>1
          <5>3. ASSUME down'[u] = Append(down[u], s)
                PROVE  k \in DOMAIN down[u] /\ down[u][k] = down'[u][k]
            <6>1. k \in 1..(Len(down[u]) + 1) /\ down'[u][k] # s
              BY <3>2, <4>3, <5>2, <5>3
            <6>2. k \in 1..Len(down[u])
              BY <5>2, <5>3, <6>1
            <6> QED BY <5>2, <5>3, <6>2
          <5> QED BY <5>3
        <4> QED BY <3>2, <4>2, <4>4, <4>5
      <3>3. \A i \in DOMAIN Up(p) : Up(p)[i] \in Procs
        BY <1>3, <3>1, Nodes
      <3> QED BY <1>1, <3>2, <3>3, Frame DEF Feeding
    <2>6. ASSUME NEW p \in made, Alive(p)' PROVE handles'[p] + Cardinality(Feeding(p)') <= senders'[p]
      <3>1. Feeding(p)' \subseteq Feeding(p)
        BY <2>5
      <3>2. handles'[p] \in Nat /\ senders'[p] \in Nat /\ handles'[p] + senders[p] <= senders'[p] + handles[p]
        BY <1>3, <2>1
      <3> QED BY <1>5, <2>6, <3>1, <3>2
    <2> QED BY <2>1, <2>2, <2>4, <2>6
  <1>9. ASSUME NEW q \in Procs, CopyReceiver(q) \/ SetReady(q) \/ DestroyReceiver(q)
        PROVE  Fed /\ Unmade /\ Open
    <2>1. UNCHANGED << made, down, handles, senders >>
      BY <1>9 DEF CopyReceiver, SetReady, DestroyReceiver
    <2>2. q \in made
      <3>1. open[q] > 0 \/ ready[q] > 0
        BY <1>9 DEF CopyReceiver, SetReady, DestroyReceiver
      <3> QED BY <1>1, <1>3, <3>1 DEF Built
    <2>3. /\ \A p \in Procs : p # q => open'[p] = open[p] /\ receivers'[p] = receivers[p]
          /\ open'[q] <= receivers'[q] \/ Graph[q].void
      <3>1. CASE CopyReceiver(q)
        BY <1>3, <1>4, <3>1 DEF CopyReceiver
      <3>2. CASE SetReady(q)
        BY <1>3, <1>4, <3>2 DEF SetReady, remove_receiver
      <3>3. CASE DestroyReceiver(q)
        BY <1>3, <1>4, <3>3 DEF DestroyReceiver, remove_receiver
      <3> QED BY <1>9, <3>1, <3>2, <3>3
    <2>4. Open
      BY <1>4, <2>1, <2>2, <2>3
    <2> QED BY <1>6, <2>1, <2>4
  <1>10. ASSUME NEW q \in Procs, CopySender(q) \/ CloseSender(q) \/ AssignSender(q)
         PROVE  Fed /\ Unmade /\ Open
    <2>1. UNCHANGED << graph, made, open, receivers, down >>
      BY <1>10 DEF CopySender, CloseSender, AssignSender, graphVars
    <2>2. q \in made
      <3>1. handles[q] > 0
        BY <1>3, <1>4, <1>10 DEF CopySender, CloseSender, AssignSender
      <3> QED BY <1>1, <3>1 DEF Built
    <2>3. Alive(q)' => Alive(q)
      BY <1>2, <2>2
    <2>4. /\ \A p \in Procs : p # q => handles'[p] = handles[p] /\ senders'[p] = senders[p]
          /\ Alive(q)' => /\ handles'[q] \in Nat /\ senders'[q] \in Nat
                          /\ handles'[q] + senders[q] <= senders'[q] + handles[q]
      <3>1. CASE CopySender(q)
        BY <1>3, <2>3, <3>1 DEF CopySender
      <3>2. CASE CloseSender(q)
        <4>1. handles[q] > 0 /\ handles' = [handles EXCEPT ![q] = @ - 1]
          BY <3>2 DEF CloseSender
        <4>2. CASE Alive(q)
          <5>1. handles[q] + Cardinality(Feeding(q)) <= senders[q] /\ Cardinality(Feeding(q)) \in Nat
            BY <1>2, <1>3, <1>4, <2>2, <4>2, ArgumentSets
          <5>2. senders' = [senders EXCEPT ![q] = @ - 1]
            BY <3>2, <4>2 DEF CloseSender, remove_sender
          <5> HIDE DEF Feeding
          <5>3. senders[q] > 0
            BY <1>3, <4>1, <5>1
          <5> QED BY <1>3, <4>1, <5>2, <5>3
        <4>3. CASE ~Alive(q)
          <5>1. senders' = senders
            BY <3>2, <4>3 DEF CloseSender
          <5> QED BY <1>3, <2>3, <4>1, <4>3, <5>1
        <4> QED BY <4>2, <4>3
      <3>3. CASE AssignSender(q)
        BY <1>3, <2>3, <3>3 DEF AssignSender, graphVars
      <3> QED BY <1>10, <3>1, <3>2, <3>3
    <2>5. \A p \in Procs : Feeding(p)' = Feeding(p)
      BY <2>1, Frame DEF Feeding
    <2>6. ASSUME NEW p \in made, Alive(p)' PROVE handles'[p] + Cardinality(Feeding(p)') <= senders'[p]
      <3>1. Feeding(p)' \subseteq Feeding(p)
        BY <1>3, <2>5
      <3>2. handles'[p] \in Nat /\ senders'[p] \in Nat /\ handles'[p] + senders[p] <= senders'[p] + handles[p]
        <4>1. CASE p = q
          BY <2>4, <2>6, <4>1
        <4>2. CASE p # q
          <5>1. handles'[p] = handles[p] /\ senders'[p] = senders[p] /\ p \in Procs
            BY <1>3, <2>4, <4>2
          <5> QED BY <1>3, <5>1
        <4> QED BY <4>1, <4>2
      <3> QED BY <1>5, <2>6, <3>1, <3>2
    <2>7. Fed
      BY <2>1, <2>6
    <2>8. Unmade
      BY <1>4, <2>1, <2>2, <2>4
    <2> QED BY <1>7, <2>1, <2>7, <2>8
  <1>11. ASSUME NEW w \in Workers, Closes(w) PROVE Fed /\ Unmade /\ Open
    <2>0. PICK p, d : p = job[w].p /\ d = Head(down[p])
      OBVIOUS
    <2>1. /\ Works(w) /\ down[p] # << >> /\ down' = [down EXCEPT ![p] = Tail(@)]
          /\ UNCHANGED << made, open, receivers, handles >>
          /\ IF Alive(d[1]) THEN remove_sender(d[1]) ELSE UNCHANGED senders
      BY <1>11, <2>0 DEF Closes, graphVars
    <2>2. p \in Procs /\ down[p] \in Seq(Procs \X Nat)
      BY <1>1, <1>3, <2>0, <2>1 DEF Shape, IsJob
    <2>3. /\ 1 \in DOMAIN down[p] /\ d = down[p][1] /\ d = << d[1], d[2] >>
          /\ \A k \in DOMAIN Tail(down[p]) :
                k + 1 \in DOMAIN down[p] /\ k + 1 # 1 /\ Tail(down[p])[k] = down[p][k + 1]
      <3>1. down[p] # << >>
        BY <2>1
      <3>2. 1 \in DOMAIN down[p] /\ d = down[p][1]
        BY <2>0, <2>2, <3>1
      <3>3. d \in Procs \X Nat
        BY <2>2, <3>2
      <3>4. \A k \in DOMAIN Tail(down[p]) :
               k + 1 \in DOMAIN down[p] /\ k + 1 # 1 /\ Tail(down[p])[k] = down[p][k + 1]
        BY <2>2, <3>1
      <3> QED BY <3>2, <3>3, <3>4
    <2>4. /\ d[1] \in made /\ d[2] \in DOMAIN Up(d[1]) /\ Up(d[1])[d[2]] = p
          /\ \A k \in DOMAIN down[p] : down[p][k][1] = d[1] => k = 1
      BY <1>1, <2>2, <2>3 DEF Built
    <2>5. d[2] \in Feeding(d[1])
      BY <2>3, <2>4 DEF Feeding
    <2>6. ASSUME NEW q \in Procs PROVE Feeding(q)' \subseteq Feeding(q)
      <3>1. ASSUME NEW u \in Procs, NEW k \in DOMAIN down'[u]
            PROVE  \E h \in DOMAIN down[u] : down[u][h] = down'[u][k]
        <4>1. CASE u = p
          <5>1. down'[u] = Tail(down[p])
            BY <1>3, <2>1, <2>2, <4>1
          <5> QED BY <2>3, <3>1, <4>1, <5>1
        <4>2. CASE u # p
          BY <1>3, <2>1, <2>2, <3>1, <4>2
        <4> QED BY <4>1, <4>2
      <3>2. \A i \in DOMAIN Up(q) : Up(q)[i] \in Procs
        BY <1>3, Nodes
      <3> QED BY <1>1, <3>1, <3>2, Frame DEF Feeding
    <2>7. d[2] \notin Feeding(d[1])'
      <3>1. \A k \in DOMAIN down'[p] : down'[p][k][1] # d[1]
        BY <1>3, <2>1, <2>2, <2>3, <2>4
      <3> QED BY <1>1, <2>4, <3>1, Frame DEF Feeding
    <2>8. ASSUME NEW q \in made, Alive(q)' PROVE handles'[q] + Cardinality(Feeding(q)') <= senders'[q]
      <3>1. q \in Procs /\ Alive(q)
        BY <1>2, <1>3, <2>8
      <3>2. CASE q = d[1]
        <4>1. senders' = [senders EXCEPT ![q] = @ - 1] /\ handles' = handles
          BY <2>1, <3>1, <3>2 DEF remove_sender
        <4>2. /\ Cardinality(Feeding(q)') \in Nat /\ Cardinality(Feeding(q)) \in Nat
              /\ Cardinality(Feeding(q)') + 1 <= Cardinality(Feeding(q))
          <5>1. Feeding(q)' \subseteq Feeding(q) \ {d[2]} /\ d[2] \in Feeding(q)
            BY <2>5, <2>6, <2>7, <3>1, <3>2
          <5> QED BY <1>2, <1>3, <3>1, <5>1, ArgumentSets
        <4>3. handles[q] + Cardinality(Feeding(q)) <= senders[q]
          BY <1>4, <3>1
        <4> HIDE DEF Feeding
        <4> QED BY <1>3, <3>1, <4>1, <4>2, <4>3
      <3>3. CASE q # d[1]
        <4>1. senders'[q] = senders[q] /\ handles' = handles
          BY <1>3, <2>1, <3>1, <3>3 DEF remove_sender
        <4>2. handles'[q] \in Nat /\ senders'[q] \in Nat /\ handles'[q] + senders[q] <= senders'[q] + handles[q]
          BY <1>3, <3>1, <4>1
        <4>3. Feeding(q)' \subseteq Feeding(q)
          BY <2>6, <3>1
        <4> QED BY <1>5, <2>8, <4>2, <4>3
      <3> QED BY <3>2, <3>3
    <2>9. Fed
      BY <1>3, <2>1, <2>8
    <2>10. Unmade
      BY <1>3, <1>4, <2>1, <2>4 DEF remove_sender
    <2> QED BY <1>7, <2>1, <2>9, <2>10
  <1>12. ASSUME NEW w \in Workers, Runs(w), ~Closes(w) PROVE Fed /\ Unmade /\ Open
    <2>1. UNCHANGED << made, open, receivers, handles, senders, down >>
      BY <1>1, <1>12, CountsFrame, JobStays DEF graphVars
    <2> QED BY <1>6, <1>7, <2>1
  <1>13. ASSUME \/ \E q \in Procs : StartReady(q) \/ Send(q) \/ Expires(q)
                \/ UNCHANGED vars
         PROVE  Fed /\ Unmade /\ Open
    <2>1. UNCHANGED << made, open, receivers, handles, senders, down >>
      BY <1>13 DEF StartReady, Send, Expires, vars, graphVars
    <2> QED BY <1>6, <1>7, <2>1
  <1> HIDE DEF Fed, Unmade, Open
  <1>14. Fed /\ Unmade /\ Open
    BY <1>1, <1>8, <1>9, <1>10, <1>11, <1>12, <1>13 DEF Flat, UserNext
  <1> QED BY <1>1, <1>14, Frame DEF Counts, Fed, Unmade, Open

LEMMA ScheduleKeeps ==
    ASSUME Shape, NEW p \in Procs, NEW doRun \in BOOLEAN, Schedule(p, doRun)
    PROVE  running' \in [Procs -> BOOLEAN] /\ pending' \in [Procs -> Nat]
  <1>1. running' \in [Procs -> BOOLEAN]
    BY DEF Shape, Schedule
  <1>2. pending' \in [Procs -> Nat]
    BY DEF Shape, Schedule
  <1> QED BY <1>1, <1>2

LEMMA ClosingKeeps ==
    ASSUME Shape, NEW p \in Procs, senders[p] > 0, remove_sender(p)
    PROVE  /\ senders' \in [Procs -> Nat] /\ closeQueue' \in [Procs -> BOOLEAN]
           /\ running' \in [Procs -> BOOLEAN] /\ pending' \in [Procs -> Nat]
  <1>1. senders' \in [Procs -> Nat] /\ closeQueue' \in [Procs -> BOOLEAN]
    <2>1. senders \in [Procs -> Nat] /\ senders' = [senders EXCEPT ![p] = @ - 1]
      BY DEF Shape, remove_sender
    <2>2. closeQueue \in [Procs -> BOOLEAN]
          /\ (closeQueue' = [closeQueue EXCEPT ![p] = TRUE] \/ closeQueue' = closeQueue)
      BY DEF Shape, remove_sender
    <2>3. senders' \in [Procs -> Nat]
      BY <2>1
    <2>4. closeQueue' \in [Procs -> BOOLEAN]
      BY <2>2
    <2> QED BY <2>3, <2>4
  <1>2. CASE senders[p] = 1
    <2>1. Schedule(p, receivers[p] = 0 /\ ~running[p])
      BY <1>2 DEF remove_sender
    <2> QED BY <1>1, <2>1, ScheduleKeeps
  <1>3. CASE senders[p] # 1
    BY <1>1, <1>3 DEF Shape, remove_sender
  <1> QED BY <1>2, <1>3

\* A queue that is written to, and one that a message is taken from, are queues.
LEMMA QueueWritten ==
    ASSUME Shape, graph' = graph, NEW r \in Procs, NEW a, NEW x, IsSeq(x),
           queue' = [queue EXCEPT ![r].items[a] = x]
    PROVE  queue' = [p \in Procs |-> queue'[p]] /\ \A p \in Procs : IsQueue(p)'
  <1>1. queue = [p \in Procs |-> queue[p]] /\ \A p \in Procs : IsQueue(p)
    BY DEF Shape
  <1>2. queue' = [p \in Procs |-> queue'[p]]
    BY <1>1
  <1>3. ASSUME NEW p \in Procs PROVE IsQueue(p)'
    <2>1. CASE p # r
      <3>1. queue'[p] = queue[p]
        BY <1>1, <2>1
      <3>2. Arity(p)' = Arity(p) /\ IsQueue(p)
        BY <1>1, Frame
      <3> QED BY <3>1, <3>2 DEF IsQueue
    <2>2. CASE p = r
      <3> DEFINE items == [queue[p].items EXCEPT ![a] = x]
      <3>1. queue'[p] = [queue[p] EXCEPT !.items = items]
        BY <1>1, <2>2
      <3>2. items = [i \in 1..Arity(p) |-> items[i]] /\ \A i \in 1..Arity(p) : IsSeq(items[i])
        BY <1>1 DEF IsQueue
      <3> HIDE DEF items
      <3>3. queue'[p] = [items |-> items, index |-> queue[p].index, popped |-> queue[p].popped]
        BY <1>1, <3>1 DEF IsQueue
      <3>4. queue[p].index \in 1..Arity(p) /\ queue[p].popped \in 1..Arity(p)
        BY <1>1 DEF IsQueue
      <3>5. /\ queue'[p].items = items
            /\ queue'[p].index = queue[p].index /\ queue'[p].popped = queue[p].popped
        BY <3>3
      <3>6. /\ queue'[p] = [items |-> queue'[p].items, index |-> queue'[p].index,
                            popped |-> queue'[p].popped]
            /\ queue'[p].items = [i \in 1..Arity(p) |-> queue'[p].items[i]]
            /\ \A i \in 1..Arity(p) : IsSeq(queue'[p].items[i])
            /\ queue'[p].index \in 1..Arity(p) /\ queue'[p].popped \in 1..Arity(p)
        <4>1. queue'[p] = [items |-> queue'[p].items, index |-> queue'[p].index,
                           popped |-> queue'[p].popped]
          BY <3>3, <3>5
        <4>2. /\ queue'[p].items = [i \in 1..Arity(p) |-> queue'[p].items[i]]
              /\ \A i \in 1..Arity(p) : IsSeq(queue'[p].items[i])
          <5> DEFINE t == queue'[p].items
          <5>1. t = items
            BY <3>5
          <5> HIDE DEF t
          <5>2. t = [i \in 1..Arity(p) |-> t[i]] /\ \A i \in 1..Arity(p) : IsSeq(t[i])
            BY <3>2, <5>1
          <5> QED BY <5>2 DEF t
        <4>3. queue'[p].index \in 1..Arity(p) /\ queue'[p].popped \in 1..Arity(p)
          BY <3>4, <3>5
        <4> QED BY <4>1, <4>2, <4>3
      <3> QED BY <3>6, Frame DEF IsQueue
    <2> QED BY <2>1, <2>2
  <1> QED BY <1>2, <1>3

LEMMA QueuePopped ==
    ASSUME Shape, graph' = graph, NEW r \in Procs, ~Empty(Graph[r].strategy, queue[r]),
           queue' = [queue EXCEPT ![r] = PopFront(Graph[r].strategy, queue[r])]
    PROVE  queue' = [p \in Procs |-> queue'[p]] /\ \A p \in Procs : IsQueue(p)'
  <1>1. queue = [p \in Procs |-> queue[p]] /\ \A p \in Procs : IsQueue(p)
    BY DEF Shape
  <1>2. queue' = [p \in Procs |-> queue'[p]]
    BY <1>1
  <1>3. ASSUME NEW p \in Procs PROVE IsQueue(p)'
    <2>1. CASE p # r
      <3>1. queue'[p] = queue[p]
        BY <1>1, <2>1
      <3>2. Arity(p)' = Arity(p) /\ IsQueue(p)
        BY <1>1, Frame
      <3> QED BY <3>1, <3>2 DEF IsQueue
    <2>2. CASE p = r
      <3> DEFINE popped == PopFront(Graph[p].strategy, queue[p])
      <3>1. /\ \A i \in Taken(p) : queue[p].items[i] # << >>
            /\ popped = [items |-> popped.items, index |-> popped.index, popped |-> popped.popped]
            /\ popped.items = [i \in 1..Arity(p) |-> IF i \in Taken(p) THEN Tail(queue[p].items[i])
                                                     ELSE queue[p].items[i]]
            /\ popped.index \in 1..Arity(p) /\ popped.popped \in 1..Arity(p)
        BY <1>1, <2>2, Taking DEF Shape
      <3>2. queue'[p] = popped
        BY <1>1, <2>2
      <3> HIDE DEF popped
      <3>3. ASSUME NEW i \in 1..Arity(p) PROVE IsSeq(popped.items[i])
        <4>1. IsSeq(queue[p].items[i])
          BY <1>1 DEF IsQueue
        <4> DEFINE t == queue[p].items[i]
        <4>2. t # << >> => IsSeq(Tail(t))
          <5>1. IsSeq(t)
            BY <4>1
          <5> HIDE DEF t
          <5> QED BY <5>1, SeqOps
        <4> QED BY <3>1, <4>1, <4>2
      <3> QED BY <3>1, <3>2, <3>3, Frame DEF IsQueue
    <2> QED BY <2>1, <2>2
  <1> QED BY <1>2, <1>3

\* The user's sends.
LEMMA UserSends ==
    ASSUME Shape, Built, Counts, Closing, NEW p \in Procs, Send(p), Alive(p)
    PROVE  /\ p \in made /\ Up(p) = << >> /\ ~final[p]
           /\ \E x : IsSeq(x) /\ queue' = [queue EXCEPT ![p].items[1] = x]
           /\ Schedule(p, receivers[p] = 0 /\ ~running[p])
  <1>1. handles[p] > 0 /\ handles[p] \in Nat
    BY DEF Send, Shape
  <1>2. p \in made /\ Up(p) = << >>
    BY <1>1 DEF Built
  <1>3. ~final[p]
    BY <1>1, <1>2, Wanted
  <1>4. PICK m : /\ queue' = [queue EXCEPT ![p] = AppendTo(@, 1, m)]
                 /\ Schedule(p, receivers[p] = 0 /\ (~running[p] \/ timeoutActive[p]))
    BY DEF Send, send, enqueue
  <1>5. Schedule(p, receivers[p] = 0 /\ ~running[p])
    <2>1. ~timeoutActive[p]
      BY DEF Shape
    <2> QED BY <1>4, <2>1
  <1> DEFINE t == queue[p].items[1]
             x == Append(t, m)
  <1>6. queue' = [queue EXCEPT ![p].items[1] = x]
    BY <1>4 DEF AppendTo, Shape
  <1>7. IsSeq(x)
    <2>1. IsQueue(p) /\ 1 \in 1..Arity(p)
      BY Nodes DEF Shape
    <2>2. IsSeq(t)
      BY <2>1 DEF IsQueue
    <2> HIDE DEF t
    <2> QED BY <2>2, SeqOps
  <1> HIDE DEF x
  <1> QED BY <1>2, <1>3, <1>5, <1>6, <1>7

LEMMA ShapeStep ==
    ASSUME Plain, CInv, [Next]_vars PROVE Shape'
  <1>1. /\ graph' = graph /\ Flat /\ JobsKeep
        /\ Shape /\ Built /\ Jobs /\ Rights /\ Suspension /\ Counts /\ Closing
    BY GraphStays DEF CInv
  <1> DEFINE Users == /\ made' \subseteq Procs
                      /\ open' \in [Procs -> Nat] /\ ready' \in [Procs -> Nat]
                      /\ checking' \in [Procs -> Nat] /\ receivers' \in [Procs -> Nat]
                      /\ handles' \in [Procs -> Nat]
             Senders == senders' \in [Procs -> Nat] /\ closeQueue' \in [Procs -> BOOLEAN]
             Lists == down' \in [Procs -> Seq(Procs \X Nat)]
             Queues == queue' = [p \in Procs |-> queue'[p]] /\ \A p \in Procs : IsQueue(p)'
             Scheduled == running' \in [Procs -> BOOLEAN] /\ pending' \in [Procs -> Nat]
             Suspensions == suspend' \in [Procs -> Nat]
             Finals == final' \in [Procs -> BOOLEAN]
             Yields == delayed' \in [Procs -> Nat]
             Processes == process' = [p \in Procs |-> process'[p]] /\ \A p \in Procs : IsProcess(process'[p])
             Times == UNCHANGED << timeouts, timeoutActive >>
             All == /\ Users /\ Senders /\ Lists /\ Queues /\ Scheduled /\ Suspensions /\ Finals
                    /\ Yields /\ Processes /\ Times
  <1>2. /\ UNCHANGED << made, open, ready, checking, receivers, handles >> => Users
        /\ UNCHANGED << senders, closeQueue >> => Senders
        /\ UNCHANGED down => Lists
        /\ UNCHANGED queue => Queues
        /\ UNCHANGED << running, pending >> => Scheduled
        /\ UNCHANGED suspend => Suspensions
        /\ UNCHANGED final => Finals
        /\ UNCHANGED delayed => Yields
        /\ UNCHANGED process => Processes
    <2>1. UNCHANGED queue => Queues
      <3>1. queue = [p \in Procs |-> queue[p]] /\ \A p \in Procs : IsQueue(p)
        BY <1>1 DEF Shape
      <3> QED BY <1>1, <3>1, Frame DEF IsQueue
    <2>2. /\ UNCHANGED << made, open, ready, checking, receivers, handles >> => Users
          /\ UNCHANGED << senders, closeQueue >> => Senders
          /\ UNCHANGED down => Lists
          /\ UNCHANGED << running, pending >> => Scheduled
      BY <1>1 DEF Shape
    <2>3. /\ UNCHANGED suspend => Suspensions
          /\ UNCHANGED final => Finals
          /\ UNCHANGED delayed => Yields
          /\ UNCHANGED process => Processes
      BY <1>1 DEF Shape
    <2> HIDE DEF Users, Senders, Lists, Queues, Scheduled, Suspensions, Finals, Yields, Processes
    <2> QED BY <2>1, <2>2, <2>3
  <1>3. ASSUME NEW p \in Procs,
               \/ Attach(p) \/ CopyReceiver(p) \/ SetReady(p) \/ DestroyReceiver(p) \/ StartReady(p)
        PROVE  All
    <2>1. /\ made \subseteq Procs
          /\ open \in [Procs -> Nat] /\ ready \in [Procs -> Nat] /\ handles \in [Procs -> Nat]
          /\ checking \in [Procs -> Nat] /\ receivers \in [Procs -> Nat]
          /\ down \in [Procs -> Seq(Procs \X Nat)]
          /\ open[p] <= receivers[p] \/ Graph[p].void
          /\ graph \in DOMAIN Graphs
      BY <1>1 DEF Shape, Counts
    <2>2. UNCHANGED << senders, closeQueue, queue, suspend, final, delayed, process, timeouts, timeoutActive >>
      BY <1>3 DEF Attach, CopyReceiver, SetReady, DestroyReceiver, StartReady, flowVars, procVars, userVars
    <2>3. ~StartReady(p) => UNCHANGED << running, pending >>
      BY <1>3 DEF Attach, CopyReceiver, SetReady, DestroyReceiver, flowVars
    <2>4. ~Attach(p) => UNCHANGED down
      BY <1>3 DEF CopyReceiver, SetReady, DestroyReceiver, StartReady
    <2>5. ASSUME Attach(p) PROVE Users /\ Lists
      <3>1. Users
        BY <2>1, <2>5 DEF Attach
      <3>2. ASSUME NEW u \in Procs PROVE down'[u] \in Seq(Procs \X Nat)
        <4> DEFINE s == << p, ArgumentFrom(p, u) >>
        <4>1. CASE \E i \in DOMAIN Up(p) : Up(p)[i] = u
          <5>1. ArgumentFrom(p, u) \in DOMAIN Up(p)
            BY <4>1 DEF ArgumentFrom
          <5>2. DOMAIN Up(p) \subseteq Nat
            BY <2>1, Nodes
          <5>3. s \in Procs \X Nat /\ down[u] \in Seq(Procs \X Nat)
            BY <2>1, <5>1, <5>2
          <5>4. down'[u] = << s >> \/ down'[u] = Append(down[u], s)
            BY <2>5, <4>1 DEF Attach, append_receiver
          <5> DEFINE T == Procs \X Nat
          <5>5. s \in T /\ down[u] \in Seq(T)
            BY <5>3
          <5> HIDE DEF s, T
          <5>6. << s >> \in Seq(T) /\ Append(down[u], s) \in Seq(T)
            BY <5>5
          <5>7. down'[u] \in Seq(T)
            BY <5>4, <5>6
          <5> QED BY <5>7 DEF T
        <4>2. CASE ~\E i \in DOMAIN Up(p) : Up(p)[i] = u
          BY <2>1, <2>5, <4>2 DEF Attach
        <4> QED BY <4>1, <4>2
      <3>3. down' = [u \in Procs |-> down'[u]]
        BY <2>5 DEF Attach
      <3> QED BY <3>1, <3>2, <3>3
    <2>6. ASSUME CopyReceiver(p) PROVE Users
      <3>1. UNCHANGED << made, handles, checking >>
        BY <2>6 DEF CopyReceiver
      <3>2. /\ \/ open' = [open EXCEPT ![p] = @ + 1] /\ ready' = ready
               \/ ready' = [ready EXCEPT ![p] = @ + 1] /\ open' = open
            /\ receivers' = [receivers EXCEPT ![p] = @ + (IF Graph[p].void THEN 0 ELSE 1)]
        BY <2>6 DEF CopyReceiver
      <3>3. open' \in [Procs -> Nat] /\ ready' \in [Procs -> Nat]
        <4>1. CASE open' = [open EXCEPT ![p] = @ + 1] /\ ready' = ready
          BY <2>1, <4>1
        <4>2. CASE ready' = [ready EXCEPT ![p] = @ + 1] /\ open' = open
          BY <2>1, <4>2
        <4> QED BY <3>2, <4>1, <4>2
      <3>4. receivers' \in [Procs -> Nat]
        BY <2>1, <3>2
      <3> QED BY <2>1, <3>1, <3>3, <3>4
    <2>7. ASSUME open[p] > 0, remove_receiver(p)
          PROVE  receivers' \in [Procs -> Nat] /\ checking' \in [Procs -> Nat]
      <3>1. CASE Graph[p].void
        BY <2>1, <2>7, <3>1 DEF remove_receiver
      <3>2. CASE ~Graph[p].void
        <4>1. receivers[p] \in Nat /\ open[p] \in Nat /\ receivers[p] > 0
          BY <2>1, <2>7, <3>2
        <4>2. /\ receivers' = [receivers EXCEPT ![p] = @ - 1]
              /\ checking' = [checking EXCEPT ![p] = @ + (IF receivers[p] = 1 THEN 1 ELSE 0)]
          BY <2>7, <3>2 DEF remove_receiver
        <4>3. receivers' \in [Procs -> Nat]
          BY <2>1, <4>1, <4>2
        <4>4. checking' \in [Procs -> Nat]
          BY <2>1, <4>2
        <4> QED BY <4>3, <4>4
      <3> QED BY <3>1, <3>2
    <2>8. ASSUME SetReady(p) \/ DestroyReceiver(p) PROVE Users
      <3>1. UNCHANGED << made, handles >>
        BY <2>8 DEF SetReady, DestroyReceiver
      <3>2. receivers' \in [Procs -> Nat] /\ checking' \in [Procs -> Nat]
        BY <2>1, <2>7, <2>8 DEF SetReady, DestroyReceiver
      <3>3. open' \in [Procs -> Nat] /\ ready' \in [Procs -> Nat]
        <4>1. CASE SetReady(p)
          BY <2>1, <4>1 DEF SetReady
        <4>2. CASE DestroyReceiver(p)
          <5>1. \/ open[p] > 0 /\ open' = [open EXCEPT ![p] = @ - 1] /\ ready' = ready
                \/ ready[p] > 0 /\ ready' = [ready EXCEPT ![p] = @ - 1] /\ open' = open
            BY <4>2 DEF DestroyReceiver
          <5>2. CASE open[p] > 0 /\ open' = [open EXCEPT ![p] = @ - 1] /\ ready' = ready
            BY <2>1, <5>2
          <5>3. CASE ready[p] > 0 /\ ready' = [ready EXCEPT ![p] = @ - 1] /\ open' = open
            BY <2>1, <5>3
          <5> QED BY <5>1, <5>2, <5>3
        <4> QED BY <2>8, <4>1, <4>2
      <3> QED BY <2>1, <3>1, <3>2, <3>3
    <2>9. ASSUME StartReady(p) PROVE Users /\ Scheduled
      <3>1. Users
        BY <2>1, <2>9 DEF StartReady
      <3> DEFINE doRun == /\ \/ ~Empty(Graph[p].strategy, queue[p]) \/ Graph[p].kind = "source"
                             \/ closeQueue[p]
                          /\ ~running[p]
      <3>2. Schedule(p, doRun) /\ doRun \in BOOLEAN
        BY <2>9 DEF StartReady
      <3> HIDE DEF doRun
      <3> QED BY <1>1, <3>1, <3>2, ScheduleKeeps
    <2> HIDE DEF Users, Senders, Lists, Queues, Scheduled, Suspensions, Finals, Yields, Processes
    <2> QED BY <1>2, <1>3, <2>2, <2>3, <2>4, <2>5, <2>6, <2>8, <2>9
  <1>4. ASSUME NEW p \in Procs, Send(p) PROVE All
    <2>1. UNCHANGED << made, open, ready, checking, receivers, handles, senders, closeQueue, down,
                       suspend, final, delayed, process, timeouts, timeoutActive >>
      BY <1>4 DEF Send, graphVars, procVars, userVars
    <2>2. Queues /\ Scheduled
      <3>1. CASE Alive(p)
        <4>1. PICK x : IsSeq(x) /\ queue' = [queue EXCEPT ![p].items[1] = x]
          BY <1>1, <1>4, <3>1, UserSends
        <4>2. Queues
          BY <1>1, <4>1, QueueWritten
        <4>3. Schedule(p, receivers[p] = 0 /\ ~running[p])
          BY <1>1, <1>4, <3>1, UserSends
        <4> QED BY <1>1, <4>2, <4>3, ScheduleKeeps
      <3>2. CASE ~Alive(p)
        <4>1. UNCHANGED << queue, running, pending >>
          BY <1>4, <3>2 DEF Send, send, flowVars
        <4> QED BY <1>2, <4>1
      <3> QED BY <3>1, <3>2
    <2> HIDE DEF Users, Senders, Lists, Queues, Scheduled, Suspensions, Finals, Yields, Processes
    <2> QED BY <1>2, <2>1, <2>2
  <1>5. ASSUME NEW p \in Procs, CopySender(p) \/ CloseSender(p) \/ AssignSender(p) PROVE All
    <2>1. UNCHANGED << made, open, ready, checking, receivers, down, queue, suspend, final, delayed, process,
                       timeouts, timeoutActive >>
      BY <1>5 DEF CopySender, CloseSender, AssignSender, graphVars, flowVars, procVars, userVars
    <2>2. /\ open \in [Procs -> Nat] /\ ready \in [Procs -> Nat] /\ handles \in [Procs -> Nat]
          /\ checking \in [Procs -> Nat] /\ receivers \in [Procs -> Nat] /\ made \subseteq Procs
          /\ senders \in [Procs -> Nat]
      BY <1>1 DEF Shape
    <2>3. Users
      BY <1>5, <2>1, <2>2 DEF CopySender, CloseSender, AssignSender, graphVars
    <2>4. Senders /\ Scheduled
      <3>1. CASE CopySender(p) \/ AssignSender(p)
        <4>1. UNCHANGED << closeQueue, running, pending >>
          BY <3>1 DEF CopySender, AssignSender, procVars, flowVars
        <4>2. senders' \in [Procs -> Nat]
          BY <2>2, <3>1 DEF CopySender, AssignSender
        <4> QED BY <1>1, <4>1, <4>2 DEF Shape
      <3>2. CASE CloseSender(p) /\ Alive(p)
        <4>1. handles[p] > 0 /\ remove_sender(p)
          BY <3>2 DEF CloseSender
        <4>2. p \in made
          BY <1>1, <2>2, <4>1 DEF Built
        <4>3. senders[p] > 0
          BY <1>1, <3>2, <4>1, <4>2, Wanted
        <4> QED BY <1>1, <4>1, <4>3, ClosingKeeps
      <3>3. CASE CloseSender(p) /\ ~Alive(p)
        <4>1. UNCHANGED << senders, closeQueue, running, pending >>
          BY <3>3 DEF CloseSender
        <4> QED BY <1>2, <4>1
      <3> QED BY <1>5, <3>1, <3>2, <3>3
    <2> HIDE DEF Users, Senders, Lists, Queues, Scheduled, Suspensions, Finals, Yields, Processes
    <2> QED BY <1>2, <2>1, <2>3, <2>4
  <1>6. ASSUME UNCHANGED vars PROVE All
    <2>1. UNCHANGED << made, open, ready, checking, receivers, handles, senders, closeQueue, down,
                       queue, running, pending, suspend, final, delayed, process, timeouts, timeoutActive >>
      BY <1>6 DEF vars, graphVars, flowVars, procVars, userVars
    <2> HIDE DEF Users, Senders, Lists, Queues, Scheduled, Suspensions, Finals, Yields, Processes
    <2> QED BY <1>2, <2>1
  <1>7. ASSUME NEW p \in Procs, Expires(p) PROVE All
    <2>1. UNCHANGED << made, open, ready, checking, receivers, handles, senders, closeQueue, down,
                       queue, running, suspend, final, process, timeouts, timeoutActive >>
      BY <1>7 DEF Expires, graphVars, procVars
    <2>2. Scheduled /\ Yields
      BY <1>1, <1>7 DEF Expires, Shape
    <2> HIDE DEF Users, Senders, Lists, Queues, Scheduled, Suspensions, Finals, Yields, Processes
    <2> QED BY <1>2, <2>1, <2>2
  <1>8. ASSUME NEW w \in Workers,
               Skips(w) \/ Looks(w) \/ Rereads(w) \/ Releases(w) \/ Suspended(w) \/ Rests(w)
        PROVE  All
    <2>1. UNCHANGED << made, open, ready, checking, receivers, handles, senders, closeQueue, down,
                       queue, final, delayed, process, timeouts, timeoutActive >>
      BY <1>8 DEF Skips, Looks, Rereads, Releases, Suspended, Rests, graphVars, flowVars, procVars, userVars
    <2>2. /\ suspend \in [Procs -> Nat] /\ pending \in [Procs -> Nat] /\ running \in [Procs -> BOOLEAN]
      BY <1>1 DEF Shape
    <2>3. CASE Skips(w) \/ Looks(w) \/ Rereads(w)
      <3>1. UNCHANGED << running, pending, suspend >>
        BY <2>3 DEF Skips, Looks, Rereads, flowVars, procVars
      <3> HIDE DEF Users, Senders, Lists, Queues, Scheduled, Suspensions, Finals, Yields, Processes
      <3> QED BY <1>2, <2>1, <3>1
    <2>4. CASE Releases(w)
      <3>1. PICK u, yields : clear_to_send(u, yields)
        BY <2>4 DEF Releases
      <3> DEFINE left == IF suspend[u] > 0 THEN suspend[u] - 1 ELSE 0
                 doRun == yields \/ ~Empty(Graph[u].strategy, queue[u]) \/ closeQueue[u]
      <3>2. /\ suspend' = [suspend EXCEPT ![u] = left]
            /\ running' = [running EXCEPT ![u] = IF left = 0 /\ ~doRun THEN FALSE ELSE @]
            /\ pending' = [pending EXCEPT ![u] = @ + (IF left = 0 /\ doRun THEN 1 ELSE 0)]
        BY <3>1 DEF clear_to_send
      <3>3. u \in Procs => left \in Nat
        BY <2>2
      <3> HIDE DEF left, doRun
      <3>4. Suspensions
        BY <2>2, <3>2, <3>3
      <3>5. running' \in [Procs -> BOOLEAN]
        BY <2>2, <3>2
      <3>6. pending' \in [Procs -> Nat]
        <4> DEFINE add == IF left = 0 /\ doRun THEN 1 ELSE 0
        <4>1. pending' = [pending EXCEPT ![u] = @ + add] /\ add \in Nat
          BY <3>2
        <4> HIDE DEF add
        <4>2. pending' = [q \in Procs |-> pending'[q]]
          BY <2>2, <4>1
        <4>3. \A q \in Procs : pending'[q] = pending[q] \/ pending'[q] = pending[q] + add
          BY <2>2, <4>1
        <4>4. \A q \in Procs : pending'[q] \in Nat
          BY <2>2, <4>1, <4>3
        <4> QED BY <4>2, <4>4
      <3>7. Scheduled
        BY <3>5, <3>6
      <3> HIDE DEF Users, Senders, Lists, Queues, Scheduled, Suspensions, Finals, Yields, Processes
      <3> QED BY <1>2, <2>1, <3>4, <3>7
    <2>5. CASE Suspended(w)
      <3>1. UNCHANGED << running, pending >> /\ Works(w)
            /\ suspend' = [suspend EXCEPT ![job[w].p] = IF job[w].low THEN job[w].n + 1 ELSE 1]
        BY <2>5 DEF Suspended, flowVars
      <3>2. job[w].n \in Nat
        BY <1>1, <3>1 DEF Shape, IsJob
      <3>3. Suspensions
        <4> DEFINE n == IF job[w].low THEN job[w].n + 1 ELSE 1
        <4>1. suspend' = [suspend EXCEPT ![job[w].p] = n] /\ n \in Nat
          BY <3>1, <3>2
        <4> HIDE DEF n
        <4> QED BY <2>2, <4>1
      <3> HIDE DEF Users, Senders, Lists, Queues, Scheduled, Suspensions, Finals, Yields, Processes
      <3> QED BY <1>2, <2>1, <3>1, <3>3
    <2>6. CASE Rests(w)
      <3> DEFINE p == job[w].p
                 doRun == ~Empty(Graph[p].strategy, queue[p]) \/ closeQueue[p]
      <3>1. /\ UNCHANGED suspend
            /\ running' = [running EXCEPT ![p] = doRun]
            /\ pending' = [pending EXCEPT ![p] = @ + (IF doRun THEN 1 ELSE 0)]
        BY <2>6 DEF Rests, procVars
      <3>2. p \in Procs => doRun \in BOOLEAN
        BY <1>1 DEF Shape
      <3> HIDE DEF p, doRun
      <3>3. running' \in [Procs -> BOOLEAN]
        BY <2>2, <3>1, <3>2
      <3>4. pending' \in [Procs -> Nat]
        <4> DEFINE add == IF doRun THEN 1 ELSE 0
        <4>1. pending' = [pending EXCEPT ![p] = @ + add] /\ add \in Nat
          BY <3>1
        <4> HIDE DEF add
        <4>2. pending' = [q \in Procs |-> pending'[q]]
          BY <2>2, <4>1
        <4>3. \A q \in Procs : pending'[q] = pending[q] \/ pending'[q] = pending[q] + add
          BY <2>2, <4>1
        <4>4. \A q \in Procs : pending'[q] \in Nat
          BY <2>2, <4>1, <4>3
        <4> QED BY <4>2, <4>4
      <3>5. Scheduled
        BY <3>3, <3>4
      <3> HIDE DEF Users, Senders, Lists, Queues, Scheduled, Suspensions, Finals, Yields, Processes
      <3> QED BY <1>2, <2>1, <3>1, <3>5
    <2> QED BY <1>8, <2>3, <2>4, <2>5, <2>6
  <1>9. ASSUME NEW w \in Workers, Sends(w) PROVE All
    <2>1. UNCHANGED << made, open, ready, checking, receivers, handles, senders, closeQueue, down,
                       suspend, final, delayed, process, timeouts, timeoutActive >>
      BY <1>9 DEF Sends, graphVars, procVars, userVars
    <2>2. PICK d : /\ d[1] \in Procs
                   /\ \/ /\ queue' = [queue EXCEPT ![d[1]].items[d[2]] = Append(<< >>, job[w].out)]
                         /\ Schedule(d[1], receivers[d[1]] = 0 /\ ~running[d[1]])
                      \/ UNCHANGED << queue, running, pending >>
      <3> DEFINE d == down[job[w].p][job[w].k]
      <3>1. d[1] \in Procs /\ (IF Alive(d[1])
               THEN /\ queue' = [queue EXCEPT ![d[1]].items[d[2]] = Append(<< >>, job[w].out)]
                    /\ Schedule(d[1], receivers[d[1]] = 0 /\ ~running[d[1]])
               ELSE UNCHANGED << queue, running, pending >>)
        BY <1>1, <1>9, Sending DEF Shape
      <3> HIDE DEF d
      <3> QED BY <3>1
    <2>3. CASE UNCHANGED << queue, running, pending >>
      <3> HIDE DEF Users, Senders, Lists, Queues, Scheduled, Suspensions, Finals, Yields, Processes
      <3> QED BY <1>2, <2>1, <2>3
    <2>4. CASE /\ queue' = [queue EXCEPT ![d[1]].items[d[2]] = Append(<< >>, job[w].out)]
               /\ Schedule(d[1], receivers[d[1]] = 0 /\ ~running[d[1]])
      <3>1. IsSeq(<< >>) /\ IsSeq(Append(<< >>, job[w].out))
        <4>1. IsSeq(<< >>)
          BY DEF IsSeq
        <4> QED BY <4>1, SeqOps
      <3>2. Queues
        BY <1>1, <2>2, <2>4, <3>1, QueueWritten
      <3>3. Scheduled
        BY <1>1, <2>2, <2>4, ScheduleKeeps
      <3> HIDE DEF Users, Senders, Lists, Queues, Scheduled, Suspensions, Finals, Yields, Processes
      <3> QED BY <1>2, <2>1, <3>2, <3>3
    <2> QED BY <2>2, <2>3, <2>4
  <1>10. ASSUME NEW w \in Workers, Closes(w) PROVE All
    <2> DEFINE p == job[w].p
               q == Head(down[p])[1]
    <2>1. UNCHANGED << made, open, ready, checking, receivers, handles, queue,
                       suspend, final, delayed, process, timeouts, timeoutActive >>
      BY <1>10 DEF Closes, graphVars, userVars
    <2>2. /\ Works(w) /\ down[p] # << >> /\ down' = [down EXCEPT ![p] = Tail(@)]
          /\ IF Alive(q) THEN remove_sender(q) ELSE UNCHANGED << senders, closeQueue, running, pending >>
      BY <1>10 DEF Closes
    <2>3. p \in Procs /\ down \in [Procs -> Seq(Procs \X Nat)]
      BY <1>1, <2>2 DEF Shape, IsJob
    <2>4. 1 \in DOMAIN down[p] /\ Head(down[p]) = down[p][1]
      BY <2>2, <2>3
    <2>5. Lists
      <3> DEFINE T == Procs \X Nat
      <3>1. down \in [Procs -> Seq(T)]
        BY <2>3
      <3> HIDE DEF T
      <3>2. Tail(down[p]) \in Seq(T)
        BY <2>2, <2>3, <3>1
      <3>3. down' \in [Procs -> Seq(T)]
        BY <2>2, <3>1, <3>2
      <3> QED BY <3>3 DEF T
    <2>6. Senders /\ Scheduled
      <3>1. CASE Alive(q)
        <4>1. q \in Procs /\ senders[q] > 0
          BY <1>1, <2>3, <2>4, <3>1, WantedDown
        <4>2. remove_sender(q)
          BY <2>2, <3>1
        <4> HIDE DEF q
        <4> QED BY <1>1, <4>1, <4>2, ClosingKeeps
      <3>2. CASE ~Alive(q)
        BY <1>2, <2>2, <3>2
      <3> QED BY <3>1, <3>2
    <2> HIDE DEF Users, Senders, Lists, Queues, Scheduled, Suspensions, Finals, Yields, Processes
    <2> QED BY <1>2, <2>1, <2>5, <2>6
  <1>11. ASSUME NEW w \in Workers, NEW p \in Procs, Takes(w, p)
         PROVE  Queues /\ Finals /\ closeQueue' \in [Procs -> BOOLEAN]
    <2>1. final \in [Procs -> BOOLEAN] /\ closeQueue \in [Procs -> BOOLEAN]
      BY <1>1 DEF Shape
    <2>2. CASE Empty(Graph[p].strategy, queue[p])
      <3>1. /\ UNCHANGED queue /\ final' = [final EXCEPT ![p] = closeQueue[p]]
            /\ closeQueue' = [closeQueue EXCEPT ![p] = FALSE]
        BY <1>11, <2>2 DEF Takes
      <3>2. Finals
        BY <2>1, <3>1
      <3>3. closeQueue' \in [Procs -> BOOLEAN]
        BY <2>1, <3>1
      <3> HIDE DEF Users, Senders, Lists, Queues, Scheduled, Suspensions, Finals, Yields, Processes
      <3> QED BY <1>2, <3>1, <3>2, <3>3
    <2>3. CASE ~Empty(Graph[p].strategy, queue[p])
      <3>1. /\ UNCHANGED << final, closeQueue >>
            /\ queue' = [queue EXCEPT ![p] = PopFront(Graph[p].strategy, queue[p])]
        BY <1>11, <2>3 DEF Takes
      <3>2. Queues
        BY <1>1, <2>3, <3>1, QueuePopped
      <3> QED BY <2>1, <3>1, <3>2
    <2> QED BY <2>2, <2>3
  <1>12. ASSUME NEW w \in Workers, Reads(w) PROVE All
    <2>1. UNCHANGED << made, open, ready, checking, receivers, handles, senders, down, running, pending,
                       suspend, delayed, process, timeouts, timeoutActive >>
      BY <1>12 DEF Reads, graphVars, userVars
    <2>2. Takes(w, job[w].p) /\ job[w].p \in Procs
      BY <1>1, <1>12 DEF Reads, Shape, IsJob
    <2>3. Queues /\ Finals /\ closeQueue' \in [Procs -> BOOLEAN]
      BY <1>11, <2>2
    <2>4. Senders
      BY <1>1, <2>1, <2>3 DEF Shape
    <2> HIDE DEF Users, Senders, Lists, Queues, Scheduled, Suspensions, Finals, Yields, Processes
    <2> QED BY <1>2, <2>1, <2>3, <2>4
  <1>13. ASSUME NEW w \in Workers, NEW p \in Procs, Starts(w, p) PROVE All
    <2>1. UNCHANGED << made, open, ready, checking, receivers, handles, senders, down, running,
                       suspend, delayed, process, timeouts, timeoutActive >>
      BY <1>13 DEF Starts, graphVars, userVars
    <2>2. pending[p] > 0 /\ pending' = [pending EXCEPT ![p] = @ - 1] /\ pending \in [Procs -> Nat]
      BY <1>1, <1>13 DEF Starts, Shape
    <2>3. pending' \in [Procs -> Nat]
      BY <2>2
    <2>4. Queues /\ Finals /\ closeQueue' \in [Procs -> BOOLEAN]
      <3>1. CASE Takes(w, p)
        BY <1>11, <3>1
      <3>2. CASE ~Takes(w, p)
        <4>1. UNCHANGED << queue, final, closeQueue >>
          BY <1>13, <3>2 DEF Starts
        <4>2. closeQueue' \in [Procs -> BOOLEAN]
          BY <1>1, <4>1 DEF Shape
        <4> HIDE DEF Users, Senders, Lists, Queues, Scheduled, Suspensions, Finals, Yields, Processes
        <4> QED BY <1>2, <4>1, <4>2
      <3> QED BY <3>1, <3>2
    <2>5. Senders /\ Scheduled
      BY <1>1, <2>1, <2>3, <2>4 DEF Shape
    <2> HIDE DEF Users, Senders, Lists, Queues, Scheduled, Suspensions, Finals, Yields, Processes
    <2> QED BY <1>2, <2>1, <2>4, <2>5
  <1>14. ASSUME NEW p \in Procs, Keeps(p) PROVE Processes
    BY <1>1, <1>14 DEF Shape, Keeps
  <1>15. ASSUME NEW w \in Workers, Finishes(w) \/ Thinks(w) PROVE All
    <2>1. UNCHANGED << made, open, ready, checking, receivers, handles, senders, closeQueue, down, running,
                       pending, queue, suspend, final, timeouts, timeoutActive >>
      BY <1>15 DEF Finishes, Thinks, graphVars, flowVars, procVars
    <2>2. job[w].p \in Procs /\ delayed \in [Procs -> Nat]
      BY <1>1, <1>15 DEF Finishes, Thinks, Shape, IsJob
    <2>3. Processes
      <3>1. CASE Thinks(w)
        <4>1. Keeps(job[w].p)
          BY <3>1 DEF Thinks
        <4> QED BY <1>14, <2>2, <4>1
      <3>2. CASE Finishes(w)
        <4>1. process' = [process EXCEPT ![job[w].p] = Reset]
          BY <3>2 DEF Finishes
        <4>2. IsProcess(Reset)
          BY DEF IsProcess, Reset
        <4>3. process = [p \in Procs |-> process[p]] /\ \A p \in Procs : IsProcess(process[p])
          BY <1>1 DEF Shape
        <4> QED BY <4>1, <4>2, <4>3
      <3> QED BY <1>15, <3>1, <3>2
    <2>4. Yields
      <3>1. delayed' = delayed \/ delayed' = [delayed EXCEPT ![job[w].p] = @ + 1]
        BY <1>15 DEF Finishes, Thinks
      <3> QED BY <2>2, <3>1
    <2> HIDE DEF Users, Senders, Lists, Queues, Scheduled, Suspensions, Finals, Yields, Processes
    <2> QED BY <1>2, <2>1, <2>3, <2>4
  <1>16. ASSUME NEW w \in Workers, NEW p \in Procs, Delays(w, p) PROVE All
    <2>1. UNCHANGED << made, open, ready, checking, receivers, handles, senders, closeQueue, down, running,
                       pending, queue, suspend, final, timeouts, timeoutActive >>
      BY <1>16 DEF Delays, graphVars, flowVars, procVars
    <2>2. /\ delayed[p] > 0 /\ delayed' = [delayed EXCEPT ![p] = @ - 1] /\ delayed \in [Procs -> Nat]
          /\ UNCHANGED process \/ Keeps(p)
      BY <1>1, <1>16 DEF Delays, Shape
    <2>3. Yields
      BY <2>2
    <2>4. Processes
      <3> HIDE DEF Processes
      <3> QED BY <1>2, <1>14, <2>2
    <2> HIDE DEF Users, Senders, Lists, Queues, Scheduled, Suspensions, Finals, Yields, Processes
    <2> QED BY <1>2, <2>1, <2>3, <2>4
  <1> HIDE DEF All
  <1>17. All
    BY <1>1, <1>3, <1>4, <1>5, <1>6, <1>7, <1>8, <1>9, <1>10, <1>12, <1>13, <1>15, <1>16
       DEF Flat, UserNext, Runs
  <1>18. /\ \A p \in Procs : timeouts'[p] = 0 /\ ~timeoutActive'[p]
         /\ timeouts' \in [Procs -> Nat] /\ timeoutActive' \in [Procs -> BOOLEAN]
    BY <1>1, <1>17 DEF All, Shape
  <1>19. graph' \in DOMAIN Graphs /\ Procs' = Procs
    BY <1>1, Frame DEF Shape
  <1>20. /\ job' = [w \in Workers |-> job'[w]]
         /\ \A w \in Workers : Works(w)' => IsJob(job[w])'
    BY <1>1, <1>19 DEF JobsKeep, IsJob
  <1> HIDE DEF Processes
  <1>21. process' = [p \in Procs |-> process'[p]] /\ \A p \in Procs : IsProcess(process'[p])
    BY <1>17 DEF All, Processes
  <1> QED BY <1>17, <1>18, <1>19, <1>20, <1>21 DEF All, Shape

\* Nothing is scheduled or queued for a process that is not made.
LEMMA UnmadeStay ==
    ASSUME Plain, CInv, [Next]_vars
    PROVE  /\ made \subseteq made'
           /\ \A p \in Procs \ made' :
                /\ open'[p] = 0 /\ ready'[p] = 0 /\ checking'[p] = 0 /\ handles'[p] = 0
                /\ pending'[p] = 0 /\ delayed'[p] = 0
                /\ \A i \in DOMAIN Up(p) : queue'[p].items[i] = << >>
  <1>1. graph' = graph /\ Flat /\ Shape /\ Built /\ Jobs /\ Rights /\ Suspension
    BY GraphStays DEF CInv
  <1>2. /\ open \in [Procs -> Nat] /\ ready \in [Procs -> Nat] /\ checking \in [Procs -> Nat]
        /\ handles \in [Procs -> Nat] /\ pending \in [Procs -> Nat] /\ delayed \in [Procs -> Nat]
        /\ made \subseteq Procs
    BY <1>1 DEF Shape
  <1>3. \A p \in Procs \ made :
          /\ open[p] = 0 /\ ready[p] = 0 /\ checking[p] = 0 /\ handles[p] = 0
          /\ pending[p] = 0 /\ delayed[p] = 0
          /\ \A i \in DOMAIN Up(p) : queue[p].items[i] = << >>
    BY <1>1 DEF Built
  <1> DEFINE Users == /\ made \subseteq made'
                      /\ \A p \in Procs \ made' :
                           open'[p] = 0 /\ ready'[p] = 0 /\ checking'[p] = 0 /\ handles'[p] = 0
             Scheduled == \A p \in Procs \ made : pending'[p] = 0 /\ delayed'[p] = 0
  <1>4. UNCHANGED << made, open, ready, checking, handles >> => Users
    BY <1>3
  <1>5. UNCHANGED << pending, delayed >> => Scheduled
    BY <1>3
  <1>6. ASSUME NEW p \in made, NEW doRun, Schedule(p, doRun), UNCHANGED delayed PROVE Scheduled
    BY <1>2, <1>3, <1>6 DEF Schedule
  <1>7. ASSUME NEW p \in Procs,
               \/ Attach(p) \/ CopyReceiver(p) \/ SetReady(p) \/ DestroyReceiver(p)
        PROVE  Users /\ Scheduled
    <2>1. UNCHANGED << pending, delayed, handles >>
      BY <1>7 DEF Attach, CopyReceiver, SetReady, DestroyReceiver, flowVars, userVars
    <2>2. CASE Attach(p)
      <3>1. /\ made' = made \cup {p} /\ open' = [open EXCEPT ![p] = 1]
            /\ UNCHANGED << ready, handles, checking >>
        BY <2>2 DEF Attach
      <3>2. Users
        BY <1>2, <1>3, <3>1
      <3> QED BY <1>5, <2>1, <3>2
    <2>3. CASE ~Attach(p)
      <3>1. made' = made /\ p \in made
        BY <1>2, <1>3, <1>7, <2>3 DEF CopyReceiver, SetReady, DestroyReceiver
      <3>2. \A q \in Procs : q # p =>
              open'[q] = open[q] /\ ready'[q] = ready[q] /\ checking'[q] = checking[q]
        <4>1. CASE CopyReceiver(p)
          BY <1>2, <4>1 DEF CopyReceiver
        <4>2. CASE SetReady(p)
          BY <1>2, <4>2 DEF SetReady, remove_receiver
        <4>3. CASE DestroyReceiver(p)
          BY <1>2, <4>3 DEF DestroyReceiver, remove_receiver
        <4> QED BY <1>7, <2>3, <4>1, <4>2, <4>3
      <3>3. Users
        BY <1>3, <2>1, <3>1, <3>2
      <3> QED BY <1>5, <2>1, <3>3
    <2> QED BY <2>2, <2>3
  <1>8. ASSUME NEW p \in Procs, StartReady(p) PROVE Users /\ Scheduled
    <2>1. checking[p] > 0 /\ checking' = [checking EXCEPT ![p] = @ - 1]
          /\ UNCHANGED << made, open, ready, handles, delayed >>
      BY <1>8 DEF StartReady, userVars
    <2>2. p \in made
      BY <1>2, <1>3, <2>1
    <2>3. Users
      BY <1>2, <1>3, <2>1, <2>2
    <2>4. \E doRun : Schedule(p, doRun)
      BY <1>8 DEF StartReady
    <2> HIDE DEF Users, Scheduled
    <2> QED BY <1>6, <2>1, <2>2, <2>3, <2>4
  <1>9. ASSUME NEW p \in Procs, Send(p) PROVE Users /\ Scheduled
    <2>1. handles[p] > 0 /\ UNCHANGED << made, open, ready, checking, handles, delayed >>
      BY <1>9 DEF Send, graphVars, userVars
    <2>2. p \in made
      BY <1>2, <1>3, <2>1
    <2>3. (\E doRun : Schedule(p, doRun)) \/ UNCHANGED pending
      BY <1>9 DEF Send, send, enqueue, flowVars
    <2> HIDE DEF Users, Scheduled
    <2> QED BY <1>4, <1>5, <1>6, <2>1, <2>2, <2>3
  <1>10. ASSUME NEW p \in made, remove_sender(p), UNCHANGED delayed PROVE Scheduled
    <2>1. (\E doRun : Schedule(p, doRun)) \/ UNCHANGED pending
      BY <1>10 DEF remove_sender
    <2> HIDE DEF Scheduled
    <2> QED BY <1>5, <1>6, <1>10, <2>1
  <1>11. ASSUME NEW p \in Procs, CopySender(p) \/ CloseSender(p) \/ AssignSender(p)
         PROVE  Users /\ Scheduled
    <2>1. /\ UNCHANGED << made, open, ready, checking, delayed >>
          /\ CloseSender(p) => handles[p] > 0 /\ handles' = [handles EXCEPT ![p] = @ - 1]
          /\ CopySender(p) => handles[p] > 0 /\ handles' = [handles EXCEPT ![p] = @ + 1]
          /\ AssignSender(p) => handles' = handles
      BY <1>2, <1>11 DEF CopySender, CloseSender, AssignSender, graphVars, userVars
    <2>2. handles[p] > 0 => p \in made
      BY <1>2, <1>3
    <2>3. Users
      BY <1>2, <1>3, <1>11, <2>1, <2>2
    <2>4. (remove_sender(p) /\ p \in made) \/ UNCHANGED pending
      BY <1>11, <2>1, <2>2 DEF CopySender, CloseSender, AssignSender, flowVars
    <2> HIDE DEF Users, Scheduled
    <2> QED BY <1>5, <1>10, <2>1, <2>3, <2>4
  <1>12. ASSUME NEW w \in Workers, Runs(w) PROVE Users
    <2>1. UNCHANGED << made, open, ready, checking, handles >>
      BY <1>1, <1>12, JobStays DEF graphVars
    <2> QED BY <1>4, <2>1
  <1>13. ASSUME NEW w \in Workers, Works(w) PROVE job[w].p \in made
    BY <1>1, <1>13 DEF Built
  <1>14. ASSUME NEW w \in Workers,
                \/ Skips(w) \/ Looks(w) \/ Rereads(w) \/ Suspended(w) \/ Finishes(w) \/ Reads(w)
         PROVE  Scheduled
    <2>1. UNCHANGED << pending, delayed >>
      BY <1>14 DEF Skips, Looks, Rereads, Suspended, Finishes, Reads, flowVars, userVars
    <2> QED BY <1>5, <2>1
  <1>15. ASSUME NEW w \in Workers, Releases(w) PROVE Scheduled
    <2> DEFINE u == Head(job[w].cts)
    <2>1. /\ Works(w) /\ job[w].pc \in Clearing /\ UNCHANGED delayed
          /\ \E doRun : pending' = [pending EXCEPT ![u] = @ + (IF doRun THEN 1 ELSE 0)]
      BY <1>15 DEF Releases, clear_to_send, Clearing, userVars
    <2>2. u \in made
      <3>1. CASE job[w].then = "apply"
        BY <1>1, <2>1, <3>1, Telling
      <3>2. CASE job[w].then # "apply"
        BY <1>1, <1>13, <2>1, <3>2, TellingSelf
      <3> QED BY <3>1, <3>2
    <2> HIDE DEF u
    <2> QED BY <1>2, <1>3, <2>1, <2>2
  <1>16. ASSUME NEW w \in Workers, Sends(w) PROVE Scheduled
    <2> DEFINE d == down[job[w].p][job[w].k]
    <2>1. d[1] \in made /\ ((\E doRun : Schedule(d[1], doRun)) \/ UNCHANGED pending)
      BY <1>1, <1>16, Sending
    <2>2. UNCHANGED delayed
      BY <1>16 DEF Sends, userVars
    <2> HIDE DEF d, Scheduled
    <2> QED BY <1>5, <1>6, <2>1, <2>2
  <1>17. ASSUME NEW w \in Workers, Rests(w) \/ Thinks(w) PROVE Scheduled
    <2>1. job[w].p \in made
      BY <1>13, <1>17 DEF Rests, Thinks
    <2> DEFINE p == job[w].p
    <2>2. \/ pending' = [pending EXCEPT ![p] = pending'[p]] /\ UNCHANGED delayed
          \/ delayed' = [delayed EXCEPT ![p] = delayed'[p]] /\ UNCHANGED pending
          \/ UNCHANGED << pending, delayed >>
      <3>1. CASE Rests(w)
        <4>1. UNCHANGED delayed /\ \E x : pending' = [pending EXCEPT ![p] = x]
          BY <3>1 DEF Rests, userVars
        <4> HIDE DEF p
        <4> QED BY <1>2, <4>1
      <3>2. CASE Thinks(w)
        <4>1. UNCHANGED pending /\ (UNCHANGED delayed \/ \E x : delayed' = [delayed EXCEPT ![p] = x])
          BY <3>2 DEF Thinks, flowVars
        <4> HIDE DEF p
        <4> QED BY <1>2, <4>1
      <3> QED BY <1>17, <3>1, <3>2
    <2> HIDE DEF p
    <2>3. \A q \in Procs : q # p => pending'[q] = pending[q] /\ delayed'[q] = delayed[q]
      BY <1>2, <2>2
    <2>4. p \in made
      BY <2>1 DEF p
    <2> QED BY <1>3, <2>3, <2>4
  <1>18. ASSUME NEW w \in Workers, Closes(w) PROVE Scheduled
    <2> DEFINE p == job[w].p
               q == Head(down[p])[1]
    <2>1. /\ Works(w) /\ down[p] # << >> /\ UNCHANGED delayed
          /\ IF Alive(q) THEN remove_sender(q) ELSE UNCHANGED pending
      BY <1>18 DEF Closes, userVars
    <2>2. p \in Procs /\ down[p] \in Seq(Procs \X Nat)
      BY <1>1, <2>1 DEF Shape, IsJob
    <2>3. 1 \in DOMAIN down[p] /\ Head(down[p]) = down[p][1]
      BY <2>1, <2>2
    <2>4. q \in made
      BY <1>1, <2>2, <2>3 DEF Built
    <2> HIDE DEF q, Scheduled
    <2> QED BY <1>5, <1>10, <2>1, <2>4
  <1>19. ASSUME NEW w \in Workers, NEW p \in Procs, Starts(w, p) PROVE Scheduled
    <2>1. /\ pending[p] > 0 /\ pending' = [pending EXCEPT ![p] = @ - 1] /\ UNCHANGED delayed
      BY <1>19 DEF Starts, userVars
    <2>2. p \in made
      BY <1>2, <1>3, <2>1
    <2> QED BY <1>2, <1>3, <2>1, <2>2
  <1>20. ASSUME NEW w \in Workers, NEW p \in Procs, Delays(w, p) PROVE Scheduled
    <2>1. /\ delayed[p] > 0 /\ delayed' = [delayed EXCEPT ![p] = @ - 1] /\ UNCHANGED pending
      BY <1>20 DEF Delays, flowVars
    <2>2. p \in made
      BY <1>2, <1>3, <2>1
    <2> QED BY <1>2, <1>3, <2>1, <2>2
  <1>21. ASSUME NEW p \in Procs, Expires(p) PROVE Users /\ Scheduled
    <2>1. /\ UNCHANGED << made, open, ready, checking, handles >>
          /\ pending' = [pending EXCEPT ![p] = 0] /\ delayed' = [delayed EXCEPT ![p] = 0]
      BY <1>21 DEF Expires, graphVars
    <2> QED BY <1>2, <1>3, <1>4, <2>1
  <1>22. ASSUME UNCHANGED vars PROVE Users /\ Scheduled
    BY <1>4, <1>5, <1>22 DEF vars, graphVars, flowVars, userVars
  <1> HIDE DEF Users, Scheduled
  <1>23. Users /\ Scheduled
    BY <1>1, <1>7, <1>8, <1>9, <1>11, <1>12, <1>14, <1>15, <1>16, <1>17, <1>18, <1>19, <1>20,
       <1>21, <1>22 DEF Flat, UserNext, Runs
  <1>24. ASSUME NEW p \in Procs \ made, NEW i \in DOMAIN Up(p) PROVE queue'[p].items[i] = << >>
    <2>1. queue[p].items[i] = << >>
      BY <1>3
    <2>2. CASE \A w \in Workers : ~Sends(w)
      BY <1>1, <2>1, <2>2, QueuesShrink
    <2>3. ASSUME NEW w \in Workers, Sends(w) PROVE queue'[p].items[i] = << >>
      <3> DEFINE d == down[job[w].p][job[w].k]
      <3>1. /\ d[1] \in made
            /\ \/ queue' = [queue EXCEPT ![d[1]].items[d[2]] = Append(<< >>, job[w].out)]
               \/ UNCHANGED queue
        BY <1>1, <2>3, Sending
      <3> HIDE DEF d
      <3>2. CASE UNCHANGED queue
        BY <2>1, <3>2
      <3>3. CASE queue' = [queue EXCEPT ![d[1]].items[d[2]] = Append(<< >>, job[w].out)]
        BY <1>1, <2>1, <3>1, <3>3, Appended
      <3> QED BY <3>1, <3>2, <3>3
    <2> QED BY <2>2, <2>3
  <1> QED BY <1>23, <1>24 DEF Users, Scheduled

LEMMA BuiltStep ==
    ASSUME Plain, CInv, [Next]_vars PROVE Built'
  <1>1. graph' = graph /\ Flat /\ Shape /\ Built /\ Jobs
    BY GraphStays DEF CInv
  <1>2. /\ made \subseteq made'
        /\ \A p \in Procs \ made' :
             /\ open'[p] = 0 /\ ready'[p] = 0 /\ checking'[p] = 0 /\ handles'[p] = 0
             /\ pending'[p] = 0 /\ delayed'[p] = 0
             /\ \A i \in DOMAIN Up(p) : queue'[p].items[i] = << >>
    BY UnmadeStay
  <1>3. /\ made \subseteq Procs /\ handles \in [Procs -> Nat] /\ graph \in DOMAIN Graphs
        /\ pending \in [Procs -> Nat] /\ delayed \in [Procs -> Nat]
        /\ down \in [Procs -> Seq(Procs \X Nat)]
    BY <1>1 DEF Shape
  <1> DEFINE Heirs == /\ \A p \in Procs : handles'[p] > 0 => Up(p) = << >>
                      /\ \A p \in made' : \A i \in DOMAIN Up(p) : Up(p)[i] \in made'
             Jobbed == \A w \in Workers : Works(w)' => job'[w].p \in made'
             Listed == /\ \A u \in Procs : \A k \in DOMAIN down'[u] :
                            LET d == down'[u][k]
                            IN  d[1] \in made' /\ d[2] \in DOMAIN Up(d[1]) /\ Up(d[1])[d[2]] = u
                       /\ \A u \in Procs : \A k, h \in DOMAIN down'[u] :
                            down'[u][k][1] = down'[u][h][1] => k = h
                       /\ \A u \in Procs : Graph[u].moveOnly => Len(down'[u]) <= 1
  <1>4. /\ UNCHANGED << made, handles >> => Heirs
        /\ UNCHANGED down => Listed
        /\ UNCHANGED job => Jobbed
    <2>1. UNCHANGED << made, handles >> => Heirs
      BY <1>1 DEF Built
    <2>2. UNCHANGED down => Listed
      BY <1>1, <1>2 DEF Built
    <2>3. UNCHANGED job => Jobbed
      BY <1>1, <1>2 DEF Built, Works
    <2> HIDE DEF Heirs, Listed, Jobbed
    <2> QED BY <2>1, <2>2, <2>3
  <1>5. ASSUME NEW p \in Procs, Attach(p) PROVE Heirs /\ Listed /\ Jobbed
    <2>1. /\ p \notin made /\ made' = made \cup {p} /\ UNCHANGED << handles, job >>
          /\ \A i \in DOMAIN Up(p) : Up(p)[i] \in made
          /\ down' = [u \in Procs |-> IF \E i \in DOMAIN Up(p) : Up(p)[i] = u
                                      THEN append_receiver(u, << p, ArgumentFrom(p, u) >>)
                                      ELSE down[u]]
      BY <1>5 DEF Attach
    <2>2. Heirs
      BY <1>1, <2>1 DEF Built
    <2>3. ASSUME NEW u \in Procs
          PROVE  /\ \A k \in DOMAIN down'[u] :
                      LET d == down'[u][k]
                      IN  d[1] \in made' /\ d[2] \in DOMAIN Up(d[1]) /\ Up(d[1])[d[2]] = u
                 /\ \A k, h \in DOMAIN down'[u] : down'[u][k][1] = down'[u][h][1] => k = h
                 /\ Graph[u].moveOnly => Len(down'[u]) <= 1
      <3>1. /\ \A k \in DOMAIN down[u] :
                 LET d == down[u][k]
                 IN  d[1] \in made /\ d[2] \in DOMAIN Up(d[1]) /\ Up(d[1])[d[2]] = u
            /\ \A k, h \in DOMAIN down[u] : down[u][k][1] = down[u][h][1] => k = h
            /\ Graph[u].moveOnly => Len(down[u]) <= 1
        BY <1>1 DEF Built
      <3>2. CASE \E i \in DOMAIN Up(p) : Up(p)[i] = u
        <4> DEFINE a == ArgumentFrom(p, u)
                   s == << p, a >>
                   T == (Procs \X Nat) \cup {s}
        <4>1. a \in DOMAIN Up(p) /\ Up(p)[a] = u
          BY <3>2 DEF ArgumentFrom
        <4> HIDE DEF a
        <4>2. s[1] = p /\ s[2] = a
          OBVIOUS
        <4>3. down[u] \in Seq(T) /\ s \in T
          BY <1>3, SeqMonotonic
        <4> HIDE DEF T, s
        <4>4. \/ Graph[u].moveOnly /\ down'[u] = << s >>
              \/ ~Graph[u].moveOnly /\ down'[u] = Append(down[u], s)
          BY <2>1, <3>2 DEF append_receiver, s, a
        <4>5. CASE down'[u] = << s >>
          <5>1. DOMAIN down'[u] = {1} /\ down'[u][1] = s /\ Len(down'[u]) = 1
            BY <4>5
          <5> QED BY <2>1, <4>1, <4>2, <5>1
        <4>6. CASE ~Graph[u].moveOnly /\ down'[u] = Append(down[u], s)
          <5> DEFINE n == Len(down[u])
          <5>1. /\ DOMAIN down'[u] = 1..(n + 1) /\ n \in Nat /\ DOMAIN down[u] = 1..n
                /\ \A h \in 1..n : down'[u][h] = down[u][h]
                /\ down'[u][n + 1] = s
            BY <4>3, <4>6
          <5> HIDE DEF n
          <5>2. \A k \in 1..n : down[u][k][1] # p
            BY <2>1, <3>1, <5>1
          <5>3. ASSUME NEW k \in DOMAIN down'[u]
                PROVE  LET d == down'[u][k]
                       IN  d[1] \in made' /\ d[2] \in DOMAIN Up(d[1]) /\ Up(d[1])[d[2]] = u
            <6>1. CASE k = n + 1
              BY <2>1, <4>1, <4>2, <5>1, <6>1
            <6>2. CASE k \in 1..n
              BY <2>1, <3>1, <5>1, <6>2
            <6> QED BY <5>1, <6>1, <6>2
          <5>4. ASSUME NEW k \in DOMAIN down'[u], NEW h \in DOMAIN down'[u],
                       down'[u][k][1] = down'[u][h][1]
                PROVE  k = h
            <6>1. k \in 1..(n + 1) /\ h \in 1..(n + 1)
              BY <5>1
            <6>2. k \in 1..n \/ k = n + 1
              BY <5>1, <6>1
            <6>3. h \in 1..n \/ h = n + 1
              BY <5>1, <6>1
            <6> QED BY <3>1, <4>2, <5>1, <5>2, <5>4, <6>2, <6>3
          <5> QED BY <4>6, <5>3, <5>4
        <4> QED BY <4>4, <4>5, <4>6
      <3>3. CASE ~\E i \in DOMAIN Up(p) : Up(p)[i] = u
        <4>1. down'[u] = down[u]
          BY <2>1, <3>3
        <4> QED BY <2>1, <3>1, <4>1
      <3> QED BY <3>2, <3>3
    <2>4. Listed
      BY <2>3
    <2> HIDE DEF Heirs, Listed, Jobbed
    <2> QED BY <1>4, <2>1, <2>2, <2>4
  <1>6. ASSUME NEW p \in Procs,
               \/ CopyReceiver(p) \/ SetReady(p) \/ DestroyReceiver(p) \/ StartReady(p)
               \/ Send(p) \/ CopySender(p) \/ CloseSender(p) \/ AssignSender(p)
        PROVE  Heirs /\ Listed /\ Jobbed
    <2>1. UNCHANGED << made, down, job >>
      BY <1>6 DEF CopyReceiver, SetReady, DestroyReceiver, StartReady, Send, CopySender,
                  CloseSender, AssignSender, graphVars
    <2>2. CASE UNCHANGED handles
      <3> HIDE DEF Heirs, Listed, Jobbed
      <3> QED BY <1>4, <2>1, <2>2
    <2>3. CASE handles' # handles
      <3>1. CopySender(p) \/ CloseSender(p)
        BY <1>6, <2>3 DEF CopyReceiver, SetReady, DestroyReceiver, StartReady, Send, AssignSender,
                          graphVars
      <3>2. handles[p] > 0 /\ \A q \in Procs : q # p => handles'[q] = handles[q]
        BY <1>3, <3>1 DEF CopySender, CloseSender
      <3>3. Heirs
        BY <1>1, <2>1, <3>2 DEF Built
      <3> HIDE DEF Heirs, Listed, Jobbed
      <3> QED BY <1>4, <2>1, <3>3
    <2> QED BY <2>2, <2>3
  <1>7. ASSUME NEW w \in Workers, Closes(w) PROVE Listed
    <2>0. PICK p : p = job[w].p
      OBVIOUS
    <2>1. Works(w) /\ down[p] # << >> /\ down' = [down EXCEPT ![p] = Tail(@)]
      BY <1>7, <2>0 DEF Closes
    <2>2. p \in Procs /\ down[p] \in Seq(Procs \X Nat)
      BY <1>1, <1>3, <2>0, <2>1 DEF Shape, IsJob
    <2>3. /\ \A k \in DOMAIN Tail(down[p]) :
               k + 1 \in DOMAIN down[p] /\ Tail(down[p])[k] = down[p][k + 1] /\ k \in Int
          /\ Len(Tail(down[p])) = Len(down[p]) - 1 /\ Len(down[p]) \in Nat
      BY <2>1, <2>2
    <2>4. ASSUME NEW u \in Procs
          PROVE  /\ \A k \in DOMAIN down'[u] :
                      LET d == down'[u][k]
                      IN  d[1] \in made' /\ d[2] \in DOMAIN Up(d[1]) /\ Up(d[1])[d[2]] = u
                 /\ \A k, h \in DOMAIN down'[u] : down'[u][k][1] = down'[u][h][1] => k = h
                 /\ Graph[u].moveOnly => Len(down'[u]) <= 1
      <3>1. /\ \A k \in DOMAIN down[u] :
                 LET d == down[u][k]
                 IN  d[1] \in made' /\ d[2] \in DOMAIN Up(d[1]) /\ Up(d[1])[d[2]] = u
            /\ \A k, h \in DOMAIN down[u] : down[u][k][1] = down[u][h][1] => k = h
            /\ Graph[u].moveOnly => Len(down[u]) <= 1
        BY <1>1, <1>2 DEF Built
      <3>2. CASE u = p
        <4>1. down'[u] = Tail(down[p])
          BY <1>3, <2>1, <2>2, <3>2
        <4>2. ASSUME NEW k \in DOMAIN down'[u], NEW h \in DOMAIN down'[u],
                     down'[u][k][1] = down'[u][h][1]
              PROVE  k = h
          <5>1. k + 1 = h + 1 /\ k \in Int /\ h \in Int
            BY <2>3, <3>1, <3>2, <4>1, <4>2
          <5> QED BY <5>1
        <4>3. ASSUME NEW k \in DOMAIN down'[u]
              PROVE  LET d == down'[u][k]
                     IN  d[1] \in made' /\ d[2] \in DOMAIN Up(d[1]) /\ Up(d[1])[d[2]] = u
          BY <2>3, <3>1, <3>2, <4>1, <4>3
        <4>4. Graph[u].moveOnly => Len(down'[u]) <= 1
          BY <2>3, <3>1, <3>2, <4>1
        <4> QED BY <4>2, <4>3, <4>4
      <3>3. CASE u # p
        <4>1. down'[u] = down[u]
          BY <1>3, <2>1, <2>2, <3>3
        <4> QED BY <3>1, <4>1
      <3> QED BY <3>2, <3>3
    <2> QED BY <2>4
  <1>8. ASSUME NEW w \in Workers, Runs(w) PROVE Heirs /\ Listed /\ Jobbed
    <2>1. UNCHANGED << made, handles >>
      BY <1>1, <1>8, JobStays DEF graphVars
    <2>2. Listed
      <3>1. Closes(w) \/ UNCHANGED down
        BY <1>1, <1>8, CountsFrame
      <3> HIDE DEF Listed
      <3> QED BY <1>4, <1>7, <3>1
    <2>3. Jobbed
      <3>1. \A v \in Workers : Works(v) => job[v].p \in made
        BY <1>1 DEF Built
      <3>2. ASSUME Works(w)', ~Works(w) PROVE job'[w].p \in made
        <4>1. \A p \in Procs : p \notin made => pending[p] = 0 /\ delayed[p] = 0
          BY <1>1 DEF Built
        <4>2. PICK p \in Procs : Starts(w, p) \/ Delays(w, p)
          BY <1>8, <3>2 DEF Runs, Skips, Looks, Rereads, Releases, Suspended, Sends, Rests, Closes,
                            Finishes, Thinks, Reads
        <4>3. p \in made
          BY <1>3, <4>1, <4>2 DEF Starts, Delays
        <4>4. job'[w].p = p
          BY <3>2, <4>2 DEF Starts, Delays, Takes, Goes, Clear, Suspends, Works
        <4> QED BY <4>3, <4>4
      <3>3. /\ \A v \in Workers : v # w => job'[v] = job[v]
            /\ Works(w)' /\ Works(w) => job'[w].p = job[w].p
        BY <1>1, <1>8, JobStays
      <3> QED BY <2>1, <3>1, <3>2, <3>3 DEF Works
    <2> HIDE DEF Heirs
    <2> QED BY <1>4, <2>1, <2>2, <2>3
  <1>9. ASSUME (\E p \in Procs : Expires(p)) \/ UNCHANGED vars PROVE Heirs /\ Listed /\ Jobbed
    <2>1. UNCHANGED << made, handles, down, job >>
      BY <1>9 DEF Expires, vars, graphVars
    <2> HIDE DEF Heirs, Listed, Jobbed
    <2> QED BY <1>4, <2>1
  <1> HIDE DEF Heirs, Listed, Jobbed
  <1>10. Heirs /\ Listed /\ Jobbed
    BY <1>1, <1>5, <1>6, <1>8, <1>9 DEF Flat, UserNext
  <1>11. Heads \subseteq made'
    BY <1>1, <1>2 DEF Built
  <1> QED BY <1>1, <1>2, <1>10, <1>11, Frame DEF Built, Heirs, Listed, Jobbed

\* A process that takes a message, or the close, has the right to run and has not been given the close.
LEMMA Taker ==
    ASSUME Shape, Rights, Closing, NEW w \in Workers, NEW p \in Procs,
           (Reads(w) /\ p = job[w].p) \/ Starts(w, p)
    PROVE  /\ ~final[p] /\ pending'[p] = 0 /\ delayed'[p] = 0 /\ delayed[p] = 0 /\ pending[p] <= 1
           /\ suspend[p] = 0 /\ running[p]
           /\ \A q \in Procs : q # p => pending'[q] = pending[q]
           /\ \A v \in Workers : v # w /\ Works(v) => job[v].p # p
  <1>1. pending[p] \in Nat /\ delayed[p] \in Nat /\ pending[p] + delayed[p] <= 1 /\ suspend[p] \in Nat
        /\ pending \in [Procs -> Nat]
    BY DEF Shape, Rights
  <1>2. ASSUME Reads(w), p = job[w].p
        PROVE  /\ ~final[p] /\ pending[p] = 0 /\ delayed[p] = 0 /\ suspend[p] = 0 /\ running[p]
               /\ UNCHANGED << pending, delayed >>
               /\ \A v \in Workers : v # w /\ Works(v) => job[v].p # p
    <2>1. Works(w) /\ job[w].pc = "dequeue" /\ UNCHANGED << pending, delayed >>
      BY <1>2 DEF Reads, userVars
    <2>2. ~final[p]
      BY <1>2, <2>1 DEF Closing
    <2>3. ~Broadcasts(w)
      BY <2>1 DEF Broadcasts, Clearing
    <2>4. suspend[p] = 0 /\ running[p]
      BY <1>2, <2>1, <2>3 DEF Rights
    <2>5. ~(pending[p] + delayed[p] > 0)
      BY <1>2, <2>1 DEF Rights
    <2>6. \A v \in Workers : v # w /\ Works(v) => job[v].p # p
      BY <1>2, <2>1 DEF Rights
    <2> QED BY <1>1, <2>1, <2>2, <2>4, <2>5, <2>6
  <1>3. ASSUME Starts(w, p)
        PROVE  /\ ~final[p] /\ pending[p] = 1 /\ delayed[p] = 0 /\ suspend[p] = 0 /\ running[p]
               /\ pending' = [pending EXCEPT ![p] = @ - 1] /\ UNCHANGED delayed
               /\ \A v \in Workers : v # w /\ Works(v) => job[v].p # p
    <2>1. pending[p] > 0 /\ pending' = [pending EXCEPT ![p] = @ - 1] /\ UNCHANGED delayed
      BY <1>3 DEF Starts, userVars
    <2>2. pending[p] + delayed[p] > 0
      BY <1>1, <2>1
    <2>3. /\ suspend[p] = 0 /\ running[p]
          /\ \A v \in Workers : v # w /\ Works(v) => job[v].p # p
      BY <2>2 DEF Rights
    <2>4. ~final[p]
      BY <1>1, <2>1 DEF Closing
    <2> QED BY <1>1, <2>1, <2>3, <2>4
  <1> QED BY <1>1, <1>2, <1>3

LEMMA ClosingStep ==
    ASSUME Plain, CInv, [Next]_vars PROVE Closing'
  <1>1. graph' = graph /\ Flat /\ Shape /\ Built /\ Jobs /\ Rights /\ Suspension /\ Closing /\ Counts
    BY GraphStays DEF CInv
  <1>2. /\ made \subseteq Procs /\ senders \in [Procs -> Nat] /\ pending \in [Procs -> Nat]
        /\ handles \in [Procs -> Nat]
        /\ closeQueue \in [Procs -> BOOLEAN] /\ final \in [Procs -> BOOLEAN]
        /\ queue = [p \in Procs |-> queue[p]] /\ process = [p \in Procs |-> process[p]]
        /\ down \in [Procs -> Seq(Procs \X Nat)]
    BY <1>1 DEF Shape
  <1>3. /\ \A p \in Procs :
             /\ closeQueue[p] \/ final[p] => senders[p] = 0
             /\ final[p] => /\ Empty(Graph[p].strategy, queue[p]) /\ ~closeQueue[p]
                            /\ pending[p] = 0 /\ Graph[p].kind # "source"
             /\ ~final[p] => process[p].live
        /\ \A w \in Workers : Works(w) =>
             /\ final[job[w].p] => /\ job[w].pc # "dequeue" /\ (job[w].pc \in Clearing => job[w].then = "end")
                                   /\ job[w].pc = "apply" => job[w].msg = << >>
             /\ job[w].pc = "dequeue" => Graph[job[w].p].kind # "source"
    BY <1>1 DEF Closing
  <1> DEFINE Sent == \A p \in Procs : closeQueue'[p] \/ final'[p] => senders'[p] = 0
             Last == \A p \in Procs : final'[p] =>
                        ~closeQueue'[p] /\ pending'[p] = 0 /\ Graph[p].kind # "source"
             Drained == \A p \in Procs : final'[p] => Empty(Graph[p].strategy, queue'[p])
             Live == \A p \in Procs : ~final'[p] => process'[p].live
             Proper(w) == Works(w)' =>
                            /\ final'[job'[w].p] =>
                                 /\ job'[w].pc # "dequeue"
                                 /\ (job'[w].pc \in Clearing => job'[w].then = "end")
                                 /\ job'[w].pc = "apply" => job'[w].msg = << >>
                            /\ job'[w].pc = "dequeue" => Graph[job'[w].p].kind # "source"
             All == Sent /\ Last /\ Drained /\ Live /\ \A w \in Workers : Proper(w)
  <1>4. /\ UNCHANGED << closeQueue, final, senders >> => Sent
        /\ UNCHANGED << closeQueue, final, pending >> => Last
        /\ UNCHANGED << final, queue >> => Drained
        /\ UNCHANGED << final, process >> => Live
        /\ \A w \in Workers : UNCHANGED final /\ job'[w] = job[w] => Proper(w)
    BY <1>3 DEF Works
  <1>5. ASSUME NEW p \in Procs, NEW doRun, Schedule(p, doRun), doRun => ~final[p],
               UNCHANGED << final, closeQueue >>
        PROVE  Last
    <2>1. \A q \in Procs : final[q] => pending'[q] = pending[q]
      <3>1. CASE doRun
        BY <1>2, <1>5, <3>1 DEF Schedule
      <3>2. CASE ~doRun
        BY <1>2, <1>5, <3>2 DEF Schedule
      <3> QED BY <3>1, <3>2
    <2> QED BY <1>3, <1>5, <2>1
  <1>6. ASSUME NEW p \in Procs, remove_sender(p), senders[p] > 0, ~final[p], UNCHANGED final
        PROVE  Sent /\ Last
    <2>1. senders' = [senders EXCEPT ![p] = @ - 1]
          /\ \A q \in Procs : q # p => closeQueue'[q] = closeQueue[q] /\ pending'[q] = pending[q]
      BY <1>2, <1>6 DEF remove_sender, Schedule
    <2>2. senders[p] # 1 => closeQueue' = closeQueue
      BY <1>6 DEF remove_sender
    <2>3. closeQueue'[p] => senders'[p] = 0
      BY <1>2, <1>3, <1>6, <2>1, <2>2
    <2>4. Sent
      BY <1>2, <1>3, <1>6, <2>1, <2>3
    <2>5. Last
      BY <1>3, <1>6, <2>1
    <2> QED BY <2>4, <2>5
  <1>7. ASSUME NEW p \in Procs, NEW a, NEW x, queue' = [queue EXCEPT ![p].items[a] = x], ~final[p],
               UNCHANGED final
        PROVE  Drained
    <2>1. \A q \in Procs : q # p => queue'[q] = queue[q]
      BY <1>2, <1>7
    <2> QED BY <1>3, <1>7, <2>1
  <1> HIDE DEF Sent, Last, Drained, Live, Proper
  <1>8. ASSUME NEW p \in Procs,
               \/ Attach(p) \/ CopyReceiver(p) \/ SetReady(p) \/ DestroyReceiver(p)
        PROVE  All
    <2>1. UNCHANGED << senders, closeQueue, final, queue, pending, process, job >>
      BY <1>8 DEF Attach, CopyReceiver, SetReady, DestroyReceiver, flowVars, procVars, userVars
    <2> QED BY <1>4, <2>1
  <1>9. ASSUME NEW p \in Procs, StartReady(p) PROVE All
    <2>1. UNCHANGED << senders, closeQueue, final, queue, process, job >>
      BY <1>9 DEF StartReady, procVars, userVars
    <2> DEFINE doRun == /\ \/ ~Empty(Graph[p].strategy, queue[p]) \/ Graph[p].kind = "source"
                           \/ closeQueue[p]
                        /\ ~running[p]
    <2>2. Schedule(p, doRun)
      BY <1>9 DEF StartReady
    <2>3. doRun => ~final[p]
      BY <1>3
    <2> HIDE DEF doRun
    <2>4. Last
      BY <1>5, <2>1, <2>2, <2>3
    <2> QED BY <1>4, <2>1, <2>4
  <1>10. ASSUME NEW p \in Procs, Send(p) PROVE All
    <2>1. UNCHANGED << senders, closeQueue, final, process, job >>
      BY <1>10 DEF Send, procVars, userVars
    <2>2. Last /\ Drained
      <3>1. CASE Alive(p)
        <4>1. PICK x : queue' = [queue EXCEPT ![p].items[1] = x]
          BY <1>1, <1>10, <3>1, UserSends
        <4>2. ~final[p] /\ Schedule(p, receivers[p] = 0 /\ ~running[p])
          BY <1>1, <1>10, <3>1, UserSends
        <4> QED BY <1>5, <1>7, <2>1, <4>1, <4>2
      <3>2. CASE ~Alive(p)
        <4>1. UNCHANGED << queue, pending >>
          BY <1>10, <3>2 DEF Send, send, flowVars
        <4> QED BY <1>4, <2>1, <4>1
      <3> QED BY <3>1, <3>2
    <2> QED BY <1>4, <2>1, <2>2
  <1>11. ASSUME NEW p \in Procs, CopySender(p) \/ CloseSender(p) \/ AssignSender(p) PROVE All
    <2>1. UNCHANGED << final, queue, process, job >>
      BY <1>11 DEF CopySender, CloseSender, AssignSender, flowVars, procVars, userVars
    <2>2. ASSUME handles[p] > 0, Alive(p) PROVE senders[p] > 0 /\ ~final[p] /\ ~closeQueue[p]
      <3>1. p \in made
        BY <1>1, <1>2, <2>2 DEF Built
      <3> QED BY <1>1, <2>2, <3>1, Wanted
    <2>3. Sent /\ Last
      <3>1. CASE CopySender(p) \/ AssignSender(p)
        <4>1. UNCHANGED << closeQueue, pending >>
          BY <3>1 DEF CopySender, AssignSender, flowVars, procVars
        <4>2. \/ senders' = senders
              \/ ~closeQueue[p] /\ ~final[p] /\ \A q \in Procs : q # p => senders'[q] = senders[q]
          <5>1. CASE CopySender(p)
            <6>1. handles[p] > 0 /\ senders' = [senders EXCEPT ![p] = @ + (IF Alive(p) THEN 1 ELSE 0)]
              BY <1>2, <5>1 DEF CopySender
            <6>2. CASE Alive(p)
              BY <1>2, <2>2, <6>1, <6>2
            <6>3. CASE ~Alive(p)
              BY <1>2, <6>1, <6>3
            <6> QED BY <6>2, <6>3
          <5>2. CASE AssignSender(p)
            <6>1. /\ senders[p] = Graph[p].copies /\ Graph[p].copies > 1
                  /\ senders' = [senders EXCEPT ![p] = @ + (IF Alive(p) THEN 1 ELSE 0)]
              BY <5>2 DEF AssignSender
            <6>2. ~closeQueue[p] /\ ~final[p]
              BY <1>2, <1>3, <6>1
            <6> QED BY <1>2, <6>1, <6>2
          <5> QED BY <3>1, <5>1, <5>2
        <4>3. Sent
          BY <1>3, <2>1, <4>1, <4>2 DEF Sent
        <4> QED BY <1>4, <2>1, <4>1, <4>3
      <3>2. CASE CloseSender(p) /\ Alive(p)
        <4>1. handles[p] > 0 /\ remove_sender(p)
          BY <3>2 DEF CloseSender
        <4> QED BY <1>6, <2>1, <2>2, <3>2, <4>1
      <3>3. CASE CloseSender(p) /\ ~Alive(p)
        <4>1. UNCHANGED << senders, closeQueue, pending >>
          BY <3>3 DEF CloseSender
        <4> QED BY <1>4, <2>1, <4>1
      <3> QED BY <1>11, <3>1, <3>2, <3>3
    <2> QED BY <1>4, <2>1, <2>3
  <1>12. ASSUME NEW p \in Procs, Expires(p) PROVE All
    <2>1. UNCHANGED << senders, closeQueue, final, queue, process, job >>
          /\ pending' = [pending EXCEPT ![p] = 0]
      BY <1>12 DEF Expires, procVars
    <2>2. Last
      BY <1>2, <1>3, <2>1 DEF Last
    <2> QED BY <1>4, <2>1, <2>2
  <1>13. ASSUME UNCHANGED vars PROVE All
    <2>1. UNCHANGED << senders, closeQueue, final, queue, pending, process, job >>
      BY <1>13 DEF vars, flowVars, procVars, userVars
    <2> QED BY <1>4, <2>1
  <1>14. ASSUME NEW w \in Workers, Others(w), UNCHANGED final, Proper(w)
         PROVE  \A v \in Workers : Proper(v)
    BY <1>4, <1>14 DEF Others
  <1>15. ASSUME NEW w \in Workers, Ends(w) PROVE Others(w) /\ Proper(w)
    BY <1>15 DEF Ends, Proper, Works
  <1>16. ASSUME NEW w \in Workers, Called(w), Works(w), job[w].pc \in Clearing, UNCHANGED final
         PROVE  \A v \in Workers : Proper(v)
    <2>1. final[job[w].p] => job[w].then = "end"
      BY <1>3, <1>16
    <2>2. CASE Ends(w)
      BY <1>14, <1>15, <1>16, <2>2
    <2>3. CASE ~Ends(w)
      <3>1. Others(w) /\ Proper(w)
        BY <1>16, <2>1, <2>3 DEF Called, Clear, Goes, Proper, Clearing
      <3> QED BY <1>14, <1>16, <3>1
    <2> QED BY <2>2, <2>3
  <1>17. ASSUME NEW w \in Workers, Skips(w) PROVE All
    <2>1. UNCHANGED << senders, closeQueue, final, queue, pending, process >>
      BY <1>17 DEF Skips, flowVars, procVars, userVars
    <2>2. \A v \in Workers : Proper(v)
      BY <1>16, <1>17, <2>1 DEF Skips, Clearing
    <2> QED BY <1>4, <2>1, <2>2
  <1>18. ASSUME NEW w \in Workers, Looks(w) PROVE All
    <2>1. UNCHANGED << senders, closeQueue, final, queue, pending, process >>
      BY <1>18 DEF Looks, flowVars, procVars, userVars
    <2>2. final[job[w].p] => job[w].then = "end"
      BY <1>3, <1>18 DEF Looks, Clearing
    <2>3. Others(w) /\ Proper(w)
      BY <1>18, <2>1, <2>2 DEF Looks, Proper
    <2>4. \A v \in Workers : Proper(v)
      BY <1>14, <2>1, <2>3
    <2> QED BY <1>4, <2>1, <2>4
  <1>32. ASSUME NEW w \in Workers, Rereads(w) PROVE All
    <2>1. UNCHANGED << senders, closeQueue, final, queue, pending, process >>
      BY <1>32 DEF Rereads, flowVars, procVars, userVars
    <2>2. Others(w) /\ Proper(w)
      BY <1>32 DEF Rereads, Goes, Proper, Clearing
    <2>3. \A v \in Workers : Proper(v)
      BY <1>14, <2>1, <2>2
    <2> QED BY <1>4, <2>1, <2>3
  <1>19. ASSUME NEW w \in Workers, Releases(w) PROVE All
    <2> DEFINE u == Head(job[w].cts)
    <2>1. /\ UNCHANGED << senders, closeQueue, final, queue, process >>
          /\ Works(w) /\ job[w].pc = "release" /\ job[w].pc \in Clearing /\ Called(w)
          /\ \E n : pending' = [pending EXCEPT ![u] = n]
      BY <1>19 DEF Releases, clear_to_send, userVars, Clearing
    <2>2. \A v \in Workers : Proper(v)
      BY <1>16, <2>1
    <2>3. ~final[u]
      BY <1>1, <2>1 DEF Jobs
    <2> HIDE DEF u
    <2>4. Last
      BY <1>2, <1>3, <2>1, <2>3 DEF Last
    <2> QED BY <1>4, <2>1, <2>2, <2>4
  <1>20. ASSUME NEW w \in Workers, Suspended(w) PROVE All
    <2>1. UNCHANGED << senders, closeQueue, final, queue, pending, process >>
      BY <1>20 DEF Suspended, flowVars, userVars
    <2>2. Others(w) /\ Proper(w)
      BY <1>20 DEF Suspended, ClearsSelf, Clear, Goes, Proper, Clearing
    <2>3. \A v \in Workers : Proper(v)
      BY <1>14, <2>1, <2>2
    <2> QED BY <1>4, <2>1, <2>3
  <1>21. ASSUME NEW w \in Workers, Sends(w) PROVE All
    <2>1. UNCHANGED << senders, closeQueue, final, process >>
      BY <1>21 DEF Sends, procVars, userVars
    <2>2. Others(w) /\ Proper(w)
      BY <1>21 DEF Sends, ClearsSelf, Clear, Goes, Proper, Clearing
    <2>3. \A v \in Workers : Proper(v)
      BY <1>14, <2>1, <2>2
    <2> DEFINE p == job[w].p
               d == down[p][job[w].k]
    <2>4. /\ p \in made /\ job[w].k \in DOMAIN down[p] /\ d[1] \in made
          /\ IF Alive(d[1])
             THEN /\ queue' = [queue EXCEPT ![d[1]].items[d[2]] = Append(<< >>, job[w].out)]
                  /\ Schedule(d[1], receivers[d[1]] = 0 /\ ~running[d[1]])
             ELSE UNCHANGED << queue, running, pending >>
      BY <1>1, <1>21, Sending
    <2>5. Alive(d[1]) => ~final[d[1]]
      BY <1>1, <1>2, <2>4, WantedDown
    <2> HIDE DEF d, p
    <2>6. CASE Alive(d[1])
      <3>1. Last
        BY <1>2, <1>5, <2>1, <2>4, <2>5, <2>6
      <3>2. Drained
        BY <1>2, <1>7, <2>1, <2>4, <2>5, <2>6
      <3> QED BY <1>4, <2>1, <2>3, <3>1, <3>2
    <2>7. CASE ~Alive(d[1])
      BY <1>4, <2>1, <2>3, <2>4, <2>7
    <2> QED BY <2>6, <2>7
  <1>22. ASSUME NEW w \in Workers, Rests(w) PROVE All
    <2> DEFINE p == job[w].p
               doRun == ~Empty(Graph[p].strategy, queue[p]) \/ closeQueue[p]
    <2>1. /\ UNCHANGED << senders, closeQueue, final, queue, process >> /\ Works(w)
          /\ pending' = [pending EXCEPT ![p] = @ + (IF doRun THEN 1 ELSE 0)]
          /\ Goes(w, p, "finish") \/ Ends(w)
      BY <1>22 DEF Rests, procVars, userVars
    <2>2. Others(w) /\ Proper(w)
      <3>1. CASE Goes(w, p, "finish")
        BY <3>1 DEF Goes, Proper, Clearing
      <3> QED BY <1>15, <2>1, <3>1
    <2>3. \A v \in Workers : Proper(v)
      BY <1>14, <2>1, <2>2
    <2>4. p \in Procs
      BY <1>1, <2>1 DEF Shape, IsJob
    <2>5. doRun => ~final[p]
      BY <1>3, <2>4
    <2> HIDE DEF p, doRun
    <2>6. Last
      <3>1. CASE doRun
        BY <1>2, <1>3, <2>1, <2>4, <2>5, <3>1 DEF Last
      <3>2. CASE ~doRun
        BY <1>2, <1>3, <2>1, <2>4, <3>2 DEF Last
      <3> QED BY <3>1, <3>2
    <2> QED BY <1>4, <2>1, <2>3, <2>6
  <1>23. ASSUME NEW w \in Workers, Closes(w) PROVE All
    <2> DEFINE p == job[w].p
               q == Head(down[p])[1]
    <2>1. /\ UNCHANGED << final, queue, process, job >> /\ Works(w) /\ down[p] # << >>
          /\ IF Alive(q) THEN remove_sender(q) ELSE UNCHANGED << senders, closeQueue, pending >>
      BY <1>23 DEF Closes, userVars
    <2>2. p \in Procs
      BY <1>1, <2>1 DEF Shape, IsJob
    <2>3. 1 \in DOMAIN down[p] /\ Head(down[p]) = down[p][1]
      BY <1>2, <2>1, <2>2
    <2>4. Alive(q) => q \in Procs /\ senders[q] > 0 /\ ~final[q]
      BY <1>1, <2>2, <2>3, WantedDown
    <2> HIDE DEF q
    <2>5. Sent /\ Last
      BY <1>4, <1>6, <2>1, <2>4
    <2> QED BY <1>4, <2>1, <2>5
  <1>24. ASSUME NEW w \in Workers, Finishes(w) PROVE All
    <2>1. /\ UNCHANGED << senders, closeQueue, final, queue, pending >>
          /\ Works(w) /\ job[w].pc = "finish" /\ process' = [process EXCEPT ![job[w].p] = Reset]
      BY <1>24 DEF Finishes, flowVars, procVars
    <2>2. \A v \in Workers : Proper(v)
      BY <1>14, <1>15, <1>24, <2>1 DEF Finishes
    <2>3. final[job[w].p]
      BY <1>1, <2>1 DEF Jobs
    <2>4. Live
      BY <1>2, <1>3, <2>1, <2>3 DEF Live
    <2> QED BY <1>4, <2>1, <2>2, <2>4
  <1>25. ASSUME NEW p \in Procs, Keeps(p), UNCHANGED final PROVE Live
    BY <1>2, <1>3, <1>25 DEF Keeps, Live
  <1>26. ASSUME NEW w \in Workers, Thinks(w) PROVE All
    <2>1. /\ UNCHANGED << senders, closeQueue, final, queue, pending >>
          /\ Works(w) /\ Keeps(job[w].p)
      BY <1>26 DEF Thinks, flowVars, procVars
    <2>2. job[w].p \in Procs
      BY <1>1, <2>1 DEF Shape, IsJob
    <2>3. Live
      BY <1>25, <2>1, <2>2
    <2>4. Others(w) /\ Proper(w)
      <3>1. CASE Ends(w)
        BY <1>15, <3>1
      <3>2. CASE \/ Goes(w, job[w].p, "done") \/ Goes(w, job[w].p, "decide") \/ Suspends(w, job[w].p)
        BY <3>2 DEF Goes, Suspends, Proper, Clearing
      <3>3. CASE /\ Goes(w, job[w].p, "dequeue") /\ job[w].pc = "apply" /\ job[w].msg # << >>
                 /\ Graph[job[w].p].kind # "source"
        <4>1. ~final[job[w].p]
          BY <1>3, <2>1, <3>3
        <4> QED BY <2>1, <3>3, <4>1 DEF Goes, Proper, Clearing
      <3> QED BY <1>26, <3>1, <3>2, <3>3 DEF Thinks
    <2>5. \A v \in Workers : Proper(v)
      BY <1>14, <2>1, <2>4
    <2> QED BY <1>4, <2>1, <2>3, <2>5
  <1>27. ASSUME NEW w \in Workers, NEW p \in Procs, Delays(w, p) PROVE All
    <2>1. /\ UNCHANGED << senders, closeQueue, final, queue, pending >>
          /\ UNCHANGED << process, job >> \/ (Keeps(p) /\ Suspends(w, p))
      BY <1>27 DEF Delays, flowVars, procVars
    <2>2. CASE UNCHANGED << process, job >>
      BY <1>4, <2>1, <2>2
    <2>3. CASE Keeps(p) /\ Suspends(w, p)
      <3>1. Others(w) /\ Proper(w)
        BY <2>3 DEF Suspends, Goes, Proper, Clearing
      <3>2. \A v \in Workers : Proper(v)
        BY <1>14, <2>1, <3>1
      <3> QED BY <1>4, <1>25, <2>1, <2>3, <3>2
    <2> QED BY <2>1, <2>2, <2>3
  <1>28. ASSUME NEW w \in Workers, NEW p \in Procs, Takes(w, p), (Reads(w) /\ p = job[w].p) \/ Starts(w, p),
                UNCHANGED << senders, process >>
         PROVE  All
    <2>1. /\ ~final[p] /\ pending'[p] = 0 /\ \A q \in Procs : q # p => pending'[q] = pending[q]
          /\ \A v \in Workers : v # w /\ Works(v) => job[v].p # p
      BY <1>1, <1>28, Taker
    <2>2. /\ Graph[p].kind # "source" /\ Others(w)
          /\ Works(w)' => job'[w].p = p /\ job'[w].pc \in {"apply", "check"}
      BY <1>28 DEF Takes, Goes, Clear
    <2>3. CASE Empty(Graph[p].strategy, queue[p])
      <3>1. /\ UNCHANGED queue /\ final' = [final EXCEPT ![p] = closeQueue[p]]
            /\ closeQueue' = [closeQueue EXCEPT ![p] = FALSE]
            /\ Goes(w, p, "apply") /\ job'[w].msg = << >>
        BY <1>28, <2>3 DEF Takes
      <3>2. Sent
        BY <1>2, <1>3, <1>28, <3>1 DEF Sent
      <3>3. Last
        BY <1>2, <1>3, <2>1, <2>2, <3>1 DEF Last
      <3>4. Drained
        BY <1>2, <1>3, <2>3, <3>1 DEF Drained
      <3>5. Live
        BY <1>2, <1>3, <1>28, <2>1, <3>1 DEF Live
      <3>6. Proper(w)
        BY <3>1 DEF Goes, Proper, Clearing
      <3>7. ASSUME NEW v \in Workers, v # w PROVE Proper(v)
        <4>1. job'[v] = job[v] /\ (Works(v) => job[v].p # p /\ job[v].p \in Procs)
          BY <1>1, <2>1, <2>2, <3>7 DEF Others, Shape, IsJob
        <4>2. Works(v) => final'[job[v].p] = final[job[v].p]
          BY <1>2, <3>1, <4>1
        <4> QED BY <1>3, <4>1, <4>2 DEF Proper, Works
      <3> QED BY <3>2, <3>3, <3>4, <3>5, <3>6, <3>7
    <2>4. CASE ~Empty(Graph[p].strategy, queue[p])
      <3>1. /\ UNCHANGED << final, closeQueue >>
            /\ queue' = [queue EXCEPT ![p] = PopFront(Graph[p].strategy, queue[p])]
        BY <1>28, <2>4 DEF Takes
      <3>2. Proper(w)
        BY <2>1, <2>2, <3>1 DEF Proper
      <3>3. \A v \in Workers : Proper(v)
        BY <1>14, <2>2, <3>1, <3>2
      <3>4. Last
        BY <1>3, <2>1, <3>1 DEF Last
      <3>5. Drained
        BY <1>2, <1>3, <2>1, <3>1 DEF Drained
      <3> QED BY <1>4, <1>28, <3>1, <3>3, <3>4, <3>5
    <2> QED BY <2>3, <2>4
  <1>29. ASSUME NEW w \in Workers, Reads(w) PROVE All
    <2>1. Takes(w, job[w].p) /\ job[w].p \in Procs /\ UNCHANGED << senders, process >>
      BY <1>1, <1>29 DEF Reads, Shape, IsJob, userVars
    <2> QED BY <1>28, <1>29, <2>1
  <1>30. ASSUME NEW w \in Workers, NEW p \in Procs, Starts(w, p) PROVE All
    <2>1. UNCHANGED << senders, process >>
      BY <1>30 DEF Starts, userVars
    <2>2. CASE Takes(w, p)
      BY <1>28, <1>30, <2>1, <2>2
    <2>3. CASE ~Takes(w, p)
      <3>1. /\ UNCHANGED << queue, final, closeQueue >>
            /\ \/ Goes(w, p, "decide") \/ (Graph[p].kind # "source" /\ Goes(w, p, "dequeue"))
               \/ UNCHANGED job
        BY <1>30, <2>3 DEF Starts
      <3>2. /\ ~final[p] /\ pending'[p] = 0 /\ \A q \in Procs : q # p => pending'[q] = pending[q]
        BY <1>1, <1>30, Taker
      <3>3. Last
        BY <1>3, <3>1, <3>2 DEF Last
      <3>4. \A v \in Workers : Proper(v)
        <4>1. CASE UNCHANGED job
          BY <1>4, <3>1, <4>1
        <4>2. CASE Goes(w, p, "decide") \/ (Graph[p].kind # "source" /\ Goes(w, p, "dequeue"))
          <5>1. Others(w) /\ Proper(w)
            BY <3>1, <3>2, <4>2 DEF Goes, Proper, Clearing
          <5> QED BY <1>14, <3>1, <5>1
        <4> QED BY <3>1, <4>1, <4>2
      <3> QED BY <1>4, <2>1, <3>1, <3>3, <3>4
    <2> QED BY <2>2, <2>3
  <1> HIDE DEF All
  <1>31. All
    BY <1>1, <1>8, <1>9, <1>10, <1>11, <1>12, <1>13, <1>17, <1>18, <1>19, <1>20, <1>21, <1>22,
       <1>23, <1>24, <1>26, <1>27, <1>29, <1>30, <1>32 DEF Flat, UserNext, Runs
  <1> QED BY <1>1, <1>31, Frame DEF Closing, All, Sent, Last, Drained, Live, Proper

-----------------------------------------------------------------------------
(***************************************************************************)
(* A process is destroyed by its last job.                                 *)
(***************************************************************************)
LEMMA LivelyStep ==
    ASSUME Plain, CInv, [Next]_vars PROVE Lively'
  <1> DEFINE Later == \A p \in Procs : delayed'[p] > 0 => process'[p].live
             Now == \A w \in Workers : Works(w)' => process'[job'[w].p].live
  <1>1. graph' = graph /\ Flat /\ Shape /\ Rights /\ Closing
    BY GraphStays DEF CInv
  <1>2. /\ \A p \in Procs : delayed[p] > 0 => process[p].live
        /\ \A w \in Workers : Works(w) => process[job[w].p].live /\ job[w].p \in Procs
    BY <1>1 DEF CInv, Lively, Shape, IsJob
  <1>3. process = [p \in Procs |-> process[p]] /\ delayed \in [Procs -> Nat]
    BY <1>1 DEF Shape
  <1>4. ASSUME UNCHANGED << delayed, process, job >> PROVE Later /\ Now
    BY <1>2, <1>4 DEF Works
  <1>5. ASSUME UserNext \/ UNCHANGED vars PROVE Later /\ Now
    <2>1. UNCHANGED << delayed, process, job >>
      BY <1>5 DEF UserNext, Attach, CopyReceiver, SetReady, DestroyReceiver, StartReady, Send,
                  CopySender, CloseSender, AssignSender, vars, userVars
    <2> QED BY <1>4, <2>1
  <1>6. ASSUME NEW p \in Procs, Expires(p) PROVE Later /\ Now
    <2>1. delayed' = [delayed EXCEPT ![p] = 0] /\ UNCHANGED << process, job >>
      BY <1>6 DEF Expires
    <2> QED BY <1>2, <1>3, <2>1 DEF Works
  <1>7. ASSUME NEW w \in Workers, Works(w), Others(w), Works(w)' => job'[w].p = job[w].p,
               UNCHANGED << delayed, process >>
        PROVE  Later /\ Now
    BY <1>2, <1>7 DEF Others, Works
  <1>8. ASSUME NEW w \in Workers,
               \/ Skips(w) \/ Looks(w) \/ Rereads(w) \/ Releases(w) \/ Suspended(w) \/ Sends(w)
               \/ Rests(w) \/ Reads(w)
        PROVE  Later /\ Now
    <2>1. Works(w) /\ UNCHANGED << delayed, process >>
      BY <1>8 DEF Skips, Looks, Rereads, Releases, Suspended, Sends, Rests, Reads, userVars
    <2>2. ASSUME NEW p, Takes(w, p) PROVE Others(w) /\ job'[w].p = p
      BY <2>2 DEF Takes, Goes, Clear
    <2>3. Others(w) /\ (Works(w)' => job'[w].p = job[w].p)
      BY <1>8, <2>2 DEF Skips, Looks, Rereads, Releases, Called, Suspended, Sends, Rests, Reads, ClearsSelf,
                        Clear, Goes, Ends, Works
    <2> QED BY <1>7, <2>1, <2>3
  <1>9. ASSUME NEW w \in Workers, Closes(w) PROVE Later /\ Now
    <2>1. UNCHANGED << delayed, process, job >>
      BY <1>9 DEF Closes, userVars
    <2> QED BY <1>4, <2>1
  <1>10. ASSUME NEW w \in Workers, Finishes(w) PROVE Later /\ Now
    <2>1. PICK p \in Procs : p = job[w].p /\ Works(w)
      BY <1>2, <1>10 DEF Finishes
    <2>2. /\ ~Works(w)' /\ Others(w) /\ UNCHANGED delayed
          /\ process' = [process EXCEPT ![p] = Reset]
      BY <1>10, <2>1 DEF Finishes, Ends, Works
    <2>3. /\ delayed[p] = 0 /\ \A v \in Workers : v # w /\ Works(v) => job[v].p # p
      <3>1. ~(pending[p] + delayed[p] > 0)
        BY <1>1, <2>1 DEF Rights
      <3>2. pending[p] \in Nat /\ delayed[p] \in Nat
        BY <1>1 DEF Shape
      <3> QED BY <1>1, <2>1, <3>1, <3>2 DEF Rights
    <2>4. \A q \in Procs : q # p => process'[q] = process[q]
      BY <1>3, <2>2
    <2>5. Later
      BY <1>2, <2>2, <2>3, <2>4
    <2>6. Now
      BY <1>2, <2>2, <2>3, <2>4 DEF Others, Works
    <2> QED BY <2>5, <2>6
  <1>11. ASSUME NEW p \in Procs, Keeps(p), process[p].live
         PROVE  process'[p].live /\ \A q \in Procs : q # p => process'[q] = process[q]
    BY <1>3, <1>11 DEF Keeps
  <1>12. ASSUME NEW w \in Workers, Thinks(w) PROVE Later /\ Now
    <2>1. PICK p \in Procs : p = job[w].p /\ Works(w) /\ process[p].live
      BY <1>2, <1>12 DEF Thinks
    <2>2. /\ Others(w) /\ (Works(w)' => job'[w].p = p) /\ Keeps(p)
          /\ \A q \in Procs : q # p => delayed'[q] = delayed[q]
      BY <1>3, <1>12, <2>1 DEF Thinks, Goes, Ends, Suspends, Works
    <2>3. process'[p].live /\ \A q \in Procs : q # p => process'[q] = process[q]
      BY <1>11, <2>1, <2>2
    <2>4. Later
      BY <1>2, <2>2, <2>3
    <2>5. ASSUME NEW v \in Workers, Works(v)' PROVE process'[job'[v].p].live
      <3>1. CASE v = w
        BY <2>2, <2>3, <2>5, <3>1
      <3>2. CASE v # w
        <4>1. Works(v) /\ job'[v].p = job[v].p
          BY <2>2, <2>5, <3>2 DEF Others, Works
        <4> QED BY <1>2, <2>3, <4>1
      <3> QED BY <3>1, <3>2
    <2> QED BY <2>4, <2>5
  <1>13. ASSUME NEW w \in Workers, NEW p \in Procs, Starts(w, p) PROVE Later /\ Now
    <2>1. process[p].live
      BY <1>1, <1>13 DEF Starts, Closing
    <2>2. UNCHANGED << delayed, process >> /\ (UNCHANGED job \/ (Others(w) /\ job'[w].p = p))
      BY <1>13 DEF Starts, Takes, Goes, Clear, userVars
    <2> QED BY <1>2, <1>4, <2>1, <2>2 DEF Others, Works
  <1>14. ASSUME NEW w \in Workers, NEW p \in Procs, Delays(w, p) PROVE Later /\ Now
    <2>1. /\ process[p].live /\ delayed' = [delayed EXCEPT ![p] = @ - 1]
      BY <1>2, <1>14 DEF Delays
    <2>2. \A q \in Procs : delayed'[q] > 0 => delayed[q] > 0
      BY <1>3, <1>14, <2>1 DEF Delays
    <2>3. CASE UNCHANGED << process, job >>
      BY <1>2, <2>2, <2>3 DEF Works
    <2>4. CASE Keeps(p) /\ Suspends(w, p)
      <3>1. process'[p].live /\ \A q \in Procs : q # p => process'[q] = process[q]
        BY <1>11, <2>1, <2>4
      <3>2. Others(w) /\ job'[w].p = p
        BY <2>4 DEF Suspends, Goes
      <3>3. \A q \in Procs : process[q].live => process'[q].live
        BY <3>1
      <3>4. Later
        BY <1>2, <2>2, <3>3
      <3>5. Now
        BY <1>2, <3>1, <3>2, <3>3 DEF Others, Works
      <3> QED BY <3>4, <3>5
    <2> QED BY <1>14, <2>3, <2>4 DEF Delays
  <1> HIDE DEF Later, Now
  <1>15. Later /\ Now
    BY <1>1, <1>5, <1>6, <1>8, <1>9, <1>10, <1>12, <1>13, <1>14 DEF Flat, Runs
  <1> QED BY <1>1, <1>15, Frame DEF Lively, Later, Now

-----------------------------------------------------------------------------
(***************************************************************************)
(* The one right to run a process.                                         *)
(***************************************************************************)
\* The right to run p, of Rights.
Right(p) ==
    /\ \A v, w \in Workers : Works(v) /\ Works(w) /\ job[v].p = p /\ job[w].p = p => v = w
    /\ pending[p] + delayed[p] <= 1
    /\ pending[p] + delayed[p] > 0 =>
          running[p] /\ suspend[p] = 0 /\ \A w \in Workers : Works(w) => job[w].p # p
    /\ suspend[p] > 0 => running[p]
    /\ \A w \in Workers : Works(w) /\ job[w].p = p =>
          /\ job[w].pc # "finish" => running[p]
          /\ ~Broadcasts(w) => suspend[p] = 0

\* The jobs of p were jobs of p, no less advanced.
Persist(p) ==
    \A v \in Workers : Works(v)' /\ job'[v].p = p =>
        /\ Works(v) /\ job[v].p = p
        /\ Broadcasts(v) => Broadcasts(v)'
        /\ job[v].pc = "finish" => job'[v].pc = "finish"

LEMMA RightStays ==
    ASSUME NEW p \in Procs, Right(p), Persist(p), running'[p] = running[p],
           pending'[p] = pending[p], delayed'[p] = delayed[p], suspend'[p] = suspend[p]
    PROVE  Right(p)'
  BY DEF Right, Persist

LEMMA Persists ==
    ASSUME NEW w \in Workers, Others(w), NEW p \in Procs,
           \/ ~Works(w)'
           \/ job'[w].p # p
           \/ /\ Works(w) /\ job[w].p = p
              /\ Broadcasts(w) => Broadcasts(w)'
              /\ job[w].pc = "finish" => job'[w].pc = "finish"
    PROVE  Persist(p)
  <1>1. ASSUME NEW v \in Workers, v # w, Works(v)', job'[v].p = p
        PROVE  /\ Works(v) /\ job[v].p = p
               /\ Broadcasts(v) => Broadcasts(v)'
               /\ job[v].pc = "finish" => job'[v].pc = "finish"
    <2>1. job'[v] = job[v]
      BY <1>1 DEF Others
    <2> QED BY <1>1, <2>1 DEF Works, Broadcasts
  <1> QED BY <1>1 DEF Persist

LEMMA CalledPersists ==
    ASSUME NEW w \in Workers, Works(w), job[w].pc \in Clearing, Called(w)
    PROVE  Others(w) /\ \A p \in Procs : Persist(p)
  <1>1. Others(w)
    BY DEF Called, Clear, Goes, Ends
  <1>2. job[w].pc # "finish" /\ job[w].pc # "send"
    BY DEF Clearing
  <1>3. Works(w)' => job'[w].p = job[w].p /\ (Broadcasts(w) => Broadcasts(w)')
    BY <1>2 DEF Called, Clear, Goes, Ends, Works, Broadcasts, Clearing
  <1> QED BY <1>1, <1>2, <1>3, Persists

\* An idle process that has not been given the close is started.
LEMMA ScheduledRight ==
    ASSUME Shape, Jobs, Rights, \A q \in Procs : Right(q) /\ Persist(q), NEW p \in Procs, NEW doRun,
           Schedule(p, doRun), doRun => ~running[p] /\ ~final[p], UNCHANGED << delayed, suspend >>
    PROVE  \A q \in Procs : Right(q)'
  <1>1. running \in [Procs -> BOOLEAN] /\ pending \in [Procs -> Nat]
    BY DEF Shape
  <1>2. CASE doRun
    <2>1. /\ pending[p] = 0 /\ delayed[p] = 0 /\ suspend[p] = 0
          /\ \A w \in Workers : Works(w) => job[w].p # p
      BY <1>2, Idle
    <2>2. pending'[p] = 1 /\ running'[p]
      <3>1. pending'[p] = 1
        BY <1>1, <1>2, <2>1 DEF Schedule
      <3>2. running'[p]
        BY <1>1, <1>2 DEF Schedule
      <3> QED BY <3>1, <3>2
    <2>3. \A w \in Workers : Works(w)' => job'[w].p # p
      BY <2>1 DEF Persist
    <2>4. Right(p)'
      BY <2>1, <2>2, <2>3 DEF Right
    <2>5. \A q \in Procs : q # p => running'[q] = running[q] /\ pending'[q] = pending[q]
      BY <1>1 DEF Schedule
    <2> QED BY <2>4, <2>5, RightStays
  <1>3. CASE ~doRun
    <2>1. \A q \in Procs : running'[q] = running[q] /\ pending'[q] = pending[q]
      BY <1>1, <1>3 DEF Schedule
    <2> QED BY <2>1, RightStays
  <1> QED BY <1>2, <1>3

LEMMA RightsSplit ==
    ASSUME Shape, Rights, NEW p \in Procs PROVE Right(p)
  BY DEF Right, Rights

LEMMA UserRights ==
    ASSUME Plain, CInv, graph' = graph, UserNext
    PROVE  \A q \in Procs : Right(q)'
  <1>1. Shape /\ Built /\ Jobs /\ Rights /\ Closing /\ Counts
    BY DEF CInv
  <1>2. UNCHANGED job
    BY DEF UserNext, Attach, CopyReceiver, SetReady, DestroyReceiver, StartReady, Send,
           CopySender, CloseSender, AssignSender, userVars
  <1>3. \A q \in Procs : Right(q) /\ Persist(q)
    BY <1>1, <1>2, RightsSplit DEF Persist, Works, Broadcasts
  <1>4. UNCHANGED << delayed, suspend >>
    BY DEF UserNext, Attach, CopyReceiver, SetReady, DestroyReceiver, StartReady, Send,
           CopySender, CloseSender, AssignSender, userVars, procVars
  <1>5. ASSUME UNCHANGED << running, pending >> PROVE \A q \in Procs : Right(q)'
    BY <1>3, <1>4, <1>5, RightStays
  <1>6. ASSUME NEW p \in Procs,
               \/ Attach(p) \/ CopyReceiver(p) \/ SetReady(p) \/ DestroyReceiver(p)
               \/ CopySender(p) \/ AssignSender(p)
        PROVE  \A q \in Procs : Right(q)'
    <2>1. UNCHANGED << running, pending >>
      BY <1>6 DEF Attach, CopyReceiver, SetReady, DestroyReceiver, CopySender, AssignSender, flowVars
    <2> QED BY <1>5, <2>1
  <1>7. ASSUME NEW p \in Procs, StartReady(p) PROVE \A q \in Procs : Right(q)'
    <2> DEFINE doRun == /\ \/ ~Empty(Graph[p].strategy, queue[p]) \/ Graph[p].kind = "source"
                           \/ closeQueue[p]
                        /\ ~running[p]
    <2>1. Schedule(p, doRun)
      BY <1>7 DEF StartReady
    <2>2. doRun => ~running[p] /\ ~final[p]
      BY <1>1 DEF Closing
    <2> HIDE DEF doRun
    <2> QED BY <1>1, <1>3, <1>4, <2>1, <2>2, ScheduledRight
  <1>8. ASSUME NEW p \in Procs, Send(p) PROVE \A q \in Procs : Right(q)'
    <2>1. CASE Alive(p)
      <3>1. ~final[p] /\ Schedule(p, receivers[p] = 0 /\ ~running[p])
        BY <1>1, <1>8, <2>1, UserSends
      <3> QED BY <1>1, <1>3, <1>4, <3>1, ScheduledRight
    <2>2. CASE ~Alive(p)
      <3>1. UNCHANGED << running, pending >>
        BY <1>8, <2>2 DEF Send, send, flowVars
      <3> QED BY <1>5, <3>1
    <2> QED BY <2>1, <2>2
  <1>9. ASSUME NEW p \in Procs, CloseSender(p) PROVE \A q \in Procs : Right(q)'
    <2>1. CASE Alive(p) /\ senders[p] = 1
      <3>1. Schedule(p, receivers[p] = 0 /\ ~running[p]) /\ handles[p] > 0
        BY <1>9, <2>1 DEF CloseSender, remove_sender
      <3>2. p \in made
        BY <1>1, <3>1 DEF Shape, Built
      <3>3. ~final[p]
        BY <1>1, <2>1, <3>1, <3>2, Wanted
      <3> QED BY <1>1, <1>3, <1>4, <3>1, <3>3, ScheduledRight
    <2>2. CASE ~(Alive(p) /\ senders[p] = 1)
      <3>1. UNCHANGED << running, pending >>
        BY <1>9, <2>2 DEF CloseSender, remove_sender
      <3> QED BY <1>5, <3>1
    <2> QED BY <2>1, <2>2
  <1> QED BY <1>6, <1>7, <1>8, <1>9 DEF UserNext

LEMMA ReleaseRights ==
    ASSUME Plain, CInv, NEW w \in Workers, Releases(w)
    PROVE  \A q \in Procs : Right(q)'
  <1>1. Shape /\ Built /\ Jobs /\ Rights /\ Suspension
    BY DEF CInv
  <1>2. /\ Works(w) /\ job[w].pc = "release" /\ job[w].pc \in Clearing /\ Called(w)
        /\ clear_to_send(Head(job[w].cts), job[w].low) /\ UNCHANGED delayed
    BY DEF Releases, Clearing, userVars
  <1>3. \A q \in Procs : Right(q) /\ Persist(q)
    BY <1>1, <1>2, CalledPersists, RightsSplit
  <1>4. PICK u : u = Head(job[w].cts)
    OBVIOUS
  <1>5. PICK doRun \in BOOLEAN, left \in Nat :
          /\ left = (IF suspend[u] > 0 THEN suspend[u] - 1 ELSE 0)
          /\ suspend' = [suspend EXCEPT ![u] = left]
          /\ running' = [running EXCEPT ![u] = IF left = 0 /\ ~doRun THEN FALSE ELSE @]
          /\ pending' = [pending EXCEPT ![u] = @ + (IF left = 0 /\ doRun THEN 1 ELSE 0)]
    <2> DEFINE l == IF suspend[u] > 0 THEN suspend[u] - 1 ELSE 0
               r == (job[w].low \/ ~Empty(Graph[u].strategy, queue[u]) \/ closeQueue[u]) \in {TRUE}
    <2>1. /\ suspend' = [suspend EXCEPT ![u] = l]
          /\ running' = [running EXCEPT ![u] = IF l = 0 /\ ~r THEN FALSE ELSE @]
          /\ pending' = [pending EXCEPT ![u] = @ + (IF l = 0 /\ r THEN 1 ELSE 0)]
      BY <1>2, <1>4 DEF clear_to_send
    <2>2. r \in BOOLEAN
      OBVIOUS
    <2>3. l \in Nat
      <3>1. u \in Procs
        <4>1. /\ job[w].cts # << >> /\ job[w].cts \in Seq(Procs)
          BY <1>1, <1>2 DEF Jobs, Shape, IsJob
        <4> QED BY <1>4, <4>1
      <3> QED BY <1>1, <3>1 DEF Shape
    <2> HIDE DEF l, r
    <2>4. \E left \in Nat : left = l
      BY <2>3
    <2> QED BY <2>1, <2>2, <2>4 DEF l
  <1>6. /\ running \in [Procs -> BOOLEAN] /\ pending \in [Procs -> Nat] /\ suspend \in [Procs -> Nat]
    BY <1>1 DEF Shape
  <1>7. \A q \in Procs : q # u => Right(q)'
    <2>1. \A q \in Procs : q # u => /\ running'[q] = running[q] /\ pending'[q] = pending[q]
                                    /\ suspend'[q] = suspend[q] /\ delayed'[q] = delayed[q]
      BY <1>2, <1>5, <1>6
    <2> QED BY <1>3, <2>1, RightStays
  <1>8. /\ u \in Procs /\ suspend[u] > 0 /\ running[u] /\ pending[u] = 0 /\ delayed[u] = 0
        /\ \A v \in Workers : Works(v)' /\ job'[v].p = u => Broadcasts(v)' /\ suspend[u] > 1
    <2>1. CASE job[w].then = "apply"
      <3>1. /\ u \in Procs /\ suspend[u] > 0 /\ running[u] /\ pending[u] = 0 /\ delayed[u] = 0
            /\ \A v \in Workers : Works(v) /\ job[v].p = u => Broadcasts(v) /\ suspend[u] > 1
        BY <1>1, <1>2, <1>4, <2>1, Telling
      <3> QED BY <1>3, <3>1 DEF Persist
    <2>2. CASE job[w].then # "apply"
      <3>1. /\ job[w].then = "end" /\ u = job[w].p /\ Tail(job[w].cts) = << >> /\ u \in Procs
            /\ Cardinality(Waiting(u)) + 1 <= suspend[u] /\ running[u]
            /\ pending[u] = 0 /\ delayed[u] = 0
        BY <1>1, <1>2, <1>4, <2>2, TellingSelf
      <3>2. suspend[u] > 0
        <4>1. Cardinality(Waiting(u)) \in Nat
          BY <1>1, WaitingFinite DEF Shape
        <4> QED BY <1>6, <3>1, <4>1
      <3>3. ~Works(w)'
        BY <1>2, <3>1 DEF Called, Ends, Works
      <3>4. \A v \in Workers : Works(v)' => job'[v].p # u
        BY <1>1, <1>2, <1>3, <3>1, <3>3 DEF Persist, Rights
      <3> QED BY <3>1, <3>2, <3>4
    <2> QED BY <2>1, <2>2
  <1>9. /\ left \in Nat /\ suspend'[u] = left /\ left = suspend[u] - 1 /\ delayed'[u] = 0
        /\ left # 0 => running'[u]
        /\ doRun => running'[u]
        /\ pending'[u] = (IF left = 0 /\ doRun THEN 1 ELSE 0)
    <2>1. left \in Nat /\ left = suspend[u] - 1 /\ suspend'[u] = left /\ delayed'[u] = 0
      BY <1>2, <1>5, <1>6, <1>8
    <2>2. (left # 0 => running'[u]) /\ (doRun => running'[u])
      BY <1>5, <1>6, <1>8
    <2>3. pending'[u] = (IF left = 0 /\ doRun THEN 1 ELSE 0)
      BY <1>5, <1>6, <1>8
    <2> QED BY <2>1, <2>2, <2>3
  <1>10. \A v, x \in Workers : Works(v)' /\ Works(x)' /\ job'[v].p = u /\ job'[x].p = u => v = x
    BY <1>3, <1>8 DEF Right, Persist
  <1>11. \A v \in Workers : Works(v)' /\ job'[v].p = u => left # 0
    BY <1>6, <1>8, <1>9
  <1>12. Right(u)'
    <2>1. pending'[u] + delayed'[u] <= 1
          /\ (pending'[u] + delayed'[u] > 0 => left = 0 /\ doRun)
      <3>1. CASE left = 0 /\ doRun
        BY <1>9, <3>1
      <3>2. CASE ~(left = 0 /\ doRun)
        BY <1>9, <3>2
      <3> QED BY <3>1, <3>2
    <2>2. suspend'[u] > 0 => running'[u]
      BY <1>9
    <2>3. left # 0 \/ doRun => running'[u]
      BY <1>9
    <2>4. left = 0 => suspend'[u] = 0
      BY <1>9
    <2> QED BY <1>8, <1>10, <1>11, <2>1, <2>2, <2>3, <2>4 DEF Right
  <1> QED BY <1>7, <1>12

\* A job of p that does not broadcast has the right to run it.
LEMMA Runner ==
    ASSUME Shape, Rights, NEW w \in Workers, Works(w), job[w].pc \notin {"send", "finish"} \cup Clearing
    PROVE  LET p == job[w].p
           IN  p \in Procs /\ running[p] /\ suspend[p] = 0 /\ pending[p] = 0 /\ delayed[p] = 0
  <1> DEFINE p == job[w].p
  <1>1. p \in Procs /\ pending[p] \in Nat /\ delayed[p] \in Nat
    BY DEF Shape, IsJob
  <1>2. running[p] /\ suspend[p] = 0
    BY DEF Rights, Broadcasts
  <1>3. ~(pending[p] + delayed[p] > 0)
    BY <1>1 DEF Rights
  <1> QED BY <1>1, <1>2, <1>3

\* A job that has just broadcast, or is about to, and was the only one of its process.
LEMMA LoneRight ==
    ASSUME NEW w \in Workers, Others(w), NEW p \in Procs,
           \A v \in Workers : v # w /\ Works(v) => job[v].p # p,
           pending'[p] = 0, delayed'[p] = 0, running'[p],
           suspend'[p] = 0 \/ ~Works(w)' \/ Broadcasts(w)'
    PROVE  Right(p)'
  <1>1. \A v \in Workers : Works(v)' /\ job'[v].p = p => v = w
    BY DEF Others, Works
  <1> QED BY <1>1 DEF Right

LEMMA JobRights ==
    ASSUME Plain, CInv, NEW w \in Workers, Runs(w)
    PROVE  \A q \in Procs : Right(q)'
  <1>1. Shape /\ Built /\ Jobs /\ Rights /\ Suspension /\ Closing /\ Counts
    BY DEF CInv
  <1>2. /\ running \in [Procs -> BOOLEAN] /\ pending \in [Procs -> Nat] /\ suspend \in [Procs -> Nat]
        /\ delayed \in [Procs -> Nat]
    BY <1>1 DEF Shape
  <1>3. \A q \in Procs : Right(q)
    BY <1>1, RightsSplit
  <1>4. ASSUME Works(w) PROVE /\ job[w].p \in Procs
                              /\ \A v \in Workers : v # w /\ Works(v) => job[v].p # job[w].p
    BY <1>1, <1>4 DEF Shape, IsJob, Rights
  <1>5. ASSUME \A q \in Procs : Persist(q), UNCHANGED << running, pending, delayed, suspend >>
        PROVE  \A q \in Procs : Right(q)'
    BY <1>3, <1>5, RightStays
  <1>6. ASSUME NEW p \in Procs, Others(w), Works(w)' => job'[w].p = p,
               \A q \in Procs : q # p => /\ running'[q] = running[q] /\ pending'[q] = pending[q]
                                         /\ delayed'[q] = delayed[q] /\ suspend'[q] = suspend[q]
        PROVE  \A q \in Procs : q # p => Right(q)'
    BY <1>3, <1>6, Persists, RightStays
  <1>7. CASE Skips(w)
    <2>1. Works(w) /\ job[w].pc \in Clearing /\ Called(w) /\ UNCHANGED << running, pending, delayed, suspend >>
      BY <1>7 DEF Skips, Clearing, flowVars, procVars, userVars
    <2> QED BY <1>5, <2>1, CalledPersists
  <1>20. CASE Rereads(w)
    <2>1. /\ Works(w) /\ Works(w)' /\ Others(w) /\ UNCHANGED << running, pending, delayed, suspend >>
          /\ job'[w].p = job[w].p /\ job[w].pc # "finish" /\ (Broadcasts(w) => Broadcasts(w)')
      BY <1>20 DEF Rereads, Goes, Clearing, flowVars, procVars, userVars, Broadcasts
    <2> QED BY <1>5, <2>1, Persists
  <1>8. CASE Looks(w)
    <2>1. /\ Works(w) /\ Works(w)' /\ Others(w) /\ UNCHANGED << running, pending, delayed, suspend >>
          /\ job'[w].p = job[w].p /\ job[w].pc # "finish" /\ (Broadcasts(w) => Broadcasts(w)')
      BY <1>8 DEF Looks, Clearing, flowVars, procVars, userVars, Broadcasts
    <2> QED BY <1>5, <2>1, Persists
  <1>9. CASE Suspended(w)
    <2>1. PICK p \in Procs : p = job[w].p /\ \A v \in Workers : v # w /\ Works(v) => job[v].p # p
      BY <1>4, <1>9 DEF Suspended
    <2>2. /\ running[p] /\ suspend[p] = 0 /\ pending[p] = 0 /\ delayed[p] = 0
      BY <1>1, <1>9, <2>1, Runner DEF Suspended, Clearing
    <2>3. /\ Others(w) /\ Works(w)' /\ job'[w].p = p /\ Broadcasts(w)'
          /\ UNCHANGED << running, pending, delayed >>
          /\ \E n : suspend' = [suspend EXCEPT ![p] = n]
      BY <1>9, <2>1 DEF Suspended, ClearsSelf, Clear, Goes, Broadcasts, Clearing, flowVars, userVars
    <2>4. Right(p)'
      BY <2>1, <2>2, <2>3, LoneRight
    <2>5. \A q \in Procs : q # p => suspend'[q] = suspend[q]
      BY <1>2, <2>3
    <2>6. \A q \in Procs : q # p => Right(q)'
      BY <1>6, <2>3, <2>5
    <2> QED BY <2>4, <2>6
  <1>10. CASE Sends(w)
    <2> DEFINE p == job[w].p
               d == down[p][job[w].k]
    <2>1. /\ Works(w) /\ p \in made /\ p \in Procs /\ job[w].pc = "send"
          /\ job[w].k \in DOMAIN down[p] /\ d[1] \in made /\ d[1] \in Procs
          /\ IF Alive(d[1]) THEN Schedule(d[1], receivers[d[1]] = 0 /\ ~running[d[1]])
             ELSE UNCHANGED << running, pending >>
      BY <1>1, <1>4, <1>10, Sending DEF Shape
    <2>2. /\ Others(w) /\ UNCHANGED << delayed, suspend >>
          /\ Works(w)' /\ job'[w].p = p /\ Broadcasts(w)'
      BY <1>10 DEF Sends, ClearsSelf, Clear, Goes, Broadcasts, Clearing, procVars, userVars
    <2>3. Alive(d[1]) => ~final[d[1]]
      BY <1>1, <2>1, WantedDown
    <2>4. \A q \in Procs : Persist(q)
      BY <2>1, <2>2, Persists
    <2> HIDE DEF p, d
    <2>5. CASE Alive(d[1])
      BY <1>1, <1>3, <2>1, <2>2, <2>3, <2>4, <2>5, ScheduledRight
    <2>6. CASE ~Alive(d[1])
      BY <1>5, <2>1, <2>2, <2>4, <2>6
    <2> QED BY <2>5, <2>6
  <1>11. CASE Rests(w)
    <2>1. PICK p \in Procs : p = job[w].p /\ \A v \in Workers : v # w /\ Works(v) => job[v].p # p
      BY <1>4, <1>11 DEF Rests
    <2>2. running[p] /\ suspend[p] = 0 /\ pending[p] = 0 /\ delayed[p] = 0
      BY <1>1, <1>11, <2>1, Runner DEF Rests, Clearing
    <2> DEFINE doRun == ~Empty(Graph[p].strategy, queue[p]) \/ closeQueue[p]
    <2>3. /\ running' = [running EXCEPT ![p] = doRun] /\ UNCHANGED << delayed, suspend >>
          /\ pending' = [pending EXCEPT ![p] = @ + (IF doRun THEN 1 ELSE 0)]
          /\ Others(w)
          /\ \/ final[p] /\ Works(w)' /\ job'[w].p = p /\ job'[w].pc = "finish"
             \/ ~Works(w)'
      BY <1>11, <2>1 DEF Rests, Goes, Ends, Works, procVars, userVars
    <2>4. final[p] => ~doRun
      BY <1>1 DEF Closing
    <2> HIDE DEF doRun
    <2>5. \A v \in Workers : Works(v)' /\ job'[v].p = p => v = w
      BY <2>1, <2>3 DEF Others, Works
    <2>6. Right(p)'
      <3>1. CASE doRun
        <4>1. pending'[p] = 1 /\ delayed'[p] = 0 /\ suspend'[p] = 0
          BY <1>2, <2>2, <2>3, <3>1
        <4>2. running'[p]
          BY <1>2, <2>3, <3>1
        <4>3. \A v \in Workers : Works(v)' => job'[v].p # p
          BY <2>3, <2>4, <2>5, <3>1
        <4> QED BY <4>1, <4>2, <4>3 DEF Right
      <3>2. CASE ~doRun
        <4>1. pending'[p] = 0 /\ delayed'[p] = 0 /\ suspend'[p] = 0
          BY <1>2, <2>2, <2>3, <3>2
        <4>2. \A v \in Workers : Works(v)' /\ job'[v].p = p => job'[v].pc = "finish"
          BY <2>3, <2>5
        <4> QED BY <2>5, <4>1, <4>2 DEF Right
      <3> QED BY <3>1, <3>2
    <2>7. \A q \in Procs : q # p => running'[q] = running[q] /\ pending'[q] = pending[q]
      BY <1>2, <2>3
    <2>8. \A q \in Procs : q # p => Right(q)'
      BY <1>6, <2>3, <2>7
    <2> QED BY <2>6, <2>8
  <1>12. CASE Closes(w)
    <2>1. /\ Works(w) /\ job[w].p \in Procs /\ down[job[w].p] # << >>
          /\ UNCHANGED << job, delayed, suspend >>
      BY <1>4, <1>12 DEF Closes, userVars
    <2>2. PICK d : d = Head(down[job[w].p])
      OBVIOUS
    <2>3. IF Alive(d[1]) THEN remove_sender(d[1]) ELSE UNCHANGED << running, pending >>
      BY <1>12, <2>2 DEF Closes
    <2>4. 1 \in DOMAIN down[job[w].p] /\ d = down[job[w].p][1]
      BY <1>1, <2>1, <2>2 DEF Shape
    <2>5. Alive(d[1]) => d[1] \in Procs /\ ~final[d[1]]
      BY <1>1, <2>1, <2>4, WantedDown
    <2>6. \A q \in Procs : Persist(q)
      BY <2>1 DEF Persist, Works, Broadcasts
    <2>7. CASE Alive(d[1]) /\ senders[d[1]] = 1
      <3>1. Schedule(d[1], receivers[d[1]] = 0 /\ ~running[d[1]])
        BY <2>3, <2>7 DEF remove_sender
      <3> QED BY <1>1, <1>3, <2>1, <2>5, <2>6, <2>7, <3>1, ScheduledRight
    <2>8. CASE ~(Alive(d[1]) /\ senders[d[1]] = 1)
      <3>1. UNCHANGED << running, pending >>
        BY <2>3, <2>8 DEF remove_sender
      <3> QED BY <1>5, <2>1, <2>6, <3>1
    <2> QED BY <2>7, <2>8
  <1>13. CASE Finishes(w)
    <2>1. Others(w) /\ ~Works(w)' /\ UNCHANGED << running, pending, delayed, suspend >>
      BY <1>13 DEF Finishes, Ends, Works, flowVars, procVars
    <2> QED BY <1>5, <2>1, Persists
  <1>14. CASE Thinks(w)
    <2>1. PICK p \in Procs : p = job[w].p /\ \A v \in Workers : v # w /\ Works(v) => job[v].p # p
      BY <1>4, <1>14 DEF Thinks
    <2>2. /\ running[p] /\ suspend[p] = 0 /\ pending[p] = 0 /\ delayed[p] = 0
      BY <1>1, <1>14, <2>1, Runner DEF Thinks, Clearing
    <2>3. /\ UNCHANGED << running, pending, suspend >> /\ Others(w)
          /\ Works(w)' => job'[w].p = p
          /\ \/ delayed' = delayed
             \/ delayed' = [delayed EXCEPT ![p] = @ + 1] /\ ~Works(w)'
      BY <1>14, <2>1 DEF Thinks, Ends, Goes, Suspends, Works, flowVars, procVars
    <2>4. Right(p)'
      <3>1. CASE delayed' = delayed
        BY <2>1, <2>2, <2>3, <3>1, LoneRight
      <3>2. CASE delayed' = [delayed EXCEPT ![p] = @ + 1] /\ ~Works(w)'
        <4>1. delayed'[p] = 1
          BY <1>2, <2>2, <3>2
        <4>2. \A v \in Workers : Works(v)' => job'[v].p # p
          BY <2>1, <2>3, <3>2 DEF Others, Works
        <4> QED BY <2>2, <2>3, <4>1, <4>2 DEF Right
      <3> QED BY <2>3, <3>1, <3>2
    <2>5. \A q \in Procs : q # p => delayed'[q] = delayed[q]
      BY <1>2, <2>3
    <2>6. \A q \in Procs : q # p => Right(q)'
      BY <1>6, <2>3, <2>5
    <2> QED BY <2>4, <2>6
  <1>15. ASSUME NEW p \in Procs, Takes(w, p)
         PROVE  Others(w) /\ Works(w)' /\ job'[w].p = p
    BY <1>15 DEF Takes, Goes, Clear
  <1>16. ASSUME NEW p \in Procs, (Reads(w) /\ p = job[w].p) \/ Starts(w, p)
         PROVE  \A q \in Procs : Right(q)'
    <2>1. /\ pending'[p] = 0 /\ delayed'[p] = 0 /\ suspend[p] = 0 /\ running[p]
          /\ \A q \in Procs : q # p => pending'[q] = pending[q]
          /\ \A v \in Workers : v # w /\ Works(v) => job[v].p # p
      BY <1>1, <1>16, Taker
    <2>2. UNCHANGED << running, delayed, suspend >>
      BY <1>16 DEF Reads, Starts, userVars
    <2>3. Others(w) /\ (Works(w)' => job'[w].p = p)
      <3>1. CASE Takes(w, p)
        BY <1>15, <3>1
      <3>2. CASE UNCHANGED job /\ ~Works(w)
        BY <3>2 DEF Others, Works
      <3>3. CASE Goes(w, p, "decide") \/ Goes(w, p, "dequeue")
        BY <3>3 DEF Goes
      <3> QED BY <1>16, <3>1, <3>2, <3>3 DEF Reads, Starts
    <2>4. Right(p)'
      BY <2>1, <2>2, <2>3, LoneRight
    <2>5. \A q \in Procs : q # p => Right(q)'
      BY <1>6, <2>1, <2>2, <2>3
    <2> QED BY <2>4, <2>5
  <1>17. ASSUME NEW p \in Procs, Delays(w, p) PROVE \A q \in Procs : Right(q)'
    <2>1. /\ ~Works(w) /\ delayed[p] > 0 /\ UNCHANGED << running, pending, suspend >>
          /\ delayed' = [delayed EXCEPT ![p] = @ - 1]
          /\ Others(w) /\ (Works(w)' => job'[w].p = p)
      BY <1>17 DEF Delays, Suspends, Goes, Others, Works, flowVars, procVars
    <2>2. pending[p] \in Nat /\ delayed[p] \in Nat /\ pending[p] + delayed[p] <= 1
      BY <1>1, <1>2 DEF Rights
    <2>3. /\ pending[p] = 0 /\ delayed'[p] = 0 /\ pending[p] + delayed[p] > 0
      BY <1>2, <2>1, <2>2
    <2>4. /\ running[p] /\ suspend[p] = 0
          /\ \A v \in Workers : Works(v) => job[v].p # p
      BY <1>1, <2>3 DEF Rights
    <2>5. Right(p)'
      BY <2>1, <2>3, <2>4, LoneRight
    <2>6. \A q \in Procs : q # p => delayed'[q] = delayed[q]
      BY <1>2, <2>1
    <2>7. \A q \in Procs : q # p => Right(q)'
      BY <1>6, <2>1, <2>6
    <2> QED BY <2>5, <2>7
  <1>18. Releases(w) => \A q \in Procs : Right(q)'
    BY ReleaseRights
  <1>19. Reads(w) => Works(w)
    BY DEF Reads
  <1> QED BY <1>4, <1>7, <1>8, <1>9, <1>10, <1>11, <1>12, <1>13, <1>14, <1>16, <1>17, <1>18, <1>19, <1>20
         DEF Runs

LEMMA RightsStep ==
    ASSUME Plain, CInv, [Next]_vars PROVE Rights'
  <1>1. graph' = graph /\ Flat /\ Shape /\ Rights /\ Shape'
    BY GraphStays, ShapeStep DEF CInv
  <1>2. \A q \in Procs : Right(q)'
    <2>1. ASSUME NEW p \in Procs, Expires(p) PROVE \A q \in Procs : Right(q)'
      <3>1. /\ running \in [Procs -> BOOLEAN] /\ pending \in [Procs -> Nat] /\ suspend \in [Procs -> Nat]
            /\ delayed \in [Procs -> Nat]
        BY <1>1 DEF Shape
      <3>2. /\ UNCHANGED << job, running, suspend >>
            /\ pending' = [pending EXCEPT ![p] = 0] /\ delayed' = [delayed EXCEPT ![p] = 0]
        BY <2>1 DEF Expires, procVars
      <3>3. \A q \in Procs : Right(q) /\ Persist(q)
        BY <1>1, <3>2, RightsSplit DEF Persist, Works, Broadcasts
      <3>4. \A q \in Procs : q # p => Right(q)'
        BY <3>1, <3>2, <3>3, RightStays
      <3>5. pending'[p] = 0 /\ delayed'[p] = 0
        BY <3>1, <3>2
      <3>6. Right(p)'
        BY <3>2, <3>3, <3>5 DEF Right, Persist
      <3> QED BY <3>4, <3>6
    <2>2. UNCHANGED vars => \A q \in Procs : Right(q)'
      <3>1. SUFFICES ASSUME UNCHANGED vars PROVE \A q \in Procs : Right(q)'
        OBVIOUS
      <3>2. UNCHANGED << job, running, suspend, pending, delayed >>
        BY <3>1 DEF vars, flowVars, procVars, userVars
      <3>3. \A q \in Procs : Right(q) /\ Persist(q)
        BY <1>1, <3>2, RightsSplit DEF Persist, Works, Broadcasts
      <3> QED BY <3>2, <3>3, RightStays
    <2> QED BY <1>1, <2>1, <2>2, UserRights, JobRights DEF Flat
  <1>3. \A w \in Workers : Works(w)' => job'[w].p \in Procs
    BY <1>1, Frame DEF Shape, IsJob
  <1> QED BY <1>1, <1>2, <1>3, Frame DEF Rights, Right

-----------------------------------------------------------------------------
(***************************************************************************)
(* What the suspend count waits for.                                       *)
(***************************************************************************)
\* The count of u covers what it waits for, of Suspension.
Enough(u) ==
    /\ Cardinality(Waiting(u)) <= suspend[u]
    /\ \A w \in Workers : Works(w) /\ Broadcasts(w) /\ job[w].p = u =>
          Cardinality(Waiting(u)) + 1 + Unsent(w) <= suspend[u]

\* The jobs of u that broadcast did, and have as much to send.
NoNewer(u) ==
    \A v \in Workers : Works(v)' /\ Broadcasts(v)' /\ job'[v].p = u =>
        Works(v) /\ Broadcasts(v) /\ job[v].p = u /\ Unsent(v)' = Unsent(v)

LEMMA UnsentCount ==
    ASSUME Shape, Jobs, NEW w \in Workers, Works(w)
    PROVE  Unsent(w) \in Nat
  <1>1. CASE job[w].pc = "send"
    <2>1. job[w].n \in Nat /\ job[w].k \in Nat /\ job[w].k <= job[w].n
      BY <1>1 DEF Jobs, Shape, IsJob
    <2> QED BY <2>1 DEF Unsent
  <1>2. CASE job[w].pc # "send"
    BY <1>2 DEF Unsent
  <1> QED BY <1>1, <1>2

LEMMA WaitingCounts ==
    ASSUME Shape, NEW u, NEW S, S \subseteq Waiting(u)
    PROVE  /\ IsFiniteSet(S) /\ Cardinality(S) \in Nat /\ Cardinality(S) <= Cardinality(Waiting(u))
           /\ \A x : Cardinality(S \cup {x}) \in Nat /\ Cardinality(S \cup {x}) <= Cardinality(Waiting(u)) + 1
           /\ \A x \in Waiting(u) : x \notin S => Cardinality(S) + 1 <= Cardinality(Waiting(u))
  <1>1. IsFiniteSet(Waiting(u)) /\ Cardinality(Waiting(u)) \in Nat
    BY WaitingFinite DEF Shape
  <1> DEFINE W == Waiting(u)
  <1>2. IsFiniteSet(W) /\ Cardinality(W) \in Nat /\ S \subseteq W
    BY <1>1
  <1> HIDE DEF W
  <1>3. IsFiniteSet(S) /\ Cardinality(S) \in Nat /\ Cardinality(S) <= Cardinality(W)
    BY <1>2, FS_Subset, FS_CardinalityType
  <1>4. ASSUME NEW x PROVE Cardinality(S \cup {x}) \in Nat /\ Cardinality(S \cup {x}) <= Cardinality(W) + 1
    <2>1. Cardinality(S \cup {x}) = IF x \in S THEN Cardinality(S) ELSE Cardinality(S) + 1
      BY <1>3, FS_AddElement
    <2> QED BY <1>2, <1>3, <2>1
  <1>5. ASSUME NEW x \in W, x \notin S PROVE Cardinality(S) + 1 <= Cardinality(W)
    <2>1. Cardinality(S \cup {x}) = Cardinality(S) + 1
      BY <1>3, <1>5, FS_AddElement
    <2>2. S \cup {x} \subseteq W
      BY <1>2, <1>5
    <2>3. Cardinality(S \cup {x}) <= Cardinality(W)
      BY <1>2, <2>2, FS_Subset
    <2> QED BY <2>1, <2>3
  <1> QED BY <1>3, <1>4, <1>5 DEF W

\* What w waits for once it waits for less.
LEMMA EnoughStays ==
    ASSUME Shape, Jobs, graph' = graph, NEW u \in Procs, Enough(u), Waiting(u)' \subseteq Waiting(u),
           suspend'[u] = suspend[u], NoNewer(u)
    PROVE  Enough(u)'
  <1>1. PICK c, e : c = Cardinality(Waiting(u)) /\ e = Cardinality(Waiting(u)')
    OBVIOUS
  <1>2. c \in Nat /\ e \in Nat /\ e <= c /\ suspend[u] \in Nat
    <2>1. c \in Nat
      BY <1>1, WaitingFinite DEF Shape
    <2>2. e \in Nat /\ e <= c
      BY <1>1, WaitingCounts
    <2> QED BY <2>1, <2>2 DEF Shape
  <1>3. c <= suspend[u]
    BY <1>1 DEF Enough
  <1>4. ASSUME NEW w \in Workers, Works(w)', Broadcasts(w)', job'[w].p = u
        PROVE  e + 1 + Unsent(w)' <= suspend'[u]
    <2>1. Works(w) /\ Broadcasts(w) /\ job[w].p = u /\ Unsent(w)' = Unsent(w)
      BY <1>4 DEF NoNewer
    <2>2. c + 1 + Unsent(w) <= suspend[u] /\ Unsent(w) \in Nat
      BY <1>1, <2>1, UnsentCount DEF Enough
    <2> HIDE DEF Unsent
    <2> QED BY <1>2, <2>1, <2>2
  <1>5. e <= suspend'[u]
    BY <1>2, <1>3
  <1> QED BY <1>1, <1>4, <1>5 DEF Enough

LEMMA NoneNewer ==
    ASSUME NEW w \in Workers, Others(w), NEW u,
           \/ ~(Works(w)' /\ Broadcasts(w)')
           \/ job'[w].p # u
           \/ Works(w) /\ Broadcasts(w) /\ job[w].p = u /\ Unsent(w)' = Unsent(w)
    PROVE  NoNewer(u)
  <1>1. ASSUME NEW v \in Workers, v # w, Works(v)', Broadcasts(v)', job'[v].p = u
        PROVE  Works(v) /\ Broadcasts(v) /\ job[v].p = u /\ Unsent(v)' = Unsent(v)
    <2>1. job'[v] = job[v]
      BY <1>1 DEF Others
    <2> QED BY <1>1, <2>1 DEF Works, Broadcasts, Unsent
  <1> QED BY <1>1 DEF NoNewer

\* A job that tells a process goes on without broadcasting, or ends.
LEMMA CalledQuiet ==
    ASSUME Shape, Jobs, Rights, Suspension, NEW w \in Workers, Works(w), job[w].pc \in Clearing, Called(w)
    PROVE  Others(w) /\ ~(Works(w)' /\ Broadcasts(w)')
  <1>1. Others(w)
    BY DEF Called, Clear, Goes, Ends
  <1>2. CASE job[w].then = "apply"
    BY <1>2 DEF Called, Clear, Goes, Ends, Works, Broadcasts, Clearing
  <1>3. CASE job[w].then # "apply"
    <2>1. Tail(job[w].cts) = << >> /\ job[w].then = "end"
      BY <1>3, TellingSelf
    <2> QED BY <1>1, <2>1 DEF Called, Ends, Works
  <1> QED BY <1>1, <1>2, <1>3

LEMMA ReleaseEnough ==
    ASSUME Plain, CInv, [Next]_vars, NEW w \in Workers, Releases(w)
    PROVE  \A q \in Procs : Enough(q)'
  <1>1. graph' = graph /\ Shape /\ Built /\ Jobs /\ Rights /\ Suspension
    BY GraphStays DEF CInv
  <1>2. /\ Works(w) /\ job[w].pc = "release" /\ job[w].pc \in Clearing /\ Called(w)
        /\ clear_to_send(Head(job[w].cts), job[w].low)
    BY DEF Releases, Clearing
  <1>3. Others(w) /\ ~(Works(w)' /\ Broadcasts(w)')
    BY <1>1, <1>2, CalledQuiet
  <1>4. \A q \in Procs : Enough(q) /\ NoNewer(q) /\ Waiting(q)' \subseteq Waiting(q)
    <2>1. \A v \in Workers : ~Sends(v)
      <3>1. \A v \in Workers : v # w => job'[v] = job[v]
        BY <1>3 DEF Others
      <3>2. ASSUME NEW v \in Workers, Sends(v), v # w PROVE FALSE
        <4>1. job[v].pc = "send" /\ Works(v) /\ job'[v] # job[v]
          <5>1. job[v].pc = "send" /\ Works(v)
            BY <3>2 DEF Sends
          <5>2. job[v].k \in Nat
            BY <1>1, <5>1 DEF Shape, IsJob
          <5>3. ClearsSelf(v) \/ job'[v].k = job[v].k + 1
            BY <3>2 DEF Sends
          <5> QED BY <5>1, <5>2, <5>3 DEF ClearsSelf, Clear, Goes
        <4> QED BY <3>1, <3>2, <4>1
      <3>3. ~Sends(w)
        BY <1>2 DEF Sends
      <3> QED BY <3>2, <3>3
    <2>2. \A q \in Procs : Waiting(q)' \subseteq Waiting(q)
      BY <2>1, WaitingKept
    <2>3. \A q \in Procs : Enough(q)
      BY <1>1 DEF Suspension, Enough
    <2> QED BY <1>3, <2>2, <2>3, NoneNewer
  <1>5. PICK u : u = Head(job[w].cts)
    OBVIOUS
  <1>6. suspend' = [suspend EXCEPT ![u] = IF suspend[u] > 0 THEN suspend[u] - 1 ELSE 0]
        /\ suspend \in [Procs -> Nat]
    BY <1>1, <1>2, <1>5 DEF clear_to_send, Shape
  <1>7. \A q \in Procs : q # u => Enough(q)'
    <2>1. \A q \in Procs : q # u => suspend'[q] = suspend[q]
      BY <1>6
    <2> QED BY <1>1, <1>4, <2>1, EnoughStays
  <1>8. PICK c, e : c = Cardinality(Waiting(u)) /\ e = Cardinality(Waiting(u)')
    OBVIOUS
  <1>9. CASE job[w].then = "apply"
    <2>1. PICK p : p = job[w].p
      OBVIOUS
    <2>2. u \in Procs /\ p \in Waiting(u) /\ suspend[u] > 0
      BY <1>1, <1>2, <1>5, <1>9, <2>1, Telling
    <2>3. p \notin Waiting(u)'
      BY <1>5, <1>9, <2>1, WaitingCalled
    <2>4. c \in Nat /\ e \in Nat /\ e + 1 <= c
      <3>1. Waiting(u)' \subseteq Waiting(u)
        BY <1>4, <2>2
      <3>2. c \in Nat
        BY <1>1, <1>8, WaitingFinite DEF Shape
      <3>3. e \in Nat /\ e + 1 <= c
        BY <1>1, <1>8, <2>2, <2>3, <3>1, WaitingCounts
      <3> QED BY <3>2, <3>3
    <2>5. suspend[u] \in Nat /\ suspend'[u] = suspend[u] - 1 /\ c <= suspend[u]
      BY <1>4, <1>6, <1>8, <2>2 DEF Enough
    <2>6. ASSUME NEW v \in Workers, Works(v)', Broadcasts(v)', job'[v].p = u
          PROVE  e + 1 + Unsent(v)' <= suspend'[u]
      <3>1. Works(v) /\ Broadcasts(v) /\ job[v].p = u /\ Unsent(v)' = Unsent(v)
        BY <1>4, <2>2, <2>6 DEF NoNewer
      <3>2. c + 1 + Unsent(v) <= suspend[u] /\ Unsent(v) \in Nat
        BY <1>1, <1>4, <1>8, <2>2, <3>1, UnsentCount DEF Enough
      <3> HIDE DEF Unsent
      <3> QED BY <2>4, <2>5, <3>1, <3>2
    <2>7. e <= suspend'[u]
      BY <2>4, <2>5
    <2>8. Enough(u)'
      BY <1>8, <2>6, <2>7 DEF Enough
    <2> QED BY <1>7, <2>8
  <1>10. CASE job[w].then # "apply"
    <2>1. /\ u = job[w].p /\ u \in Procs /\ c + 1 <= suspend[u]
          /\ Tail(job[w].cts) = << >> /\ job[w].then = "end"
      BY <1>1, <1>2, <1>5, <1>8, <1>10, TellingSelf
    <2>2. ASSUME NEW v \in Workers, Works(v)', job'[v].p = u PROVE FALSE
      <3>1. ~Works(w)'
        BY <1>2, <2>1 DEF Called, Ends, Works
      <3>2. v # w /\ job'[v] = job[v]
        BY <1>3, <2>2, <3>1 DEF Others
      <3> QED BY <1>1, <1>2, <2>1, <2>2, <3>2 DEF Rights, Works
    <2>3. c \in Nat /\ e \in Nat /\ e <= c
      BY <1>1, <1>4, <1>8, <2>1, WaitingCounts, WaitingFinite DEF Shape
    <2>4. e <= suspend'[u]
      <3>1. suspend[u] \in Nat /\ suspend[u] > 0
        BY <1>6, <2>1, <2>3
      <3>2. suspend'[u] = suspend[u] - 1
        BY <1>6, <2>1, <3>1
      <3> QED BY <2>1, <2>3, <3>1, <3>2
    <2>5. Enough(u)'
      BY <1>8, <2>2, <2>4 DEF Enough
    <2> QED BY <1>7, <2>5
  <1> QED BY <1>9, <1>10

LEMMA SendEnough ==
    ASSUME Plain, CInv, [Next]_vars, NEW w \in Workers, Sends(w)
    PROVE  \A q \in Procs : Enough(q)'
  <1>1. graph' = graph /\ Shape /\ Built /\ Jobs /\ Rights /\ Suspension
    BY GraphStays DEF CInv
  <1>2. PICK p, d : p = job[w].p /\ d = down[p][job[w].k]
    OBVIOUS
  <1>3. /\ Works(w) /\ job[w].pc = "send" /\ p \in Procs /\ Broadcasts(w)
        /\ job[w].k \in Nat /\ job[w].n \in Nat /\ job[w].k \in 1..job[w].n /\ job[w].low \in BOOLEAN
        /\ Alive(d[1]) => job[w].low
    <2>1. Works(w) /\ job[w].pc = "send"
      BY DEF Sends
    <2>2. /\ p \in Procs /\ job[w].k \in Nat /\ job[w].n \in Nat /\ job[w].low \in BOOLEAN
          /\ job[w].k \in 1..(job[w].n + 1) /\ job[w].k <= job[w].n
          /\ ~job[w].low => \A k \in 1..job[w].n : ~Alive(down[p][k][1])
      BY <1>1, <1>2, <2>1 DEF Shape, IsJob, Jobs
    <2>3. job[w].k \in 1..job[w].n
      BY <2>2
    <2> QED BY <1>2, <2>1, <2>2, <2>3 DEF Broadcasts
  <1>4. /\ Others(w) /\ UNCHANGED suspend /\ Works(w)' /\ job'[w].p = p /\ Broadcasts(w)'
        /\ Unsent(w)' \in Nat
        /\ IF job[w].low THEN Unsent(w)' + 1 <= Unsent(w) ELSE Unsent(w)' = 0
    <2>1. /\ Others(w) /\ UNCHANGED suspend /\ Works(w)' /\ job'[w].p = p /\ Broadcasts(w)'
      BY <1>2 DEF Sends, ClearsSelf, Clear, Goes, Broadcasts, Clearing, procVars
    <2>2. CASE ClearsSelf(w)
      <3>1. Unsent(w)' = 0
        BY <2>2 DEF ClearsSelf, Clear, Goes, Unsent
      <3>2. job[w].low => Unsent(w) = job[w].n + 1 - job[w].k
        BY <1>3 DEF Unsent
      <3> HIDE DEF Unsent
      <3> QED BY <1>3, <2>1, <3>1, <3>2
    <2>3. CASE /\ job[w].k # job[w].n /\ Goes(w, p, "send")
               /\ job'[w].n = job[w].n /\ job'[w].k = job[w].k + 1 /\ job'[w].low = job[w].low
      <3>1. Unsent(w)' = IF job[w].low THEN job[w].n + 1 - (job[w].k + 1) ELSE 0
        BY <2>3 DEF Goes, Unsent
      <3>2. job[w].low => Unsent(w) = job[w].n + 1 - job[w].k
        BY <1>3 DEF Unsent
      <3> HIDE DEF Unsent
      <3> QED BY <1>3, <2>1, <2>3, <3>1, <3>2
    <2> QED BY <1>2, <2>2, <2>3 DEF Sends
  <1>5. /\ \A q \in Procs : Enough(q)
        /\ \A q \in Procs : q # p => NoNewer(q)
    BY <1>1, <1>4, NoneNewer DEF Suspension, Enough
  <1>6. /\ \A q \in Procs : q # p => Waiting(q)' \subseteq Waiting(q)
        /\ Alive(d[1]) => Waiting(p)' \subseteq Waiting(p) \cup {d[1]}
        /\ ~Alive(d[1]) => Waiting(p)' \subseteq Waiting(p)
    BY <1>2, <1>3, WaitingSent
  <1>7. \A q \in Procs : q # p => Enough(q)'
    BY <1>1, <1>4, <1>5, <1>6, EnoughStays
  <1>8. PICK c, e, a, b : /\ c = Cardinality(Waiting(p)) /\ e = Cardinality(Waiting(p)')
                          /\ a = Unsent(w) /\ b = Unsent(w)'
    OBVIOUS
  <1>9. c \in Nat /\ e \in Nat /\ (IF Alive(d[1]) THEN e <= c + 1 ELSE e <= c)
    <2>1. c \in Nat /\ IsFiniteSet(Waiting(p)) /\ e \in Nat
      <3>1. c \in Nat /\ IsFiniteSet(Waiting(p))
        BY <1>1, <1>8, WaitingFinite DEF Shape
      <3>2. Waiting(p)' \subseteq Waiting(p) \cup {d[1]}
        BY <1>6
      <3>3. IsFiniteSet(Waiting(p) \cup {d[1]})
        BY <3>1, FS_AddElement
      <3>4. IsFiniteSet(Waiting(p)')
        BY <3>2, <3>3, FS_Subset
      <3> QED BY <1>8, <3>1, <3>4, FS_CardinalityType
    <2>2. CASE Alive(d[1])
      <3>1. Waiting(p)' \subseteq Waiting(p) \cup {d[1]} /\ IsFiniteSet(Waiting(p) \cup {d[1]})
        BY <1>6, <2>1, <2>2, FS_AddElement
      <3>2. e <= Cardinality(Waiting(p) \cup {d[1]})
        BY <1>8, <3>1, FS_Subset
      <3>3. Cardinality(Waiting(p) \cup {d[1]}) \in Nat
            /\ Cardinality(Waiting(p) \cup {d[1]}) <= c + 1
        BY <1>1, <1>8, WaitingCounts
      <3> QED BY <2>1, <2>2, <3>2, <3>3
    <2>3. CASE ~Alive(d[1])
      BY <1>1, <1>6, <1>8, <2>1, <2>3, WaitingCounts
    <2> QED BY <2>2, <2>3
  <1>10. /\ a \in Nat /\ b \in Nat /\ suspend[p] \in Nat /\ suspend'[p] = suspend[p]
         /\ c + 1 + a <= suspend[p] /\ (IF job[w].low THEN b + 1 <= a ELSE b = 0)
    BY <1>1, <1>2, <1>3, <1>4, <1>5, <1>8, UnsentCount DEF Enough, Shape
  <1>11. e + 1 + b <= suspend'[p]
    <2>1. CASE Alive(d[1])
      BY <1>3, <1>9, <1>10, <2>1
    <2>2. CASE ~Alive(d[1])
      BY <1>9, <1>10, <2>2
    <2> QED BY <2>1, <2>2
  <1>12. Enough(p)'
    <2>1. ASSUME NEW v \in Workers, Works(v)', Broadcasts(v)', job'[v].p = p
          PROVE  e + 1 + Unsent(v)' <= suspend'[p]
      <3>1. v # w => Works(v) /\ job[v].p = p
        BY <1>4, <2>1 DEF Others, Works
      <3>2. v = w
        BY <1>1, <1>2, <1>3, <3>1 DEF Rights
      <3> QED BY <1>8, <1>11, <3>2
    <2>2. e <= suspend'[p]
      BY <1>9, <1>10, <1>11
    <2> QED BY <1>8, <2>1, <2>2 DEF Enough
  <1> QED BY <1>7, <1>12

LEMMA SuspensionStep ==
    ASSUME Plain, CInv, [Next]_vars PROVE Suspension'
  <1>1. graph' = graph /\ Flat /\ Shape /\ Built /\ Jobs /\ Rights /\ Suspension /\ Shape'
    BY GraphStays, ShapeStep DEF CInv
  <1>2. \A q \in Procs : Enough(q)
    BY <1>1 DEF Suspension, Enough
  <1>3. ASSUME \A w \in Workers : ~Sends(w), UNCHANGED suspend, \A q \in Procs : NoNewer(q)
        PROVE  \A q \in Procs : Enough(q)'
    BY <1>1, <1>2, <1>3, WaitingKept, EnoughStays
  <1>4. ASSUME UNCHANGED job
        PROVE  /\ \A w \in Workers : ~Sends(w)
               /\ \A q \in Procs : NoNewer(q)
    <2>1. ASSUME NEW w \in Workers, Sends(w) PROVE FALSE
      <3>1. job[w].pc = "send" /\ Works(w)
        BY <2>1 DEF Sends
      <3>2. job[w].k \in Nat
        BY <1>1, <3>1 DEF Shape, IsJob
      <3>3. ClearsSelf(w) \/ job'[w].k = job[w].k + 1
        BY <2>1 DEF Sends
      <3> QED BY <1>4, <3>1, <3>2, <3>3 DEF ClearsSelf, Clear, Goes
    <2> QED BY <1>4, <2>1 DEF NoNewer, Works, Broadcasts, Unsent
  <1>5. ASSUME UserNext \/ (\E p \in Procs : Expires(p)) \/ UNCHANGED vars
        PROVE  \A q \in Procs : Enough(q)'
    <2>1. UNCHANGED << job, suspend >>
      BY <1>5 DEF UserNext, Attach, CopyReceiver, SetReady, DestroyReceiver, StartReady, Send,
                  CopySender, CloseSender, AssignSender, Expires, vars, userVars, procVars
    <2> QED BY <1>3, <1>4, <2>1
  <1>6. ASSUME NEW w \in Workers, Runs(w) PROVE \A q \in Procs : Enough(q)'
    <2>1. CASE \E v \in Workers : Sends(v)
      BY <2>1, SendEnough
    <2>2. CASE Releases(w)
      BY <2>2, ReleaseEnough
    <2>3. ASSUME \A v \in Workers : ~Sends(v), UNCHANGED suspend, Others(w),
                 (Works(w)' => ~Broadcasts(w)') \/ job'[w] = job[w]
          PROVE  \A q \in Procs : Enough(q)'
      <3>1. \A q \in Procs : NoNewer(q)
        BY <2>3, NoneNewer DEF Works, Broadcasts, Unsent
      <3> QED BY <1>3, <2>3, <3>1
    <2> SUFFICES ASSUME \A v \in Workers : ~Sends(v), ~Releases(w) PROVE \A q \in Procs : Enough(q)'
      BY <2>1, <2>2
    <2>4. CASE Skips(w)
      <3>1. Works(w) /\ job[w].pc \in Clearing /\ Called(w) /\ UNCHANGED suspend
        BY <2>4 DEF Skips, Clearing, procVars
      <3> QED BY <1>1, <2>3, <3>1, CalledQuiet
    <2>5. CASE Looks(w)
      <3>1. /\ UNCHANGED suspend /\ Others(w) /\ Unsent(w)' = Unsent(w)
            /\ Works(w)' /\ Works(w) /\ job'[w].p = job[w].p /\ (Broadcasts(w)' => Broadcasts(w))
        BY <2>5 DEF Looks, Clearing, procVars, Broadcasts, Unsent
      <3>2. \A q \in Procs : NoNewer(q)
        BY <3>1, NoneNewer
      <3> QED BY <1>3, <3>1, <3>2
    <2>6. CASE Rereads(w) \/ Rests(w) \/ Finishes(w) \/ Thinks(w)
      <3>1. UNCHANGED suspend /\ Others(w) /\ (Works(w)' => ~Broadcasts(w)')
        BY <2>6 DEF Rereads, Rests, Finishes, Thinks, Goes, Ends, Suspends, Works, Broadcasts, Clearing, procVars
      <3> QED BY <2>3, <3>1
    <2>7. CASE Closes(w)
      <3>1. UNCHANGED << job, suspend >>
        BY <2>7 DEF Closes
      <3> QED BY <1>3, <1>4, <3>1
    <2>8. ASSUME NEW p \in Procs, Takes(w, p) PROVE Others(w) /\ (Works(w)' => ~Broadcasts(w)')
      BY <2>8 DEF Takes, Goes, Clear, Works, Broadcasts, Clearing
    <2>9. CASE Reads(w)
      <3>1. job[w].p \in Procs /\ Takes(w, job[w].p) /\ UNCHANGED suspend
        BY <1>1, <2>9 DEF Reads, Shape, IsJob
      <3> QED BY <2>3, <2>8, <3>1
    <2>10. ASSUME NEW p \in Procs, Starts(w, p) PROVE \A q \in Procs : Enough(q)'
      <3>1. UNCHANGED suspend
        BY <2>10 DEF Starts
      <3>2. CASE Takes(w, p)
        BY <2>3, <2>8, <3>1, <3>2
      <3>3. CASE UNCHANGED job
        BY <1>3, <1>4, <3>1, <3>3
      <3>4. CASE Goes(w, p, "decide") \/ Goes(w, p, "dequeue")
        <4>1. Others(w) /\ (Works(w)' => ~Broadcasts(w)')
          BY <3>4 DEF Goes, Works, Broadcasts, Clearing
        <4> QED BY <2>3, <3>1, <4>1
      <3> QED BY <2>10, <3>2, <3>3, <3>4 DEF Starts
    <2>11. ASSUME NEW p \in Procs, Delays(w, p) PROVE \A q \in Procs : Enough(q)'
      <3>1. UNCHANGED suspend
        BY <2>11 DEF Delays, procVars
      <3>2. CASE UNCHANGED job
        BY <1>3, <1>4, <3>1, <3>2
      <3>3. CASE Suspends(w, p)
        <4>1. Others(w) /\ (Works(w)' => ~Broadcasts(w)')
          BY <3>3 DEF Suspends, Goes, Works, Broadcasts, Clearing
        <4> QED BY <2>3, <3>1, <4>1
      <3> QED BY <2>11, <3>2, <3>3 DEF Delays
    <2>12. CASE Suspended(w)
      <3>1. PICK p \in Procs : p = job[w].p /\ \A v \in Workers : v # w /\ Works(v) => job[v].p # p
        BY <1>1, <2>12 DEF Suspended, Shape, IsJob, Rights
      <3>2. suspend[p] = 0
        BY <1>1, <2>12, <3>1, Runner DEF Suspended, Clearing
      <3>3. Cardinality(Waiting(p)') = 0
        <4>1. Cardinality(Waiting(p)) \in Nat /\ IsFiniteSet(Waiting(p)) /\ Cardinality(Waiting(p)) <= 0
          BY <1>1, <1>2, <3>2, WaitingFinite DEF Enough, Shape
        <4>2. Waiting(p) = {}
          BY <4>1, FS_EmptySet
        <4>3. Waiting(p)' = {}
          BY <4>2, WaitingKept
        <4> QED BY <4>3, FS_EmptySet
      <3>4. /\ Others(w) /\ Works(w)' /\ job'[w].p = p
            /\ suspend' = [suspend EXCEPT ![p] = IF job[w].low THEN job[w].n + 1 ELSE 1]
            /\ job[w].n \in Nat /\ job[w].low \in BOOLEAN
            /\ \/ Unsent(w)' = 0
               \/ Unsent(w)' = IF job[w].low THEN job[w].n ELSE 0
        <4>1. /\ Others(w) /\ Works(w)' /\ job'[w].p = p
              /\ suspend' = [suspend EXCEPT ![p] = IF job[w].low THEN job[w].n + 1 ELSE 1]
          BY <2>12, <3>1 DEF Suspended, ClearsSelf, Clear, Goes
        <4>2. job[w].n \in Nat /\ job[w].low \in BOOLEAN /\ job[w].k = 1
          BY <1>1, <2>12 DEF Suspended, Shape, IsJob, Jobs
        <4>3. CASE ClearsSelf(w)
          BY <4>1, <4>2, <4>3 DEF ClearsSelf, Clear, Goes, Unsent
        <4>4. CASE /\ Goes(w, p, "send")
                   /\ job'[w].n = job[w].n /\ job'[w].k = job[w].k /\ job'[w].low = job[w].low
          <5>1. Unsent(w)' = IF job[w].low THEN job[w].n + 1 - 1 ELSE 0
            BY <4>2, <4>4 DEF Goes, Unsent
          <5> HIDE DEF Unsent
          <5> QED BY <4>1, <4>2, <5>1
        <4> QED BY <2>12, <3>1, <4>3, <4>4 DEF Suspended
      <3>5. \A q \in Procs : q # p => Enough(q)'
        <4>1. \A q \in Procs : q # p => NoNewer(q) /\ suspend'[q] = suspend[q]
          BY <1>1, <3>4, NoneNewer DEF Shape
        <4> QED BY <1>1, <1>2, <4>1, WaitingKept, EnoughStays
      <3>6. suspend'[p] = IF job[w].low THEN job[w].n + 1 ELSE 1
        BY <1>1, <3>4 DEF Shape
      <3>7. 0 + 1 + Unsent(w)' <= suspend'[p] /\ 0 <= suspend'[p]
        <4> HIDE DEF Unsent
        <4> QED BY <3>4, <3>6
      <3>8. \A v \in Workers : Works(v)' /\ job'[v].p = p => v = w
        BY <3>1, <3>4 DEF Others, Works
      <3>9. Enough(p)'
        BY <3>3, <3>7, <3>8 DEF Enough
      <3> QED BY <3>5, <3>9
    <2> QED BY <1>6, <2>4, <2>5, <2>6, <2>7, <2>9, <2>10, <2>11, <2>12 DEF Runs
  <1>7. \A q \in Procs : Enough(q)'
    BY <1>1, <1>5, <1>6 DEF Flat
  <1>8. \A w \in Workers : Works(w)' => job'[w].p \in Procs
    BY <1>1, Frame DEF Shape, IsJob
  <1> QED BY <1>1, <1>7, <1>8, Frame DEF Suspension, Enough

-----------------------------------------------------------------------------
(***************************************************************************)
(* What a job has to clear, and to send.                                   *)
(***************************************************************************)
LEMMA SendsMoves ==
    ASSUME Shape, NEW w \in Workers, Sends(w) PROVE job'[w] # job[w]
  <1>1. job[w].pc = "send" /\ Works(w)
    BY DEF Sends
  <1>2. job[w].k \in Nat
    BY <1>1 DEF Shape, IsJob
  <1>3. ClearsSelf(w) \/ job'[w].k = job[w].k + 1
    BY DEF Sends
  <1> QED BY <1>1, <1>2, <1>3 DEF ClearsSelf, Clear, Goes

\* What a job is still to tell was taken has not been replaced.
LEMMA EmptyKept ==
    ASSUME Plain, CInv, [Next]_vars, NEW v \in Workers, NEW p \in Procs, NEW i \in DOMAIN Up(p),
           Clears(v, p, i)
    PROVE  queue'[p].items[i] = << >>
  <1>1. graph' = graph /\ Flat /\ Shape /\ Built /\ Jobs
    BY GraphStays DEF CInv
  <1>2. queue[p].items[i] = << >>
    <2>1. Works(v) /\ job[v].p = p /\ job[v].pc \in Clearing /\ job[v].then = "apply"
      BY DEF Clears
    <2> QED BY <1>1, <2>1 DEF Jobs
  <1>3. CASE \A w \in Workers : ~Sends(w)
    BY <1>1, <1>2, <1>3, QueuesShrink
  <1>4. ASSUME NEW w \in Workers, Sends(w) PROVE queue'[p].items[i] = << >>
    <2>1. PICK u, d : u = job[w].p /\ d = down[u][job[w].k]
      OBVIOUS
    <2>2. /\ d[2] \in DOMAIN Up(d[1]) /\ Up(d[1])[d[2]] = u /\ d[1] \in made /\ u \in made
          /\ job[w].k \in DOMAIN down[u] /\ Works(w) /\ job[w].pc = "send"
          /\ \/ queue' = [queue EXCEPT ![d[1]].items[d[2]] = Append(<< >>, job[w].out)]
             \/ UNCHANGED queue
      BY <1>1, <1>4, <2>1, Sending
    <2>3. d[1] \notin Waiting(u)
      <3>1. down[u] \in Seq(Procs \X Nat)
        BY <1>1, <2>2 DEF Shape
      <3>2. job[w].k \in job[w].k..Len(down[u])
        BY <3>1, <2>2
      <3> QED BY <1>1, <2>1, <2>2, <3>2 DEF Jobs
    <2>4. p # d[1] \/ i # d[2]
      BY <1>1, <2>2, <2>3 DEF Waiting, Owes
    <2>5. CASE UNCHANGED queue
      BY <1>2, <2>5
    <2>6. CASE queue' = [queue EXCEPT ![d[1]].items[d[2]] = Append(<< >>, job[w].out)]
      <3>1. queue'[p].items[i] = queue[p].items[i]
        BY <1>1, <2>4, <2>6, Appended
      <3> QED BY <1>2, <3>1
    <2> QED BY <2>2, <2>5, <2>6
  <1> QED BY <1>3, <1>4

\* Only the one job of a process that waits for nothing sees the close.
LEMMA FinalChanges ==
    ASSUME Plain, CInv, [Next]_vars, NEW r \in Procs
    PROVE  \/ final'[r] = final[r]
           \/ /\ ~final[r] /\ suspend[r] = 0
              /\ \A v \in Workers : Works(v) /\ job[v].p = r => job[v].pc = "dequeue"
  <1>1. graph' = graph /\ Flat /\ Shape /\ Rights /\ Closing /\ final \in [Procs -> BOOLEAN]
    BY GraphStays DEF CInv, Shape
  <1> DEFINE G == \/ final'[r] = final[r]
                  \/ /\ ~final[r] /\ suspend[r] = 0
                     /\ \A v \in Workers : Works(v) /\ job[v].p = r => job[v].pc = "dequeue"
  <1>2. UNCHANGED final => G
    OBVIOUS
  <1>3. ASSUME NEW w \in Workers, NEW p \in Procs, (Reads(w) /\ p = job[w].p) \/ Starts(w, p)
        PROVE  G
    <2>1. CASE p # r
      <3>1. UNCHANGED final \/ \E c : final' = [final EXCEPT ![p] = c]
        BY <1>3 DEF Reads, Starts, Takes
      <3> QED BY <1>1, <2>1, <3>1
    <2>2. CASE p = r
      <3>1. ~final[p] /\ suspend[p] = 0 /\ \A v \in Workers : v # w /\ Works(v) => job[v].p # p
        BY <1>1, <1>3, Taker
      <3>2. Works(w) => job[w].pc = "dequeue"
        BY <1>3 DEF Reads, Starts
      <3> QED BY <2>2, <3>1, <3>2
    <2> QED BY <2>1, <2>2
  <1> HIDE DEF G
  <1>4. ASSUME NEW w \in Workers, Runs(w) PROVE G
    <2>1. CASE Reads(w)
      <3>1. job[w].p \in Procs
        BY <1>1, <2>1 DEF Reads, Shape, IsJob
      <3> QED BY <1>3, <2>1, <3>1
    <2>2. ASSUME NEW p \in Procs, Delays(w, p) PROVE UNCHANGED final
      BY <2>2 DEF Delays, procVars
    <2>3. CASE \/ Skips(w) \/ Looks(w) \/ Rereads(w) \/ Releases(w) \/ Suspended(w) \/ Sends(w)
               \/ Rests(w) \/ Closes(w) \/ Finishes(w) \/ Thinks(w)
      BY <1>2, <2>3 DEF Skips, Looks, Rereads, Releases, Suspended, Sends, Rests, Closes, Finishes, Thinks,
                        procVars
    <2> QED BY <1>2, <1>3, <1>4, <2>1, <2>2, <2>3 DEF Runs
  <1>5. ASSUME UserNext \/ (\E p \in Procs : Expires(p)) \/ UNCHANGED vars PROVE UNCHANGED final
    BY <1>5 DEF UserNext, Attach, CopyReceiver, SetReady, DestroyReceiver, StartReady, Send,
                CopySender, CloseSender, AssignSender, Expires, vars, procVars
  <1>6. G
    BY <1>1, <1>2, <1>4, <1>5 DEF Flat
  <1> QED BY <1>6 DEF G

\* The downstream of a process that broadcasts changes when another is attached.
LEMMA DownKept ==
    ASSUME Plain, CInv, [Next]_vars, NEW v \in Workers, Works(v), job[v].pc \in {"suspend", "send"},
           NEW p, p = job[v].p
    PROVE  \/ down'[p] = down[p]
           \/ /\ \E r \in Procs \ made : Feeds(p, r) /\ \E i :
                    down'[p] = IF Graph[p].moveOnly THEN << << r, i >> >> ELSE Append(down[p], << r, i >>)
              /\ \A w \in Workers : ~Sends(w)
  <1>1. graph' = graph /\ Flat /\ Shape /\ Rights /\ p \in Procs /\ down \in [Procs -> Seq(Procs \X Nat)]
    BY GraphStays DEF CInv, Shape, IsJob
  <1>2. ASSUME NEW r \in Procs, Attach(r) PROVE
           \/ down'[p] = down[p]
           \/ /\ \E i : down'[p] = IF Graph[p].moveOnly THEN << << r, i >> >> ELSE Append(down[p], << r, i >>)
              /\ r \notin made /\ Feeds(p, r)
              /\ \A w \in Workers : ~Sends(w)
    <2>1. /\ r \notin made /\ UNCHANGED job
          /\ down' = [u \in Procs |-> IF \E i \in DOMAIN Up(r) : Up(r)[i] = u
                                     THEN append_receiver(u, << r, ArgumentFrom(r, u) >>) ELSE down[u]]
      BY <1>2 DEF Attach
    <2>2. \A w \in Workers : ~Sends(w)
      BY <1>1, <2>1, SendsMoves
    <2>3. \/ down'[p] = down[p]
          \/ Feeds(p, r) /\ down'[p] = append_receiver(p, << r, ArgumentFrom(r, p) >>)
      BY <1>1, <2>1 DEF Feeds
    <2> QED BY <2>1, <2>2, <2>3 DEF append_receiver
  <1>3. ASSUME NEW w \in Workers, Closes(w) PROVE down'[p] = down[p]
    <2>1. /\ Works(w) /\ job[w].pc = "finish"
          /\ \E s : down' = [down EXCEPT ![job[w].p] = s]
      BY <1>3 DEF Closes
    <2>2. job[w].p # p
      BY <1>1, <2>1 DEF Rights
    <2> QED BY <1>1, <2>1, <2>2
  <1>4. ASSUME UserNext, \A r \in Procs : ~Attach(r) PROVE UNCHANGED down
    BY <1>4 DEF UserNext, CopyReceiver, SetReady, DestroyReceiver, StartReady, Send,
                CopySender, CloseSender, AssignSender
  <1>5. ASSUME NEW w \in Workers, Runs(w) PROVE down'[p] = down[p]
    BY <1>1, <1>3, <1>5, CountsFrame
  <1>6. ASSUME (\E r \in Procs : Expires(r)) \/ UNCHANGED vars PROVE UNCHANGED down
    BY <1>6 DEF Expires, vars
  <1> QED BY <1>1, <1>2, <1>4, <1>5, <1>6 DEF Flat

\* What a job is to send stays within what is downstream, and what it knows to be gone stays gone.
LEMMA LoadKept ==
    ASSUME Plain, CInv, [Next]_vars, NEW v \in Workers, Works(v), job[v].pc \in {"suspend", "send"},
           NEW p, p = job[v].p
    PROVE  /\ job[v].n <= Len(down[p]) => job[v].n <= Len(down'[p])
           /\ ~job[v].low => down'[p] # << >> /\ \A k \in 1..job[v].n : ~Alive(down[p][k][1])'
  <1>1. /\ Shape /\ Built /\ Jobs /\ p \in Procs /\ down[p] \in Seq(Procs \X Nat) /\ job[v].n \in Nat
    BY DEF CInv, Shape, IsJob
  <1>2. /\ Graph[p].moveOnly => job[v].n = 1
        /\ ~Graph[p].moveOnly => job[v].n <= Len(down[p])
        /\ ~job[v].low => down[p] # << >> /\ \A k \in 1..job[v].n : ~Alive(down[p][k][1])
    BY <1>1 DEF Jobs
  <1>3. job[v].n <= Len(down[p]) =>
           /\ job[v].n <= Len(down'[p])
           /\ ~job[v].low => down'[p] # << >> /\ \A k \in 1..job[v].n : down'[p][k] = down[p][k]
    <2> DEFINE G == job[v].n <= Len(down[p]) =>
                       /\ job[v].n <= Len(down'[p])
                       /\ ~job[v].low => /\ down'[p] # << >>
                                         /\ \A k \in 1..job[v].n : down'[p][k] = down[p][k]
    <2>1. ASSUME down'[p] = down[p] PROVE G
      BY <1>2, <2>1
    <2>2. ASSUME NEW r \in Procs \ made, Feeds(p, r), NEW i,
                 down'[p] = IF Graph[p].moveOnly THEN << << r, i >> >> ELSE Append(down[p], << r, i >>)
          PROVE  G
      <3>1. CASE Graph[p].moveOnly
        <4>1. ASSUME down[p] # << >> PROVE FALSE
          <5>1. 1 \in DOMAIN down[p]
            BY <1>1, <4>1
          <5>2. PICK q : q = down[p][1][1]
            OBVIOUS
          <5>5. LET d == down[p][1] IN d[1] \in made /\ d[2] \in DOMAIN Up(d[1]) /\ Up(d[1])[d[2]] = p
            BY <1>1, <5>1 DEF Built
          <5>6. q \in made /\ Feeds(p, q)
            BY <5>2, <5>5 DEF Feeds
          <5>3. q \in made /\ q \in Procs /\ Feeds(p, q)
            BY <1>1, <5>6 DEF Shape
          <5>4. q = r
            BY <1>1, <2>2, <3>1, <5>3 DEF Plain
          <5> QED BY <2>2, <5>3, <5>4
        <4> QED BY <1>2, <2>2, <3>1, <4>1
      <3>2. CASE ~Graph[p].moveOnly
        <4>1. down[p] \in Seq((Procs \X Nat) \cup {<< r, i >>})
          BY <1>1, SeqMonotonic
        <4>2. /\ Len(down'[p]) = Len(down[p]) + 1 /\ down'[p] # << >>
              /\ \A k \in 1..Len(down[p]) : down'[p][k] = down[p][k]
          BY <2>2, <3>2, <4>1
        <4> QED BY <1>1, <3>2, <4>2
      <3> QED BY <3>1, <3>2
    <2> HIDE DEF G
    <2>3. \/ down'[p] = down[p]
          \/ \E r \in Procs \ made : Feeds(p, r) /\ \E i :
               down'[p] = IF Graph[p].moveOnly THEN << << r, i >> >> ELSE Append(down[p], << r, i >>)
      BY DownKept
    <2>4. G
      BY <2>1, <2>2, <2>3
    <2> QED BY <2>4 DEF G
  <1>4. ASSUME ~job[v].low, NEW k \in 1..job[v].n PROVE ~Alive(down[p][k][1])'
    <2>1. job[v].n <= Len(down[p])
      BY <1>1, <1>2, <1>4
    <2>2. down'[p][k] = down[p][k] /\ k \in DOMAIN down[p] /\ ~Alive(down[p][k][1])
      BY <1>1, <1>2, <1>3, <1>4, <2>1
    <2>3. PICK x : x = down[p][k][1]
      OBVIOUS
    <2>4. x \in made /\ ~Alive(x)
      BY <1>1, <2>2, <2>3 DEF Built
    <2>5. ~Alive(x)'
      BY <2>4, StaysGone
    <2> QED BY <2>2, <2>3, <2>5
  <1>5. ~job[v].low => job[v].n <= Len(down[p])
    BY <1>1, <1>2
  <1> QED BY <1>3, <1>4, <1>5

\* What a job is still to send is not waited for.
LEMMA TargetsKept ==
    ASSUME Plain, CInv, [Next]_vars, NEW v \in Workers, Works(v), job[v].pc = "send", ~Sends(v),
           NEW p, p = job[v].p
    PROVE  \A k \in job[v].k..Len(down'[p]) : down'[p][k][1] \notin Waiting(p)'
  <1>1. /\ Shape /\ Built /\ Jobs /\ Rights /\ p \in Procs /\ down[p] \in Seq(Procs \X Nat)
        /\ job[v].k \in Nat /\ job[v].n \in Nat
    BY DEF CInv, Shape, IsJob
  <1>2. /\ job[v].k \in 1..(job[v].n + 1) /\ job[v].k <= job[v].n /\ job[v].n <= Len(down[p])
        /\ \A k \in job[v].k..Len(down[p]) : down[p][k][1] \notin Waiting(p)
    BY <1>1 DEF Jobs
  <1>3. Waiting(p)' \subseteq Waiting(p)
    <2>1. CASE \A w \in Workers : ~Sends(w)
      BY <1>1, <2>1, WaitingKept
    <2>2. ASSUME NEW w \in Workers, Sends(w) PROVE Waiting(p)' \subseteq Waiting(p)
      <3>1. Works(w) /\ w # v
        BY <2>2 DEF Sends
      <3>2. job[w].p # p
        BY <1>1, <3>1 DEF Rights
      <3> QED BY <1>1, <2>2, <3>2, WaitingSent
    <2> QED BY <2>1, <2>2
  <1>4. CASE down'[p] = down[p]
    BY <1>2, <1>3, <1>4
  <1>5. ASSUME NEW r \in Procs \ made, NEW i,
               down'[p] = IF Graph[p].moveOnly THEN << << r, i >> >> ELSE Append(down[p], << r, i >>)
        PROVE  \A k \in job[v].k..Len(down'[p]) : down'[p][k][1] \notin Waiting(p)'
    <2>1. r \notin Waiting(p)
      BY <1>1 DEF Waiting, Owes, Built, Clears
    <2>2. ASSUME NEW k \in job[v].k..Len(down'[p])
          PROVE  down'[p][k][1] = r \/ (k \in job[v].k..Len(down[p]) /\ down'[p][k] = down[p][k])
      <3>1. CASE Graph[p].moveOnly
        <4>1. k = 1
          BY <1>1, <1>2, <1>5, <2>2, <3>1
        <4> QED BY <1>5, <3>1, <4>1
      <3>2. CASE ~Graph[p].moveOnly
        <4>1. down[p] \in Seq((Procs \X Nat) \cup {<< r, i >>})
          BY <1>1, SeqMonotonic
        <4>2. /\ Len(down'[p]) = Len(down[p]) + 1 /\ \A h \in 1..Len(down[p]) : down'[p][h] = down[p][h]
              /\ down'[p][Len(down[p]) + 1] = << r, i >> /\ Len(down[p]) \in Nat
          BY <1>5, <3>2, <4>1
        <4>3. k \in 1..Len(down[p]) \/ k = Len(down[p]) + 1
          BY <1>1, <1>2, <2>2, <4>2
        <4>4. CASE k \in 1..Len(down[p])
          <5>1. k \in job[v].k..Len(down[p])
            BY <1>1, <2>2, <4>2, <4>4
          <5>2. down'[p][k] = down[p][k]
            BY <4>2, <4>4
          <5> QED BY <5>1, <5>2
        <4>5. CASE k = Len(down[p]) + 1
          <5>1. down'[p][k] = << r, i >>
            BY <4>2, <4>5
          <5> QED BY <5>1
        <4> QED BY <4>3, <4>4, <4>5
      <3> QED BY <3>1, <3>2
    <2> QED BY <1>2, <1>3, <2>1, <2>2
  <1> QED BY <1>4, <1>5, DownKept

\* What w has to clear, of Jobs.
Informs(w) ==
    /\ job[w].pc \in Clearing =>
        /\ job[w].cts # << >>
        /\ job[w].then = "apply" \/ (job[w].then = "end" /\ job[w].cts = << job[w].p >>)
    /\ job[w].pc \in Clearing /\ job[w].then = "apply" =>
        /\ \A h, k \in DOMAIN job[w].cts : job[w].cts[h] = job[w].cts[k] => h = k
        /\ \A k \in DOMAIN job[w].cts : \E i \in DOMAIN Up(job[w].p) : Up(job[w].p)[i] = job[w].cts[k]
        /\ \A i \in DOMAIN Up(job[w].p) : Clears(w, job[w].p, i) => queue[job[w].p].items[i] = << >>
    /\ job[w].pc \in {"state", "release"} => ~final[Head(job[w].cts)]

\* What it has to send, and what it has seen.
Loaded(w) ==
    /\ job[w].pc \in {"suspend", "send"} =>
        /\ Graph[job[w].p].moveOnly => job[w].n = 1
        /\ ~Graph[job[w].p].moveOnly => job[w].n <= Len(down[job[w].p])
        /\ ~job[w].low => /\ down[job[w].p] # << >>
                          /\ \A k \in 1..job[w].n : ~Alive(down[job[w].p][k][1])
        /\ job[w].k \in 1..(job[w].n + 1)
    /\ job[w].pc = "suspend" => job[w].k = 1
    /\ job[w].pc = "send" =>
        /\ job[w].k <= job[w].n /\ job[w].n <= Len(down[job[w].p])
        /\ \A k \in job[w].k..Len(down[job[w].p]) : down[job[w].p][k][1] \notin Waiting(job[w].p)
    /\ job[w].pc = "finish" => final[job[w].p]

LEMMA JobsSplit ==
    Jobs <=> \A w \in Workers : Works(w) => Informs(w) /\ Loaded(w)
  <1> USE DEF Informs, Loaded
  <1>1. ASSUME Jobs, NEW w \in Workers, Works(w) PROVE Informs(w)
    BY <1>1 DEF Jobs
  <1>2. ASSUME Jobs, NEW w \in Workers, Works(w) PROVE Loaded(w)
    BY <1>2 DEF Jobs
  <1>3. ASSUME \A w \in Workers : Works(w) => Informs(w) /\ Loaded(w) PROVE Jobs
    BY <1>3 DEF Jobs
  <1> QED BY <1>1, <1>2, <1>3

LEMMA JobFits ==
    ASSUME Plain, CInv, [Next]_vars, NEW v \in Workers, Works(v), job'[v] = job[v]
    PROVE  Informs(v)' /\ Loaded(v)'
  <1>1. graph' = graph /\ Shape /\ Built /\ Jobs /\ Rights /\ Suspension
    BY GraphStays DEF CInv
  <1>2. PICK p, j : j = job[v] /\ p = job[v].p
    OBVIOUS
  <1>3. /\ p \in Procs /\ j.cts \in Seq(Procs) /\ j.n \in Nat /\ j.k \in Nat
        /\ job'[v] = j /\ j.p = p /\ Works(v)' /\ ~Sends(v)
        /\ Graph' = Graph /\ \A q : Up(q)' = Up(q)
    BY <1>1, <1>2, SendsMoves, Frame DEF Shape, IsJob, Works
  <1>4. Informs(v) /\ Loaded(v)
    BY <1>1, JobsSplit
  <1>5. Informs(v)'
    <2>1. ASSUME NEW i \in DOMAIN Up(p), Clears(v, p, i)' PROVE queue'[p].items[i] = << >>
      <3>1. Clears(v, p, i)
        BY <1>2, <1>3, <2>1 DEF Clears
      <3> QED BY <1>3, <2>1, <3>1, EmptyKept
    <2>2. ASSUME j.pc \in {"state", "release"} PROVE ~final'[Head(j.cts)]
      <3>1. PICK u : u = Head(j.cts)
        OBVIOUS
      <3>2. j.pc \in Clearing /\ ~final[u]
        BY <1>2, <1>4, <2>2, <3>1 DEF Informs, Clearing
      <3>3. CASE j.then = "apply"
        <4>1. u \in Procs /\ suspend[u] > 0
          BY <1>1, <1>2, <3>1, <3>2, <3>3, Telling
        <4>2. suspend[u] # 0
          BY <1>1, <4>1 DEF Shape
        <4>3. final'[u] = final[u]
          BY <4>1, <4>2, FinalChanges
        <4> QED BY <3>1, <3>2, <4>3
      <3>4. CASE j.then # "apply"
        <4>1. u = p /\ u \in Procs
          BY <1>1, <1>2, <3>1, <3>2, <3>4, TellingSelf
        <4>2. job[v].pc # "dequeue"
          BY <1>2, <3>2 DEF Clearing
        <4>3. final'[u] = final[u]
          BY <1>2, <4>1, <4>2, FinalChanges
        <4> QED BY <3>1, <3>2, <4>3
      <3> QED BY <3>3, <3>4
    <2>3. /\ j.pc \in Clearing =>
              /\ j.cts # << >>
              /\ j.then = "apply" \/ (j.then = "end" /\ j.cts = << j.p >>)
          /\ j.pc \in Clearing /\ j.then = "apply" =>
              /\ \A h, k \in DOMAIN j.cts : j.cts[h] = j.cts[k] => h = k
              /\ \A k \in DOMAIN j.cts : \E i \in DOMAIN Up(j.p) : Up(j.p)[i] = j.cts[k]
      BY <1>2, <1>4 DEF Informs
    <2>4. \A i \in DOMAIN Up(p) : Clears(v, p, i)' => queue'[p].items[i] = << >>
      BY <2>1
    <2> QED BY <1>3, <2>2, <2>3, <2>4 DEF Informs
  <1>6. Loaded(v)'
    <2>1. ASSUME j.pc \in {"suspend", "send"}
          PROVE  /\ Graph[p].moveOnly => j.n = 1
                 /\ ~Graph[p].moveOnly => j.n <= Len(down'[p])
                 /\ ~j.low => down'[p] # << >> /\ \A k \in 1..j.n : ~Alive(down[p][k][1])'
                 /\ j.k \in 1..(j.n + 1)
      BY <1>2, <1>4, <2>1, LoadKept DEF Loaded
    <2>2. ASSUME j.pc = "send"
          PROVE  /\ j.k <= j.n /\ j.n <= Len(down'[p])
                 /\ \A k \in j.k..Len(down'[p]) : down'[p][k][1] \notin Waiting(p)'
      <3>1. j.k <= j.n /\ j.n <= Len(down[p])
        BY <1>2, <1>4, <2>2 DEF Loaded
      <3>2. j.n <= Len(down'[p])
        BY <1>2, <2>2, <3>1, LoadKept
      <3>3. \A k \in j.k..Len(down'[p]) : down'[p][k][1] \notin Waiting(p)'
        BY <1>2, <1>3, <2>2, TargetsKept
      <3> QED BY <3>1, <3>2, <3>3
    <2>3. ASSUME j.pc = "finish" PROVE final'[p]
      <3>1. final[p]
        BY <1>2, <1>4, <2>3 DEF Loaded
      <3> QED BY <1>2, <1>3, <2>3, <3>1, FinalChanges
    <2>4. j.pc = "suspend" => j.k = 1
      BY <1>2, <1>4 DEF Loaded
    <2> QED BY <1>3, <2>1, <2>2, <2>3, <2>4 DEF Loaded
  <1> QED BY <1>5, <1>6

\* A job that goes where nothing is to clear or to send.
LEMMA Elsewhere ==
    ASSUME NEW w \in Workers, job'[w].pc \notin Clearing \cup {"suspend", "send", "finish"}
    PROVE  Informs(w)' /\ Loaded(w)'
  BY DEF Informs, Loaded, Clearing

LEMMA ClearsSelfFits ==
    ASSUME NEW w \in Workers, ClearsSelf(w)
    PROVE  Informs(w)' /\ Loaded(w)'
  BY DEF Informs, Loaded, Clearing, ClearsSelf, Clear, Goes

\* A buffer of one never has room for two.
LEMMA RoomForOne ==
    ASSUME Plain, Shape, Built, Bounded, NEW p \in Procs, NEW k \in DOMAIN down[p]
    PROVE  free_buffer(down[p][k][1], down[p][k][2]) <= 1
  <1>1. PICK d : d = down[p][k]
    OBVIOUS
  <1>2. d[1] \in made /\ d[2] \in DOMAIN Up(d[1]) /\ d[1] \in Procs
    BY <1>1 DEF Built, Shape
  <1>3. Graph[d[1]].buffer = 1
    <2>1. Up(d[1]) # << >>
      BY <1>2
    <2> QED BY <1>2, <2>1 DEF Plain
  <1>4. PICK l : l = Len(queue[d[1]].items[d[2]])
    OBVIOUS
  <1>5. l = 0 \/ l = 1
    <2>1. l <= 1
      BY <1>2, <1>4 DEF Bounded
    <2>2. l \in Nat
      <3>1. IsSeq(queue[d[1]].items[d[2]])
        BY <1>2, Nodes DEF Shape, IsQueue
      <3> QED BY <1>4, <3>1 DEF IsSeq
    <2> QED BY <2>1, <2>2
  <1>6. free_buffer(d[1], d[2]) <= 1
    <2>1. Minus(1, l) = (1 + 15 + 1 - l) % 16
      BY DEF Minus, SizeMax
    <2>2. (1 + 15 + 1 - 0) % 16 = 1 /\ (1 + 15 + 1 - 1) % 16 = 0
      OBVIOUS
    <2>3. Minus(1, l) <= 1
      BY <1>5, <2>1, <2>2
    <2> QED BY <1>3, <1>4, <2>3 DEF free_buffer
  <1> QED BY <1>1, <1>6

\* With a buffer of one, a job that sends to a process that lives is suspended.
LEMMA BroadcastFits ==
    ASSUME Plain, CInv, [Next]_vars, NEW w \in Workers, NEW p \in Procs, Suspends(w, p), UNCHANGED down
    PROVE  Informs(w)' /\ Loaded(w)'
  <1>1. graph' = graph /\ Shape /\ Built /\ Bounded /\ p \in Procs /\ down[p] \in Seq(Procs \X Nat)
        /\ Graph' = Graph /\ graph \in DOMAIN Graphs
    BY GraphStays, Frame DEF CInv, Shape
  <1>2. /\ Works(w)' /\ job'[w].p = p /\ job'[w].pc = "suspend" /\ job'[w].k = 1
        /\ job'[w].n = downstream_size(p) /\ job'[w].low = minimum_free_buffer_low(p)
    BY DEF Suspends, Goes
  <1>3. ASSUME NEW k \in DOMAIN down[p], Alive(down[p][k][1]) PROVE minimum_free_buffer_low(p)
    <2>1. PICK d : d = down[p][k]
      OBVIOUS
    <2>2. free_buffer(d[1], d[2]) <= 1
      BY <1>1, <2>1, RoomForOne
    <2> QED BY <1>3, <2>1, <2>2 DEF minimum_free_buffer_low
  <1>4. ASSUME Graph[p].moveOnly PROVE minimum_free_buffer_low(p) /\ downstream_size(p) = 1
    <2>1. CASE down[p] = << >>
      BY <1>4, <2>1 DEF minimum_free_buffer_low, downstream_size
    <2>2. CASE down[p] # << >>
      <3>1. 1 \in DOMAIN down[p]
        BY <1>1, <2>2
      <3> QED BY <1>3, <1>4, <3>1 DEF minimum_free_buffer_low, downstream_size
    <2> QED BY <2>1, <2>2
  <1>5. ~Graph[p].moveOnly => downstream_size(p) = Len(down[p])
    BY DEF downstream_size
  <1>6. downstream_size(p) \in Nat
    BY <1>1 DEF downstream_size
  <1>7. ASSUME ~minimum_free_buffer_low(p), NEW k \in 1..downstream_size(p)
        PROVE  ~Alive(down[p][k][1])'
    <2>1. k \in DOMAIN down[p]
      BY <1>1, <1>4, <1>5, <1>7
    <2>2. PICK x : x = down[p][k][1]
      OBVIOUS
    <2>3. x \in made /\ ~Alive(x)
      BY <1>1, <1>3, <1>7, <2>1, <2>2 DEF Built
    <2>4. ~Alive(x)'
      BY <2>3, StaysGone
    <2>5. down'[p][k][1] = x
      BY <2>2
    <2> QED BY <2>4, <2>5
  <1>8. PICK n, low : n = downstream_size(p) /\ low = minimum_free_buffer_low(p)
    OBVIOUS
  <1>9. 1 \in 1..(n + 1)
    BY <1>6, <1>8
  <1>10. Loaded(w)'
    <2> HIDE DEF downstream_size, minimum_free_buffer_low
    <2>1. /\ Graph[p].moveOnly => n = 1
          /\ ~Graph[p].moveOnly => n <= Len(down[p])
          /\ ~low => down[p] # << >> /\ \A k \in 1..n : ~Alive(down[p][k][1])'
      <3>1. ~minimum_free_buffer_low(p) => down[p] # << >>
        BY DEF minimum_free_buffer_low
      <3> QED BY <1>1, <1>4, <1>5, <1>6, <1>7, <1>8, <3>1
    <2>2. job'[w].n = n /\ job'[w].low = low
      BY <1>2, <1>8
    <2> QED BY <1>1, <1>2, <1>9, <2>1, <2>2 DEF Loaded
  <1>11. Informs(w)'
    BY <1>2 DEF Informs, Clearing
  <1> QED BY <1>10, <1>11

LEMMA CalledFits ==
    ASSUME Plain, CInv, [Next]_vars, NEW w \in Workers, Skips(w) \/ Releases(w), Works(w)'
    PROVE  Informs(w)' /\ Loaded(w)'
  <1>1. graph' = graph /\ Shape /\ Jobs /\ Rights /\ Suspension
    BY GraphStays DEF CInv
  <1>2. Works(w) /\ job[w].pc \in Clearing /\ Called(w) /\ UNCHANGED queue
    BY DEF Skips, Releases, Clearing, flowVars
  <1>3. job[w].then = "apply"
    <2>1. ASSUME job[w].then # "apply" PROVE FALSE
      <3>1. job[w].then = "end" /\ Tail(job[w].cts) = << >>
        BY <1>1, <1>2, <2>1, TellingSelf
      <3> QED BY <1>2, <3>1 DEF Called, Ends, Works
    <2> QED BY <2>1
  <1>4. PICK p, cts : p = job[w].p /\ cts = job[w].cts
    OBVIOUS
  <1>5. CASE Goes(w, p, "apply")
    BY <1>5, Elsewhere DEF Goes, Clearing
  <1>6. CASE Tail(cts) # << >> /\ Clear(w, p, Tail(cts), "apply")
    <2>1. /\ job'[w].pc = "check" /\ job'[w].p = p /\ job'[w].cts = Tail(cts) /\ job'[w].then = "apply"
      BY <1>6 DEF Clear, Goes
    <2>2. /\ p \in Procs /\ cts \in Seq(Procs) /\ cts # << >>
          /\ \A h, k \in DOMAIN cts : cts[h] = cts[k] => h = k
          /\ \A k \in DOMAIN cts : \E i \in DOMAIN Up(p) : Up(p)[i] = cts[k]
          /\ \A i \in DOMAIN Up(p) : Clears(w, p, i) => queue[p].items[i] = << >>
      <3>1. p \in Procs /\ cts \in Seq(Procs)
        BY <1>1, <1>2, <1>4 DEF Shape, IsJob
      <3>2. Informs(w)
        BY <1>1, <1>2, JobsSplit
      <3> QED BY <1>2, <1>3, <1>4, <3>1, <3>2 DEF Informs
    <2>3. \A k \in DOMAIN Tail(cts) : k \in Nat /\ k + 1 \in DOMAIN cts /\ Tail(cts)[k] = cts[k + 1]
      BY <2>2
    <2>4. \A h, k \in DOMAIN Tail(cts) : Tail(cts)[h] = Tail(cts)[k] => h = k
      BY <2>2, <2>3
    <2>5. \A k \in DOMAIN Tail(cts) : \E i \in DOMAIN Up(p) : Up(p)[i] = Tail(cts)[k]
      BY <2>2, <2>3
    <2>6. ASSUME NEW i \in DOMAIN Up(p), Clears(w, p, i)' PROVE queue'[p].items[i] = << >>
      <3>1. \E k \in DOMAIN Tail(cts) : Tail(cts)[k] = Up(p)[i]
        BY <1>1, <2>1, <2>6, Frame DEF Clears
      <3>2. \E k \in DOMAIN cts : cts[k] = Up(p)[i]
        BY <2>3, <3>1
      <3>3. Clears(w, p, i)
        BY <1>2, <1>3, <1>4, <3>2 DEF Clears
      <3> QED BY <1>2, <2>2, <2>6, <3>3
    <2>7. Informs(w)'
      BY <1>1, <1>6, <2>1, <2>4, <2>5, <2>6, Frame DEF Informs
    <2> QED BY <2>1, <2>7 DEF Loaded
  <1> QED BY <1>2, <1>3, <1>4, <1>5, <1>6 DEF Called, Ends, Works

LEMMA LooksFits ==
    ASSUME Plain, CInv, [Next]_vars, NEW w \in Workers, Looks(w)
    PROVE  Informs(w)' /\ Loaded(w)'
  <1>1. graph' = graph /\ Jobs
    BY GraphStays DEF CInv
  <1>2. /\ Works(w) /\ job[w].pc \in Clearing /\ UNCHANGED << queue, final >>
        /\ job'[w].pc \in {"state", "release"} /\ ~final[Head(job[w].cts)]
        /\ job'[w].p = job[w].p /\ job'[w].cts = job[w].cts /\ job'[w].then = job[w].then
    BY <1>1 DEF Looks, Clearing, flowVars, procVars, Jobs
  <1>3. Informs(w)
    BY <1>1, <1>2, JobsSplit
  <1>4. PICK p : p = job[w].p
    OBVIOUS
  <1>5. ASSUME NEW i, Clears(w, p, i)' PROVE Clears(w, p, i)
    BY <1>1, <1>2, <1>4, <1>5, Frame DEF Clears
  <1>6. job[w].then = "apply" => \A i \in DOMAIN Up(p) : Clears(w, p, i)' => queue'[p].items[i] = << >>
    BY <1>2, <1>3, <1>4, <1>5 DEF Informs
  <1>7. Informs(w)'
    BY <1>1, <1>2, <1>3, <1>4, <1>6, Frame DEF Informs
  <1> QED BY <1>2, <1>7 DEF Loaded

LEMMA RereadsFits ==
    ASSUME Plain, CInv, [Next]_vars, NEW w \in Workers, Rereads(w)
    PROVE  Informs(w)' /\ Loaded(w)'
  <1>1. graph' = graph /\ Graph' = Graph /\ Shape /\ Built /\ Jobs /\ Bounded
    BY GraphStays, Frame DEF CInv
  <1>2. PICK p, j : p = job[w].p /\ j = job[w]
    OBVIOUS
  <1>3. /\ Works(w) /\ j.pc = "suspend" /\ down' = down
        /\ job'[w].pc = "suspend" /\ job'[w].p = p /\ job'[w].n = j.n /\ job'[w].k = j.k
        /\ \E k \in DOMAIN down[p] : ~Alive(down[p][k][1])
        /\ \/ Graph[p].moveOnly \/ job'[w].low
           \/ \A k \in 1..j.n : Alive(down[p][k][1])
                                  => ~(free_buffer(down[p][k][1], down[p][k][2]) <= 1)
    BY <1>2 DEF Rereads, Goes
  <1>4. /\ p \in Procs /\ down[p] \in Seq(Procs \X Nat) /\ j.n \in Nat
        /\ Graph[p].moveOnly => j.n = 1
        /\ ~Graph[p].moveOnly => j.n <= Len(down[p])
        /\ j.k = 1
    BY <1>1, <1>2, <1>3 DEF Shape, IsJob, Jobs
  <1>5. down[p] # << >>
    BY <1>3, <1>4
  <1>6. ASSUME ~job'[w].low, NEW k \in 1..j.n PROVE ~Alive(down[p][k][1])'
    <2>1. k \in DOMAIN down[p]
      BY <1>4, <1>5
    <2>2. ~Alive(down[p][k][1])
      <3>1. CASE Graph[p].moveOnly
        <4>1. Len(down[p]) <= 1 /\ k = 1
          BY <1>1, <1>4, <3>1 DEF Built
        <4>2. \A h \in DOMAIN down[p] : h = 1
          BY <1>4, <4>1
        <4> QED BY <1>3, <4>1, <4>2
      <3>2. CASE ~Graph[p].moveOnly
        BY <1>1, <1>3, <1>4, <1>6, <2>1, <3>2, RoomForOne
      <3> QED BY <3>1, <3>2
    <2>3. PICK x : x = down[p][k][1]
      OBVIOUS
    <2>4. x \in made /\ ~Alive(x)
      BY <1>1, <1>4, <2>1, <2>2, <2>3 DEF Built
    <2>5. ~Alive(x)'
      BY <1>1, <2>4, StaysGone DEF CInv
    <2> QED BY <1>3, <2>3, <2>5
  <1>7. 1 \in 1..(j.n + 1)
    BY <1>4
  <1>8. Loaded(w)'
    BY <1>1, <1>3, <1>4, <1>5, <1>6, <1>7 DEF Loaded
  <1>9. Informs(w)'
    BY <1>3 DEF Informs, Clearing
  <1> QED BY <1>8, <1>9

LEMMA SuspendedFits ==
    ASSUME Plain, CInv, [Next]_vars, NEW w \in Workers, Suspended(w)
    PROVE  Informs(w)' /\ Loaded(w)'
  <1>1. graph' = graph /\ Shape /\ Jobs /\ Rights /\ Suspension
    BY GraphStays DEF CInv
  <1>2. PICK p, j : p = job[w].p /\ j = job[w]
    OBVIOUS
  <1>3. Works(w) /\ j.pc = "suspend" /\ UNCHANGED down
    BY <1>2 DEF Suspended
  <1>4. /\ p \in Procs /\ down[p] \in Seq(Procs \X Nat) /\ j.n \in Nat
        /\ Graph[p].moveOnly => j.n = 1
        /\ ~Graph[p].moveOnly => j.n <= Len(down[p])
        /\ j.k = 1
    BY <1>1, <1>2, <1>3 DEF Shape, IsJob, Jobs
  <1>5. ~j.low => down[p] # << >> /\ \A k \in 1..j.n : ~Alive(down[p][k][1])'
    BY <1>2, <1>3, LoadKept
  <1>6. Waiting(p)' = {}
    <2>1. suspend[p] = 0
      BY <1>1, <1>2, <1>3, Runner DEF Clearing
    <2>2. Cardinality(Waiting(p)) \in Nat /\ IsFiniteSet(Waiting(p)) /\ Cardinality(Waiting(p)) <= 0
      BY <1>1, <1>4, <2>1, WaitingFinite DEF Suspension, Shape
    <2>3. Waiting(p) = {}
      BY <2>2, FS_EmptySet
    <2>4. \A v \in Workers : ~Sends(v)
      <3>1. ASSUME NEW v \in Workers, Sends(v) PROVE FALSE
        <4>1. v # w
          BY <1>2, <1>3, <3>1 DEF Sends
        <4>2. job'[v] = job[v]
          BY <4>1 DEF Suspended, ClearsSelf, Clear, Goes, Others
        <4> QED BY <1>1, <3>1, <4>2, SendsMoves
      <3> QED BY <3>1
    <2> QED BY <1>4, <2>3, <2>4, WaitingKept
  <1>7. CASE ClearsSelf(w)
    BY <1>7, ClearsSelfFits
  <1>8. CASE /\ j.n # 0 /\ down[p] # << >> /\ Goes(w, p, "send")
             /\ job'[w].n = j.n /\ job'[w].k = j.k /\ job'[w].low = j.low
    <2>1. job'[w].pc = "send" /\ job'[w].p = p
      BY <1>8 DEF Goes
    <2>2. j.k <= j.n /\ j.n <= Len(down[p]) /\ j.k \in 1..(j.n + 1)
      BY <1>4, <1>8
    <2>3. Graph' = Graph /\ down' = down
      BY <1>1, <1>3, Frame
    <2>4. Loaded(w)'
      BY <1>4, <1>5, <1>6, <1>8, <2>1, <2>2, <2>3 DEF Loaded
    <2>5. Informs(w)'
      BY <2>1 DEF Informs, Clearing
    <2> QED BY <2>4, <2>5
  <1> QED BY <1>2, <1>7, <1>8 DEF Suspended

LEMMA SendsFits ==
    ASSUME Plain, CInv, [Next]_vars, NEW w \in Workers, Sends(w)
    PROVE  Informs(w)' /\ Loaded(w)'
  <1>1. graph' = graph /\ Shape /\ Built /\ Jobs
    BY GraphStays DEF CInv
  <1>2. PICK p, j, d : p = job[w].p /\ j = job[w] /\ d = down[p][job[w].k]
    OBVIOUS
  <1>3. Works(w) /\ j.pc = "send" /\ UNCHANGED down
    BY <1>2 DEF Sends
  <1>4. /\ p \in Procs /\ down[p] \in Seq(Procs \X Nat) /\ j.n \in Nat /\ j.k \in Nat
        /\ Graph[p].moveOnly => j.n = 1
        /\ j.k \in 1..(j.n + 1) /\ j.k <= j.n /\ j.n <= Len(down[p])
        /\ \A k \in j.k..Len(down[p]) : down[p][k][1] \notin Waiting(p)
        /\ \A k, h \in DOMAIN down[p] : down[p][k][1] = down[p][h][1] => k = h
    <2>1. p \in Procs /\ down[p] \in Seq(Procs \X Nat) /\ j.n \in Nat /\ j.k \in Nat
      BY <1>1, <1>2, <1>3 DEF Shape, IsJob
    <2>2. Loaded(w)
      BY <1>1, <1>2, <1>3, JobsSplit
    <2>3. \A k, h \in DOMAIN down[p] : down[p][k][1] = down[p][h][1] => k = h
      BY <1>1, <2>1 DEF Built
    <2> QED BY <1>2, <1>3, <2>1, <2>2, <2>3 DEF Loaded
  <1>5. ~j.low => down[p] # << >> /\ \A k \in 1..j.n : ~Alive(down[p][k][1])'
    BY <1>2, <1>3, LoadKept
  <1>6. Waiting(p)' \subseteq Waiting(p) \cup {d[1]}
    BY <1>2, <1>4, WaitingSent
  <1>7. CASE ClearsSelf(w)
    BY <1>7, ClearsSelfFits
  <1>8. CASE /\ j.k # j.n /\ Goes(w, p, "send")
             /\ job'[w].n = j.n /\ job'[w].k = j.k + 1 /\ job'[w].low = j.low
    <2>1. job'[w].pc = "send" /\ job'[w].p = p
      BY <1>8 DEF Goes
    <2>2. j.k + 1 <= j.n /\ j.k + 1 \in 1..(j.n + 1)
      BY <1>4, <1>8
    <2>3. Graph' = Graph /\ down' = down
      BY <1>1, <1>3, Frame
    <2>4. ASSUME NEW k \in (j.k + 1)..Len(down[p]) PROVE down[p][k][1] \notin Waiting(p)'
      <3>0. PICK n, h : n = Len(down[p]) /\ h = j.k
        OBVIOUS
      <3>1. n \in Nat /\ h \in Nat /\ DOMAIN down[p] = 1..n /\ 1 <= h /\ h <= n /\ k \in (h + 1)..n
        BY <1>4, <3>0
      <3>2. k \in h..n /\ k # h /\ k \in 1..n /\ h \in 1..n
        BY <3>1
      <3>3. k \in j.k..Len(down[p]) /\ k # j.k /\ k \in DOMAIN down[p] /\ j.k \in DOMAIN down[p]
        BY <3>0, <3>1, <3>2
      <3> QED BY <1>2, <1>4, <1>6, <3>3
    <2>5. Loaded(w)'
      BY <1>4, <1>5, <1>8, <2>1, <2>2, <2>3, <2>4 DEF Loaded
    <2>6. Informs(w)'
      BY <2>1 DEF Informs, Clearing
    <2> QED BY <2>5, <2>6
  <1> QED BY <1>2, <1>7, <1>8 DEF Sends

LEMMA TakesFits ==
    ASSUME Shape, graph' = graph, NEW w \in Workers, NEW p \in Procs, Takes(w, p)
    PROVE  Informs(w)' /\ Loaded(w)'
  <1>1. CASE Goes(w, p, "apply")
    BY <1>1, Elsewhere DEF Goes, Clearing
  <1>2. ASSUME NEW cts \in Seq(Procs), cts # << >>, Clear(w, p, cts, "apply"),
               \A h, k \in DOMAIN cts : cts[h] = cts[k] => h = k,
               \A k \in DOMAIN cts : \E i \in DOMAIN Up(p) :
                  /\ Up(p)[i] = cts[k]
                  /\ queue[p].items[i] # << >> /\ queue'[p].items[i] = << >>
        PROVE  Informs(w)' /\ Loaded(w)'
    <2>1. /\ job'[w].pc = "check" /\ job'[w].p = p /\ job'[w].cts = cts /\ job'[w].then = "apply"
      BY <1>2 DEF Clear, Goes
    <2>2. ASSUME NEW i \in DOMAIN Up(p), Clears(w, p, i)' PROVE queue'[p].items[i] = << >>
      <3>1. PICK k \in DOMAIN cts : cts[k] = Up(p)[i]
        BY <2>1, <2>2, Frame DEF Clears
      <3>2. PICK h \in DOMAIN Up(p) : Up(p)[h] = cts[k] /\ queue'[p].items[h] = << >>
        BY <1>2
      <3>3. h = i
        BY <3>1, <3>2, Nodes DEF Shape
      <3> QED BY <3>2, <3>3
    <2>3. Informs(w)'
      BY <1>2, <2>1, <2>2, Frame DEF Informs
    <2> QED BY <2>1, <2>3 DEF Loaded
  <1> QED BY <1>1, <1>2 DEF Takes

LEMMA JobsStep ==
    ASSUME Plain, CInv, [Next]_vars PROVE Jobs'
  <1>1. graph' = graph /\ Flat /\ Shape /\ Built /\ Jobs /\ Rights /\ Suspension
    BY GraphStays DEF CInv
  <1> DEFINE Good == \A v \in Workers : Works(v)' => Informs(v)' /\ Loaded(v)'
  <1>2. ASSUME NEW v \in Workers, Works(v)', job'[v] = job[v] PROVE Informs(v)' /\ Loaded(v)'
    <2>1. Works(v)
      BY <1>2 DEF Works
    <2> QED BY <1>2, <2>1, JobFits
  <1>3. ASSUME UserNext \/ (\E p \in Procs : Expires(p)) \/ UNCHANGED vars PROVE Good
    <2>1. UNCHANGED job
      BY <1>3 DEF UserNext, Attach, CopyReceiver, SetReady, DestroyReceiver, StartReady, Send,
                  CopySender, CloseSender, AssignSender, Expires, vars, userVars
    <2> QED BY <1>2, <2>1
  <1>4. ASSUME NEW w \in Workers, Runs(w) PROVE Good
    <2> SUFFICES ASSUME Works(w)', job'[w] # job[w] PROVE Informs(w)' /\ Loaded(w)'
      BY <1>1, <1>2, <1>4, JobStays
    <2>1. CASE Skips(w) \/ Releases(w)
      BY <2>1, CalledFits
    <2>2. CASE Looks(w)
      BY <2>2, LooksFits
    <2>12. CASE Rereads(w)
      BY <2>12, RereadsFits
    <2>3. CASE Suspended(w)
      BY <2>3, SuspendedFits
    <2>4. CASE Sends(w)
      BY <2>4, SendsFits
    <2>5. CASE Rests(w)
      <3>1. PICK p : p = job[w].p
        OBVIOUS
      <3>2. final[p] /\ job'[w].p = p /\ job'[w].pc = "finish" /\ UNCHANGED final
        BY <2>5, <3>1 DEF Rests, Goes, Ends, Works, procVars
      <3> QED BY <3>2 DEF Informs, Loaded, Clearing
    <2>6. CASE Closes(w)
      BY <2>6 DEF Closes
    <2>7. CASE Finishes(w)
      BY <2>7 DEF Finishes, Ends, Works
    <2>8. CASE Thinks(w)
      <3>1. /\ job[w].p \in Procs /\ UNCHANGED down
            /\ Suspends(w, job[w].p) \/ job'[w].pc \in {"done", "decide", "dequeue"}
        BY <1>1, <2>8 DEF Thinks, Goes, Ends, Works, Shape, IsJob
      <3>2. CASE Suspends(w, job[w].p)
        BY <3>1, <3>2, BroadcastFits
      <3>3. CASE job'[w].pc \in {"done", "decide", "dequeue"}
        BY <3>3, Elsewhere DEF Clearing
      <3> QED BY <3>1, <3>2, <3>3
    <2>9. CASE Reads(w)
      <3>1. Takes(w, job[w].p) /\ job[w].p \in Procs
        BY <1>1, <2>9 DEF Reads, Shape, IsJob
      <3> QED BY <1>1, <3>1, TakesFits
    <2>10. ASSUME NEW p \in Procs, Starts(w, p) PROVE Informs(w)' /\ Loaded(w)'
      <3>1. Takes(w, p) \/ Goes(w, p, "decide") \/ Goes(w, p, "dequeue")
        BY <2>10 DEF Starts
      <3>2. CASE Takes(w, p)
        BY <1>1, <3>2, TakesFits
      <3>3. CASE Goes(w, p, "decide") \/ Goes(w, p, "dequeue")
        BY <3>3, Elsewhere DEF Goes, Clearing
      <3> QED BY <3>1, <3>2, <3>3
    <2>11. ASSUME NEW p \in Procs, Delays(w, p) PROVE Informs(w)' /\ Loaded(w)'
      <3>1. Suspends(w, p) /\ UNCHANGED down
        BY <2>11 DEF Delays
      <3> QED BY <3>1, BroadcastFits
    <2> QED BY <1>4, <2>1, <2>2, <2>3, <2>4, <2>5, <2>6, <2>7, <2>8, <2>9, <2>10, <2>11, <2>12 DEF Runs
  <1> HIDE DEF Good
  <1>5. Good
    BY <1>1, <1>3, <1>4 DEF Flat
  <1> QED BY <1>5 DEF Good, Jobs, Informs, Loaded

-----------------------------------------------------------------------------
(***************************************************************************)
(* The invariant holds.                                                    *)
(***************************************************************************)
LEMMA InitHolds ==
    ASSUME Init, Plain PROVE CInv
  <1>1. graph \in DOMAIN Graphs
    BY DEF Init
  <1>2. /\ \A w \in Workers : ~Works(w)
        /\ \A p \in Procs : queue[p] = NewQueues(Arity(p)) /\ down[p] = << >> /\ ~final[p]
        /\ \A p \in Procs : suspend[p] = 0 /\ pending[p] = 0 /\ delayed[p] = 0
    BY DEF Init, Works
  <1>3. \A p \in Procs : /\ Arity(p) \in Nat /\ Arity(p) > 0 /\ DOMAIN Up(p) \subseteq 1..Arity(p)
                         /\ p \in Heads <=> Up(p) = << >>
                         /\ \A i \in DOMAIN Up(p) : queue[p].items[i] = << >>
    <2>1. \A p \in Procs : /\ Arity(p) \in Nat /\ Arity(p) > 0 /\ DOMAIN Up(p) \subseteq 1..Arity(p)
                           /\ p \in Heads <=> Up(p) = << >>
      BY <1>1, Nodes
    <2>2. ASSUME NEW p \in Procs, NEW i \in DOMAIN Up(p) PROVE queue[p].items[i] = << >>
      <3>1. PICK n : n = Arity(p) /\ i \in 1..n
        BY <2>1
      <3>2. queue[p] = [items |-> [h \in 1..n |-> << >>], index |-> 1, popped |-> 1]
        BY <1>2, <3>1 DEF NewQueues
      <3> QED BY <3>1, <3>2
    <2> QED BY <2>1, <2>2
  <1>4. Shape
    <2>1. \A p \in Procs : IsQueue(p)
      <3> SUFFICES ASSUME NEW p \in Procs PROVE IsQueue(p)
        OBVIOUS
      <3>1. PICK n \in Nat : n = Arity(p) /\ n > 0
        BY <1>3
      <3>2. queue[p] = [items |-> [i \in 1..n |-> << >>], index |-> 1, popped |-> 1]
        BY <1>2, <3>1 DEF NewQueues
      <3>3. 1 \in 1..n
        BY <3>1
      <3>4. IsSeq(<< >>)
        BY DEF IsSeq
      <3> QED BY <3>1, <3>2, <3>3, <3>4 DEF IsQueue
    <2>2. /\ process = [p \in Procs |-> process[p]] /\ \A p \in Procs : IsProcess(process[p])
      BY DEF Init, IsProcess
    <2>3. senders \in [Procs -> Nat]
      BY <1>3 DEF Init
    <2>4. /\ open \in [Procs -> Nat] /\ ready \in [Procs -> Nat] /\ handles \in [Procs -> Nat]
          /\ checking \in [Procs -> Nat] /\ receivers \in [Procs -> Nat]
          /\ suspend \in [Procs -> Nat] /\ pending \in [Procs -> Nat] /\ delayed \in [Procs -> Nat]
          /\ timeouts \in [Procs -> Nat]
      BY DEF Init
    <2>5. /\ timeoutActive \in [Procs -> BOOLEAN] /\ running \in [Procs -> BOOLEAN]
          /\ closeQueue \in [Procs -> BOOLEAN] /\ final \in [Procs -> BOOLEAN]
          /\ made \subseteq Procs
          /\ \A p \in Procs : timeouts[p] = 0 /\ ~timeoutActive[p]
      BY DEF Init, Heads
    <2>6. down \in [Procs -> Seq(Procs \X Nat)] /\ queue = [p \in Procs |-> queue[p]]
          /\ job = [w \in Workers |-> job[w]]
      BY DEF Init
    <2> QED BY <1>1, <1>2, <2>1, <2>2, <2>3, <2>4, <2>5, <2>6 DEF Shape
  <1>5. Built
    <2>1. Heads = made /\ \A p \in Procs : handles[p] > 0 => p \in Heads
      BY DEF Init
    <2>2. \A p \in Procs \ made :
            open[p] = 0 /\ ready[p] = 0 /\ checking[p] = 0 /\ handles[p] = 0
      BY DEF Init
    <2>3. \A p \in made : \A i \in DOMAIN Up(p) : FALSE
      BY <1>3, <2>1 DEF Heads
    <2>4. \A p \in Procs : DOMAIN down[p] = {} /\ Len(down[p]) = 0
      BY <1>2
    <2> QED BY <1>2, <1>3, <2>1, <2>2, <2>3, <2>4 DEF Built
  <1>6. Jobs /\ Rights
    BY <1>2 DEF Jobs, Rights
  <1>7. Suspension
    <2>1. \A u : Waiting(u) = {}
      BY <1>2, <1>3 DEF Waiting, Owes, Clears
    <2>2. Cardinality({}) = 0
      BY FS_EmptySet
    <2>3. \A u : Cardinality(Waiting(u)) = 0
      BY <2>1, <2>2
    <2>4. \A u \in Procs : Cardinality(Waiting(u)) <= suspend[u]
      BY <1>2, <2>3
    <2> QED BY <1>2, <2>4 DEF Suspension
  <1>8. Bounded
    BY <1>3 DEF Bounded
  <1>9. Closing
    BY <1>2 DEF Closing, Init
  <1>10. Counts
    <2>1. ASSUME NEW p \in Procs, p \in made PROVE handles[p] + Cardinality(Feeding(p)) <= senders[p]
      <3>1. p \in Heads
        BY <2>1 DEF Init
      <3>2. Feeding(p) = {}
        BY <1>3, <3>1 DEF Feeding
      <3>3. Cardinality(Feeding(p)) = 0
        BY <3>2, FS_EmptySet
      <3>4. senders[p] = 1 /\ (handles[p] = 0 \/ handles[p] = 1)
        BY <3>1 DEF Init, Arity
      <3> QED BY <3>3, <3>4
    <2>2. \A p \in Procs : /\ p \notin made => senders[p] = Arity(p) /\ (Graph[p].void \/ receivers[p] > 0)
                           /\ open[p] <= receivers[p] \/ Graph[p].void
      BY DEF Init
    <2> QED BY <2>1, <2>2 DEF Counts
  <1>11. Lively
    BY <1>2 DEF Lively
  <1> QED BY <1>4, <1>5, <1>6, <1>7, <1>8, <1>9, <1>10, <1>11 DEF CInv

LEMMA PlainStays ==
    ASSUME [Next]_vars PROVE Plain' <=> Plain
  <1>1. graph' = graph
    <2>1. ASSUME UserNext PROVE graph' = graph
      BY <2>1 DEF UserNext, Attach, CopyReceiver, SetReady, DestroyReceiver, StartReady, Send,
                  CopySender, CloseSender, AssignSender, graphVars
    <2>2. ASSUME NEW w \in Workers, JobNext(w) \/ \E p \in Procs : StartNext(w, p) PROVE graph' = graph
      BY <2>2 DEF JobNext, StartNext, CtsCheck, CtsState, CtsRelease, LookExpired, SuspendProcess, SendDown,
                  TaskDone, ClearDownstream, ApplyFunction, Dequeue, ApplyProcess, Decide, EndTimeout, StepFunction,
                  StepProcess, StepSource, RunDelayed, RunTimeout, graphVars
    <2>3. ASSUME NEW p \in Procs, ExpiredClosure(p) PROVE graph' = graph
      BY <2>3 DEF ExpiredClosure, graphVars
    <2>4. UNCHANGED vars => graph' = graph
      BY DEF vars, graphVars
    <2> QED BY <2>1, <2>2, <2>3, <2>4 DEF Next
  <1> QED BY <1>1, Frame DEF Plain, Feeds

LEMMA StepHolds ==
    ASSUME IInv, [Next]_vars PROVE IInv'
  <1>1. Plain' <=> Plain
    BY PlainStays
  <1>2. ASSUME Plain PROVE CInv'
    <2>1. CInv
      BY <1>2 DEF IInv
    <2>2. /\ Shape' /\ Built' /\ Jobs' /\ Rights' /\ Suspension' /\ Bounded' /\ Closing' /\ Lively'
          /\ Counts'
      BY <1>2, <2>1, ShapeStep, BuiltStep, JobsStep, RightsStep, SuspensionStep, BoundedStep,
         ClosingStep, LivelyStep, CountsStep
    <2> QED BY <2>2 DEF CInv
  <1> QED BY <1>1, <1>2 DEF IInv

LEMMA Invariance == Spec => []IInv
  <1>1. Init => IInv
    BY InitHolds DEF IInv
  <1> QED BY <1>1, StepHolds, PTL DEF Spec

\* In a graph whose buffers are of one and in which no process waits for a time, a process runs one
\* step at a time: while a step of it is scheduled, delayed or running, no other is.
THEOREM OneStep == Spec => [](Plain => OneStepAtATime)
  <1>1. ASSUME IInv, Plain PROVE OneStepAtATime
    <2>1. Shape /\ Rights
      BY <1>1 DEF IInv, CInv
    <2> SUFFICES ASSUME NEW p \in Procs
                 PROVE  /\ Cardinality(JobsOf(p)) <= 1
                        /\ Cardinality(JobsOf(p)) + pending[p] + delayed[p] <= 1
      BY DEF OneStepAtATime
    <2>2. /\ pending[p] \in Nat /\ delayed[p] \in Nat /\ pending[p] + delayed[p] <= 1
          /\ pending[p] + delayed[p] > 0 => JobsOf(p) = {}
          /\ \A v, w \in JobsOf(p) : v = w
      BY <2>1 DEF Shape, Rights, JobsOf, Works
    <2>3. CASE JobsOf(p) = {}
      BY <2>2, <2>3, FS_EmptySet
    <2>4. CASE JobsOf(p) # {}
      <3>1. PICK w : JobsOf(p) = {w}
        BY <2>2, <2>4
      <3>2. Cardinality({w}) = 1
        BY FS_Singleton
      <3>3. pending[p] + delayed[p] = 0
        BY <2>2, <2>4
      <3> QED BY <2>2, <3>1, <3>2, <3>3
    <2> QED BY <2>3, <2>4
  <1> QED BY <1>1, Invariance, PTL

\* In such a graph no process ever holds more than one value of what another one sends it: an upstream
\* is suspended until each of its values has been taken.
THEOREM Buffers == Spec => [](Plain => BufferBound)
  <1>1. ASSUME IInv, Plain PROVE BufferBound
    <2>1. Shape /\ Bounded
      BY <1>1 DEF IInv, CInv
    <2> SUFFICES ASSUME NEW p \in Procs \ Heads, NEW i \in Arguments(queue[p])
                 PROVE  Len(queue[p].items[i]) <= Graph[p].buffer
      BY DEF BufferBound
    <2>2. Up(p) # << >> /\ DOMAIN Up(p) = 1..Len(Up(p)) /\ Arity(p) = Len(Up(p))
      BY <2>1, Nodes DEF Shape, Heads
    <2>3. Graph[p].buffer = 1
      BY <1>1, <2>2 DEF Plain
    <2>4. i \in DOMAIN Up(p)
      BY <2>1, <2>2 DEF Shape, IsQueue, Arguments
    <2> QED BY <2>1, <2>3, <2>4 DEF Bounded
  <1> QED BY <1>1, Invariance, PTL

\* In such a graph the assertions of remove_sender, remove_receiver and task_done hold, no count wraps
\* below zero, and task_done never destroys a process that a step, scheduled or running, or
\* clear_to_send is still to work on.
THEOREM Assertions == Spec => [](Plain => AssertionsHold)
  <1>1. ASSUME IInv, Plain PROVE AssertionsHold
    <2>1. Shape /\ Built /\ Jobs /\ Rights /\ Suspension /\ Closing /\ Lively /\ Counts
      BY <1>1 DEF IInv, CInv
    <2>2. TypeOK
      <3>1. \A p \in Procs : \A k \in DOMAIN down[p] : down[p][k][1] \in Procs
        BY <2>1 DEF Built, Shape
      <3>2. \A w \in Workers : job[w] # NoJob => job[w].p \in Procs
        BY <2>1 DEF Shape, IsJob, Works
      <3> QED BY <2>1, <3>1, <3>2 DEF TypeOK, Shape
    <2>3. ASSUME NEW p \in Procs
          PROVE  /\ handles[p] <= senders[p] \/ ~Alive(p)
                 /\ open[p] <= receivers[p] \/ Graph[p].void
                 /\ pending[p] > 0 => process[p].live
      <3>1. open[p] <= receivers[p] \/ Graph[p].void
        BY <2>1 DEF Counts
      <3>2. pending[p] > 0 => process[p].live
        BY <2>1 DEF Closing
      <3>3. ASSUME Alive(p) PROVE handles[p] <= senders[p]
        <4>1. CASE p \notin made
          BY <2>1, <4>1 DEF Built, Shape
        <4>2. CASE p \in made
          <5>1. handles[p] + Cardinality(Feeding(p)) <= senders[p]
            BY <2>1, <3>3, <4>2 DEF Counts
          <5>2. Cardinality(Feeding(p)) \in Nat
            <6>1. Feeding(p) \subseteq DOMAIN Up(p)
              BY DEF Feeding
            <6> QED BY <2>1, <6>1, ArgumentSets DEF Shape
          <5> QED BY <2>1, <5>1, <5>2 DEF Shape
        <4> QED BY <4>1, <4>2
      <3> QED BY <3>1, <3>2, <3>3
    <2>4. ASSUME NEW w \in Workers, At(w, "state") PROVE process[Head(job[w].cts)].live
      <3>1. PICK u : u = Head(job[w].cts)
        OBVIOUS
      <3>2. Works(w) /\ job[w].pc = "state"
        BY <2>4 DEF At, Works, NoJob
      <3>3. /\ job[w].cts # << >> /\ job[w].cts \in Seq(Procs) /\ ~final[Head(job[w].cts)]
        BY <2>1, <3>2 DEF Jobs, Shape, IsJob, Clearing
      <3>4. u \in Procs /\ ~final[u]
        BY <3>1, <3>3
      <3> QED BY <2>1, <3>1, <3>4 DEF Closing
    <2>5. ASSUME NEW w \in Workers, At(w, "done"), final[job[w].p]
          PROVE  /\ ~closeQueue[job[w].p]
                 /\ Empty(Graph[job[w].p].strategy, queue[job[w].p])
      <3>1. job[w].p \in Procs
        BY <2>1, <2>5 DEF At, Works, NoJob, Shape, IsJob
      <3> QED BY <2>1, <2>5, <3>1 DEF Closing
    <2>6. ASSUME NEW w \in Workers, job[w] # NoJob PROVE process[job[w].p].live
      BY <2>1, <2>6 DEF Lively, Works
    <2> QED BY <2>2, <2>3, <2>4, <2>5, <2>6 DEF AssertionsHold
  <1> QED BY <1>1, Invariance, PTL
=============================================================================
