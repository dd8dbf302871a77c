-------------------------- MODULE ChannelContract --------------------------
(***************************************************************************)
(* What a graph of channels promises, with no buffers, threads or          *)
(* suspension: each process is given, in order, what its upstream makes,   *)
(* without a gap; it takes its arguments in the order its merge strategy   *)
(* defines; and it closes after its upstream, with nothing left to take or *)
(* on the way.                                                             *)
(***************************************************************************)
EXTENDS Naturals, Sequences

CONSTANT Graphs      \* by name: the processes and how they are connected
VARIABLES graph,     \* the name of the graph
          put,       \* what each argument of a process was given
          used,      \* how much of it the process has taken
          hand,      \* the message it has taken, until the user's code has it
          kept,      \* what an await-process has collected and not yielded
          sent,      \* what a process has made
          closed     \* the processes that have seen the close of their upstream

vars == << graph, put, used, hand, kept, sent, closed >>

Node(p)   == Graphs[graph][p]
Procs     == DOMAIN Graphs[graph]
Inputs(p) == 1..(IF Node(p).up = << >> THEN 1 ELSE Len(Node(p).up))
Error     == << >>

Init ==
    /\ graph \in DOMAIN Graphs
    /\ put = [p \in Procs |-> [i \in Inputs(p) |-> << >>]]
    /\ used = [p \in Procs |-> [i \in Inputs(p) |-> 0]]
    /\ hand = [p \in Procs |-> {}]
    /\ kept = [p \in Procs |-> IF Node(p).kind = "source" THEN [k \in 1..Node(p).batch |-> << p, k >>]
                               ELSE << >>]
    /\ sent = [p \in Procs |-> << >>]
    /\ closed = {}

\* A merge may be attached to a channel that is running, and so may anything to one whose result is
\* void; it is given what is made from then on.
Late(p, i) == Len(Node(p).up) > 1 \/ Node(Node(p).up[i]).void

\* The k-th value of its upstream is the next that argument i of p is given.
Follows(p, i, k) ==
    LET made == sent[Node(p).up[i]]
    IN  IF put[p][i] = << >> THEN k = 1 \/ Late(p, i)
        ELSE k > 1 /\ made[k - 1] = put[p][i][Len(put[p][i])]

\* The user gives a channel its values, everything else gives what it has made.
Put(p, i) ==
    /\ p \notin closed
    /\ \/ /\ Node(p).up = << >>
          /\ put' = [put EXCEPT ![p][1] = Append(@, << p, Len(@) + 1 >>)]
       \/ /\ Node(p).up # << >>
          /\ \E k \in DOMAIN sent[Node(p).up[i]] :
                /\ Follows(p, i, k)
                /\ put' = [put EXCEPT ![p][i] = Append(@, sent[Node(p).up[i]][k])]
    /\ UNCHANGED << graph, used, hand, kept, sent, closed >>

\* The inputs whose turn it may be: a zip takes a value of each, round-robin one of the next, the
\* others one of any.
Turns(p) ==
    CASE Node(p).strategy = "zip_with" -> {[i \in Inputs(p) |-> i]}
      [] Node(p).strategy = "round_robin" ->
            {<< i >> : i \in {i \in Inputs(p) : \A h \in Inputs(p) :
                                used[p][h] = used[p][i] + (IF h < i THEN 1 ELSE 0)}}
      [] OTHER -> {<< i >> : i \in Inputs(p)}

Possible(p) == {t \in Turns(p) : \A k \in DOMAIN t : used[p][t[k]] < Len(put[p][t[k]])}

Take(p) ==
    /\ p \notin closed /\ hand[p] = {}
    /\ \E t \in Possible(p) :
          /\ hand' = [hand EXCEPT ![p] = {[k \in DOMAIN t |-> put[p][t[k]][used[p][t[k]] + 1]]}]
          /\ used' = [used EXCEPT ![p] =
                        [i \in Inputs(p) |-> IF \E k \in DOMAIN t : t[k] = i THEN @[i] + 1 ELSE @[i]]]
    /\ UNCHANGED << graph, put, kept, sent, closed >>

\* What the user's code makes of a message: nothing if it holds an error, an error if it throws.  An
\* await-process collects the result, anything else has made it.
Broken(m)    == \E k \in DOMAIN m : m[k] = Error
Throws(p, m) == Node(p).throws # {} /\ m[1][2] \in Node(p).throws
Result(m)    == IF Len(m) = 1 THEN m[1] ELSE m

Apply(p) ==
    \E m \in hand[p] :
        LET makes(x) == sent' = [sent EXCEPT ![p] = Append(@, x)] /\ UNCHANGED kept
        IN  /\ hand' = [hand EXCEPT ![p] = {}]
            /\ IF Broken(m) THEN UNCHANGED << kept, sent >>
               ELSE IF Throws(p, m) THEN makes(Error)
               ELSE IF Node(p).kind = "function" THEN makes(Result(m))
               ELSE kept' = [kept EXCEPT ![p] = Append(@, Result(m))] /\ UNCHANGED sent
            /\ UNCHANGED << graph, put, used, closed >>

Yield(p) ==
    /\ kept[p] # << >>
    /\ kept' = [kept EXCEPT ![p] = Tail(@)]
    /\ sent' = [sent EXCEPT ![p] = Append(@, Head(kept[p]))]
    /\ UNCHANGED << graph, put, used, hand, closed >>

\* A process that is finished has seen the close, and keeps back less than a batch.
Finished(p) ==
    p \in closed /\ hand[p] = {} /\ (Node(p).kind = "process" => Len(kept[p]) < Node(p).batch)

Forget(p) ==
    /\ Finished(p)
    /\ kept' = [kept EXCEPT ![p] = << >>]
    /\ UNCHANGED << graph, put, used, hand, sent, closed >>

\* Argument i was given everything its upstream made.
Given(p, i) ==
    LET made == sent[Node(p).up[i]]
    IN  IF put[p][i] = << >> THEN made = << >> \/ Late(p, i)
        ELSE made # << >> /\ made[Len(made)] = put[p][i][Len(put[p][i])]

Close(p) ==
    /\ p \notin closed
    /\ hand[p] = {} /\ Possible(p) = {}
    /\ \A i \in DOMAIN Node(p).up : Finished(Node(p).up[i]) /\ Given(p, i)
    /\ closed' = closed \cup {p}
    /\ UNCHANGED << graph, put, used, hand, kept, sent >>

Next ==
    \E p \in Procs :
        \/ \E i \in Inputs(p) : Put(p, i)
        \/ Take(p) \/ Apply(p) \/ Yield(p) \/ Forget(p) \/ Close(p)

Spec == Init /\ [][Next]_vars
=============================================================================
