--------------------------- MODULE FutureContract ---------------------------
(***************************************************************************)
(* What futures promise their users, without saying how.  A future is      *)
(* pending until it settles, once and for good, or is canceled because no  *)
(* one wants it any more.  A continuation settles after its source, and    *)
(* then passes the source's failure on; a future whose function returned   *)
(* another future takes the outcome of that one; nothing that is still     *)
(* wanted loses the source it waits for.                                   *)
(***************************************************************************)
CONSTANTS Futures, NoFuture

VARIABLES
    outcome,   \* each future's state
    source,    \* the future it waits for, if any
    rule       \* how its outcome depends on its source's: "free", "pass" or "same"

cvars == << outcome, source, rule >>

Failures == {"error", "broken"}
Settled  == {"value"} \cup Failures

Init ==
    /\ outcome = [d \in Futures |-> "absent"]
    /\ source = [d \in Futures |-> NoFuture]
    /\ rule = [d \in Futures |-> "free"]

Usable(s) == s = NoFuture \/ outcome[s] \in Settled \cup {"pending"}

\* A new future, waiting for s or for nothing; o is not "pending" for a ready-made one.
Create(d, s, o) ==
    /\ outcome[d] = "absent"
    /\ Usable(s)
    /\ o \in {"pending"} \cup (IF s = NoFuture THEN Settled ELSE {})
    /\ outcome' = [outcome EXCEPT ![d] = o]
    /\ source' = [source EXCEPT ![d] = s]
    /\ \E r \in {"free", "pass"} :
          /\ s = NoFuture => r = "free"
          /\ rule' = [rule EXCEPT ![d] = r]

\* The function of d has returned a new future q: d waits for it from now on.
Reduce(d, q) ==
    /\ outcome[d] = "pending"
    /\ outcome[q] = "absent"
    /\ outcome' = [outcome EXCEPT ![q] = "pending"]
    /\ source' = [source EXCEPT ![d] = q]
    /\ rule' = [rule EXCEPT ![d] = "same"]

\* What d may settle as.  Any task may be destroyed by its executor before it runs.
Allowed(d) ==
    {r \in Settled : source[d] # NoFuture =>
        /\ outcome[source[d]] \in Settled
        /\ rule[d] = "same" => r = outcome[source[d]]
        /\ rule[d] = "pass" /\ outcome[source[d]] \in Failures
              => r \in {outcome[source[d]], "broken"}}

Settle(d) ==
    /\ outcome[d] = "pending"
    /\ \E r \in Allowed(d) : outcome' = [outcome EXCEPT ![d] = r]
    /\ UNCHANGED << source, rule >>

\* The futures of C are no longer wanted, and nothing that is waits for them.
Cancel(C) ==
    /\ C # {}
    /\ \A d \in C : outcome[d] = "pending"
    /\ \A d \in Futures \ C : outcome[d] = "pending" => source[d] \notin C
    /\ outcome' = [d \in Futures |-> IF d \in C THEN "canceled" ELSE outcome[d]]
    /\ UNCHANGED << source, rule >>

Absent  == {d \in Futures : outcome[d] = "absent"}
Waiting == {d \in Futures : outcome[d] = "pending"}

Next ==
    \/ \E d \in Absent, s \in Futures \cup {NoFuture}, o \in Settled \cup {"pending"} :
          Create(d, s, o)
    \/ \E d \in Waiting, q \in Absent : Reduce(d, q)
    \/ \E d \in Waiting : Settle(d)
    \/ \E C \in SUBSET Waiting : Cancel(C)

Spec == Init /\ [][Next]_cvars
=============================================================================
