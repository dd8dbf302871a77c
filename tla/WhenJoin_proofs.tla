--------------------------- MODULE WhenJoin_proofs ---------------------------
(***************************************************************************)
(* Proofs about WhenJoin for any number of inputs.  The inductive          *)
(* invariant says where registration is (Registration), who has _f         *)
(* (Dispatching), what _remaining has counted (Counting) and what the      *)
(* decision rests on (Decision).                                           *)
(***************************************************************************)
EXTENDS WhenJoin, TLAPS, FiniteSetTheorems

InDispatch == {"check", "reset", "submit"}

\* An observer is called once, when its input is ready, and thread 0 has not yet passed the inputs
\* from next on.
Registration ==
    /\ pc[0] \in {"attach", "wait", "end"} \cup InDispatch
    /\ registering <=> pc[0] \in {"attach", "wait"}
    /\ \A i \in Inputs : pc[i] \in {"idle", "call", "done", "end"} \cup InDispatch
    /\ \A i \in Inputs : pc[i] # "idle" => state[i] # "pending"
    /\ \A i \in Inputs : i > next => pc[i] = "idle" /\ i \notin attached
    /\ pc[0] = "attach" /\ next \in Inputs => pc[next] = "idle" /\ next \notin attached
    /\ pc[0] = "wait" => next \in Inputs

\* _f leaves the join once, after the decision and after registration; inputs are reset and the
\* final task is made only by the thread that has it.
Dispatching ==
    /\ \A a \in Threads : pc[a] \in InDispatch => held = a
    /\ held # InJoin => decided /\ ~registering
    /\ held = InJoin => released = {} /\ final = "none"

\* What _remaining has counted.  An observer that finds the join gone counts nothing, and then
\* nobody counts any more.
Counting ==
    ~decided => /\ remaining > 0
                /\ SharedAlive => remaining = N - Cardinality(Counted)

\* What the decision rests on, and that the inputs it rests on are not reset.
Decision ==
    /\ released \subseteq Unneeded
    /\ decided =>
        IF exception # 0
        THEN state[exception] = "error" /\ (any => \A i \in Inputs : state[i] = "error")
        ELSE IF any THEN index # 0 /\ state[index] = "value" ELSE \A i \in Inputs : state[i] = "value"

IInv == TypeOK /\ Registration /\ Dispatching /\ Counting /\ Decision

-----------------------------------------------------------------------------

\* Thread 0 is none of the observers, and none of the places _f may be in is a thread.
LEMMA ZeroThread ==
    /\ 0 \in Threads /\ 0 \notin Inputs /\ Inputs \subseteq Threads
    /\ InJoin \notin Threads /\ Gone \notin Threads /\ Gone # InJoin
  BY JoinAssumption DEF Threads, Inputs, InJoin, Gone

LEMMA TypeStep == IInv /\ [Next]_vars => TypeOK'
  <1> SUFFICES ASSUME IInv, [Next]_vars PROVE TypeOK'
    OBVIOUS
  <1> USE JoinAssumption DEF IInv, TypeOK, Registration, Counting, InDispatch, Inputs, Threads, InJoin, Gone
  <1>1. ASSUME NEW i \in Inputs, Complete(i) PROVE TypeOK'
    BY <1>1 DEF Complete
  <1>2. ASSUME NEW i \in Inputs, ReleaseOther(i) PROVE TypeOK'
    BY <1>2 DEF ReleaseOther
  <1>3. CASE Attach
    <2> USE <1>3 DEF Attach, Following
    <2>1. CASE state[next] = "pending"
      <3>1. attached' = attached \cup {next} /\ next' = next + 1 /\ pc' = pc
        BY <2>1
      <3>2. attached' \subseteq Inputs
        BY <3>1
      <3>3. next' \in 1..(N + 1)
        BY <3>1
      <3>4. QED
        BY <3>1, <3>2, <3>3
    <2>2. CASE state[next] # "pending"
      <3>1. pc' = [pc EXCEPT ![0] = "wait", ![next] = "call"]
        BY <2>2
      <3>2. pc' \in [Threads -> {"attach", "wait", "idle", "call", "done", "check", "reset",
                                 "submit", "end"}]
        BY <3>1
      <3>3. QED
        BY <2>2, <3>2
    <2>3. QED
      BY <2>1, <2>2
  <1>4. CASE Resume
    BY <1>4 DEF Resume, Following
  <1>5. CASE FinishRegistration
    <2> USE <1>5 DEF FinishRegistration, DispatchAtEnd
    <2>1. CASE decided
      <3>1. pc' = [pc EXCEPT ![0] = "check"]
        BY <2>1
      <3>2. held' \in Threads \cup {InJoin, Gone}
        BY <2>1
      <3>3. QED
        BY <3>1, <3>2
    <2>2. CASE ~decided
      BY <2>2
    <2>3. QED
      BY <2>1, <2>2
  <1>6. ASSUME NEW i \in Inputs, Observe(i) PROVE TypeOK'
    BY <1>6 DEF Observe
  <1>7. ASSUME NEW i \in Inputs, Done(i) PROVE TypeOK'
    <2> USE <1>7 DEF Done, Ignores, Decides, MayDispatch
    <2>1. CASE decided
      BY <2>1
    <2>2. CASE ~decided
      <3>1. remaining' \in 0..N /\ index' \in Threads /\ exception' \in Threads
        BY <2>2
      <3>2. held' \in {i, held}
        BY <2>2
      <3>3. decided' \in BOOLEAN
        BY <2>2
      <3>4. pc' \in {[pc EXCEPT ![i] = "check"], [pc EXCEPT ![i] = "end"]}
        BY <2>2
      <3>5. QED
        BY <3>1, <3>2, <3>3, <3>4
    <2>3. QED
      BY <2>1, <2>2
  <1>8. ASSUME NEW a \in Threads, CheckCanceled(a) PROVE TypeOK'
    BY <1>8 DEF CheckCanceled
  <1>9. ASSUME NEW a \in Threads, ResetInputs(a) PROVE TypeOK'
    <2>1. Unneeded \subseteq Inputs
      BY DEF Unneeded
    <2>2. QED
      BY <1>9, <2>1 DEF ResetInputs
  <1>10. ASSUME NEW a \in Threads, Submit(a) PROVE TypeOK'
    BY <1>10 DEF Submit
  <1>11. CASE RunFinal
    BY <1>11 DEF RunFinal
  <1>12. CASE ReleaseResult
    BY <1>12 DEF ReleaseResult
  <1>13. CASE UNCHANGED vars
    BY <1>13 DEF vars
  <1> QED
    BY <1>1, <1>2, <1>3, <1>4, <1>5, <1>6, <1>7, <1>8, <1>9, <1>10, <1>11, <1>12, <1>13, ZeroThread DEF Next, Register, Observer, Dispatch

LEMMA RegistrationStep == IInv /\ [Next]_vars => Registration'
  <1> SUFFICES ASSUME IInv, [Next]_vars PROVE Registration'
    OBVIOUS
  <1> USE JoinAssumption DEF IInv, TypeOK, Registration, Dispatching, InDispatch, Inputs, Threads, InJoin, Gone
  <1>1. ASSUME NEW i \in Inputs, Complete(i) PROVE Registration'
    BY <1>1 DEF Complete
  <1>2. ASSUME NEW i \in Inputs, ReleaseOther(i) PROVE Registration'
    BY <1>2 DEF ReleaseOther
  <1>3. CASE Attach
    BY <1>3 DEF Attach, Following
  <1>4. CASE Resume
    BY <1>4 DEF Resume, Following
  <1>5. CASE FinishRegistration
    BY <1>5 DEF FinishRegistration, DispatchAtEnd
  <1>6. ASSUME NEW i \in Inputs, Observe(i) PROVE Registration'
    BY <1>6 DEF Observe
  <1>7. ASSUME NEW i \in Inputs, Done(i) PROVE Registration'
    BY <1>7 DEF Done, Ignores, Decides, Counts, MayDispatch
  <1>8. ASSUME NEW a \in Threads, CheckCanceled(a) PROVE Registration'
    BY <1>8 DEF CheckCanceled
  <1>9. ASSUME NEW a \in Threads, ResetInputs(a) PROVE Registration'
    BY <1>9 DEF ResetInputs
  <1>10. ASSUME NEW a \in Threads, Submit(a) PROVE Registration'
    BY <1>10 DEF Submit
  <1>11. CASE RunFinal
    BY <1>11 DEF RunFinal
  <1>12. CASE ReleaseResult
    BY <1>12 DEF ReleaseResult
  <1>13. CASE UNCHANGED vars
    BY <1>13 DEF vars
  <1> QED
    BY <1>1, <1>2, <1>3, <1>4, <1>5, <1>6, <1>7, <1>8, <1>9, <1>10, <1>11, <1>12, <1>13, ZeroThread DEF Next, Register, Observer, Dispatch

LEMMA DispatchingStep == IInv /\ [Next]_vars => Dispatching'
  <1> SUFFICES ASSUME IInv, [Next]_vars PROVE Dispatching'
    OBVIOUS
  <1> USE JoinAssumption DEF IInv, TypeOK, Registration, Dispatching, InDispatch, Inputs, Threads, InJoin, Gone
  <1>1. ASSUME NEW i \in Inputs, Complete(i) PROVE Dispatching'
    BY <1>1 DEF Complete
  <1>2. ASSUME NEW i \in Inputs, ReleaseOther(i) PROVE Dispatching'
    BY <1>2 DEF ReleaseOther
  <1>3. CASE Attach
    BY <1>3 DEF Attach, Following
  <1>4. CASE Resume
    BY <1>4 DEF Resume, Following
  <1>5. CASE FinishRegistration
    BY <1>5 DEF FinishRegistration, DispatchAtEnd
  <1>6. ASSUME NEW i \in Inputs, Observe(i) PROVE Dispatching'
    BY <1>6 DEF Observe
  <1>7. ASSUME NEW i \in Inputs, Done(i) PROVE Dispatching'
    BY <1>7 DEF Done, Ignores, Decides, Counts, MayDispatch
  <1>8. ASSUME NEW a \in Threads, CheckCanceled(a) PROVE Dispatching'
    BY <1>8 DEF CheckCanceled
  <1>9. ASSUME NEW a \in Threads, ResetInputs(a) PROVE Dispatching'
    BY <1>9 DEF ResetInputs
  <1>10. ASSUME NEW a \in Threads, Submit(a) PROVE Dispatching'
    BY <1>10 DEF Submit
  <1>11. CASE RunFinal
    BY <1>11 DEF RunFinal
  <1>12. CASE ReleaseResult
    BY <1>12 DEF ReleaseResult
  <1>13. CASE UNCHANGED vars
    BY <1>13 DEF vars
  <1> QED
    BY <1>1, <1>2, <1>3, <1>4, <1>5, <1>6, <1>7, <1>8, <1>9, <1>10, <1>11, <1>12, <1>13, ZeroThread DEF Next, Register, Observer, Dispatch

-----------------------------------------------------------------------------
\* The counted inputs are some of the N.
LEMMA CountedFinite ==
    /\ IsFiniteSet(Inputs) /\ Cardinality(Inputs) = N
    /\ Counted \subseteq Inputs /\ IsFiniteSet(Counted) /\ Cardinality(Counted) \in 0..N
  <1>1. IsFiniteSet(1..N) /\ Cardinality(1..N) = N
    BY JoinAssumption, FS_Interval
  <1>2. Counted \subseteq Inputs
    BY DEF Counted
  <1>3. IsFiniteSet(Counted) /\ Cardinality(Counted) <= N
    BY <1>1, <1>2, FS_Subset DEF Inputs
  <1>4. Cardinality(Counted) \in Nat
    BY <1>3, FS_CardinalityType
  <1>5. QED
    BY <1>1, <1>2, <1>3, <1>4, JoinAssumption DEF Inputs

\* One more is counted by an observer that counts down.
LEMMA CountedOne ==
  ASSUME NEW i \in Inputs, i \notin Counted, Counted' = Counted \cup {i}
  PROVE  Cardinality(Counted') = Cardinality(Counted) + 1
  BY CountedFinite, FS_AddElement

\* when_shared does not come back.
LEMMA Stays == IInv /\ [Next]_vars => (SharedAlive' => SharedAlive)
  <1> SUFFICES ASSUME IInv, [Next]_vars, SharedAlive' PROVE SharedAlive
    OBVIOUS
  <1> USE JoinAssumption DEF IInv, TypeOK, Registration, SharedAlive, InDone, InDispatch, Threads, Inputs
  <1>1. ASSUME NEW i \in Inputs, Complete(i) PROVE SharedAlive
    BY <1>1 DEF Complete
  <1>2. ASSUME NEW i \in Inputs, ReleaseOther(i) PROVE SharedAlive
    BY <1>2 DEF ReleaseOther
  <1>3. CASE Attach
    BY <1>3 DEF Attach
  <1>4. CASE Resume
    BY <1>4 DEF Resume
  <1>5. CASE FinishRegistration
    BY <1>5 DEF FinishRegistration
  <1>6. ASSUME NEW i \in Inputs, Observe(i) PROVE SharedAlive
    BY <1>6 DEF Observe
  <1>7. ASSUME NEW i \in Inputs, Done(i) PROVE SharedAlive
    BY <1>7 DEF Done
  <1>8. ASSUME NEW a \in Threads, CheckCanceled(a) PROVE SharedAlive
    BY <1>8 DEF CheckCanceled
  <1>9. ASSUME NEW a \in Threads, ResetInputs(a) PROVE SharedAlive
    BY <1>9 DEF ResetInputs
  <1>10. ASSUME NEW a \in Threads, Submit(a) PROVE SharedAlive
    BY <1>10 DEF Submit
  <1>11. CASE RunFinal
    BY <1>11 DEF RunFinal
  <1>12. CASE ReleaseResult
    BY <1>12 DEF ReleaseResult
  <1>13. CASE UNCHANGED vars
    BY <1>13 DEF vars
  <1> QED
    BY <1>1, <1>2, <1>3, <1>4, <1>5, <1>6, <1>7, <1>8, <1>9, <1>10, <1>11, <1>12, <1>13, ZeroThread DEF Next, Register, Observer, Dispatch

\* The count of an undecided join that is still there.
LEMMA CountingStep == IInv /\ [Next]_vars => Counting'
  <1> SUFFICES ASSUME IInv, [Next]_vars, ~decided' PROVE Counting'
    BY DEF Counting
  <1> USE DEF IInv, Counting
  <1>0. ASSUME ~decided, remaining' = remaining, Counted' = Counted \/ ~SharedAlive PROVE Counting'
    BY <1>0, Stays
  <1>1. ASSUME NEW i \in Inputs, Complete(i) PROVE Counting'
    <2>1. ~decided /\ remaining' = remaining
      BY <1>1 DEF Complete
    <2>2. Counted' = Counted
      BY <1>1, JoinAssumption DEF Complete, Counted, Counts, TypeOK, Registration, InDispatch, Inputs, Threads
    <2>3. QED
      BY <2>1, <2>2, <1>0
  <1>2. ASSUME NEW i \in Inputs, ReleaseOther(i) PROVE Counting'
    <2>1. ~decided /\ remaining' = remaining
      BY <1>2 DEF ReleaseOther
    <2>2. Counted' = Counted
      BY <1>2, JoinAssumption DEF ReleaseOther, Counted, Counts, TypeOK, Registration, InDispatch, Inputs, Threads
    <2>3. QED
      BY <2>1, <2>2, <1>0
  <1>3. CASE Attach
    <2>1. ~decided /\ remaining' = remaining
      BY <1>3 DEF Attach
    <2>2. Counted' = Counted
      BY <1>3, JoinAssumption DEF Attach, Counted, Counts, TypeOK, Registration, InDispatch, Inputs, Threads
    <2>3. QED
      BY <2>1, <2>2, <1>0
  <1>4. CASE Resume
    <2>1. ~decided /\ remaining' = remaining
      BY <1>4 DEF Resume
    <2>2. Counted' = Counted
      BY <1>4, JoinAssumption DEF Resume, Counted, Counts, TypeOK, Registration, InDispatch, Inputs, Threads
    <2>3. QED
      BY <2>1, <2>2, <1>0
  <1>5. CASE FinishRegistration
    <2>1. ~decided /\ remaining' = remaining
      BY <1>5 DEF FinishRegistration
    <2>2. Counted' = Counted
      BY <1>5, JoinAssumption DEF FinishRegistration, Counted, Counts, TypeOK, Registration, InDispatch, Inputs, Threads
    <2>3. QED
      BY <2>1, <2>2, <1>0
  <1>6. ASSUME NEW i \in Inputs, Observe(i) PROVE Counting'
    <2>1. ~decided /\ remaining' = remaining
      BY <1>6 DEF Observe
    <2>2. SharedAlive => Counted' = Counted
      BY <1>6, ZeroThread DEF Observe, Counted, Counts, TypeOK
    <2>3. QED
      BY <2>1, <2>2, <1>0
  <1>7. ASSUME NEW i \in Inputs, Done(i) PROVE Counting'
    <2>1. ~decided /\ Counts(i) /\ remaining # 1 /\ remaining' = remaining - 1
      BY <1>7 DEF Done, Ignores, Decides, TypeOK
    <2>2. pc[i] = "done" /\ pc' = [pc EXCEPT ![i] = "end"] /\ UNCHANGED << any, state >>
      BY <1>7, <2>1 DEF Done, Ignores, Decides
    <2>3. i \notin Counted /\ Counted' = Counted \cup {i}
      BY <2>1, <2>2, ZeroThread DEF Counted, Counts, TypeOK
    <2>4. Cardinality(Counted') = Cardinality(Counted) + 1 /\ Cardinality(Counted) \in Nat
      BY <2>3, CountedOne, CountedFinite
    <2>5. remaining' > 0
      BY <2>1 DEF TypeOK
    <2>6. SharedAlive => remaining' = N - Cardinality(Counted')
      BY <2>1, <2>4, JoinAssumption DEF TypeOK
    <2>7. QED
      BY <2>5, <2>6, Stays
  <1>8. ASSUME NEW a \in Threads, CheckCanceled(a) PROVE Counting'
    BY <1>8, ZeroThread DEF CheckCanceled, Dispatching, InDispatch
  <1>9. ASSUME NEW a \in Threads, ResetInputs(a) PROVE Counting'
    BY <1>9, ZeroThread DEF ResetInputs, Dispatching, InDispatch
  <1>10. ASSUME NEW a \in Threads, Submit(a) PROVE Counting'
    BY <1>10, ZeroThread DEF Submit, Dispatching, InDispatch
  <1>11. CASE RunFinal
    <2>1. ~decided /\ remaining' = remaining
      BY <1>11 DEF RunFinal
    <2>2. Counted' = Counted
      BY <1>11, JoinAssumption DEF RunFinal, Counted, Counts, TypeOK, Registration, InDispatch, Inputs, Threads
    <2>3. QED
      BY <2>1, <2>2, <1>0
  <1>12. CASE ReleaseResult
    <2>1. ~decided /\ remaining' = remaining
      BY <1>12 DEF ReleaseResult
    <2>2. Counted' = Counted
      BY <1>12, JoinAssumption DEF ReleaseResult, Counted, Counts, TypeOK, Registration, InDispatch, Inputs, Threads
    <2>3. QED
      BY <2>1, <2>2, <1>0
  <1>13. CASE UNCHANGED vars
    <2>1. ~decided /\ remaining' = remaining
      BY <1>13 DEF vars
    <2>2. Counted' = Counted
      BY <1>13, JoinAssumption DEF vars, Counted, Counts, TypeOK, Registration, InDispatch, Inputs, Threads
    <2>3. QED
      BY <2>1, <2>2, <1>0
  <1> QED
    BY <1>1, <1>2, <1>3, <1>4, <1>5, <1>6, <1>7, <1>8, <1>9, <1>10, <1>11, <1>12, <1>13, ZeroThread DEF Next, Register, Observer, Dispatch

\* What the decision rests on stays.
LEMMA DecisionStep == IInv /\ [Next]_vars => Decision'
  <1> SUFFICES ASSUME IInv, [Next]_vars PROVE Decision'
    OBVIOUS
  <1> USE DEF IInv, TypeOK, Dispatching, Decision, Unneeded
  <1>1. ASSUME NEW i \in Inputs, Complete(i) PROVE Decision'
    BY <1>1 DEF Complete
  <1>2. ASSUME NEW i \in Inputs, ReleaseOther(i) PROVE Decision'
    BY <1>2 DEF ReleaseOther
  <1>3. CASE Attach
    BY <1>3 DEF Attach
  <1>4. CASE Resume
    BY <1>4 DEF Resume
  <1>5. CASE FinishRegistration
    BY <1>5 DEF FinishRegistration
  <1>6. ASSUME NEW i \in Inputs, Observe(i) PROVE Decision'
    BY <1>6 DEF Observe
  <1>7. ASSUME NEW i \in Inputs, Done(i) PROVE Decision'
    <2>1. CASE decided
      BY <1>7, <2>1 DEF Done, Ignores
    <2>2. CASE ~decided /\ ~Decides(i)
      BY <1>7, <2>2 DEF Done, Ignores
    <2>3. CASE ~decided /\ Decides(i)
      <3>1. released = {} /\ released' = {}
        BY <1>7, <2>3 DEF Done
      <3>2. /\ index' = IF any THEN i ELSE index
            /\ exception' = IF state[i] = "error" THEN i ELSE 0
            /\ UNCHANGED << any, state >> /\ i # 0
        BY <1>7, <2>3, ZeroThread DEF Done, Ignores
      <3>3. state[i] \in {"value", "error"}
        BY <1>7 DEF Done, Registration
      <3>4. CASE ~Counts(i)
        BY <3>1, <3>2, <3>3, <3>4 DEF Counts
      <3>5. CASE Counts(i) /\ remaining = 1
        <4>1. SharedAlive
          BY <1>7 DEF Done, SharedAlive, InDone
        <4>2. i \notin Counted
          BY <1>7 DEF Done, Counted
        <4>3. Cardinality(Counted \cup {i}) = N
          <5>1. Cardinality(Counted \cup {i}) = Cardinality(Counted) + 1
            BY <4>2, CountedFinite, FS_AddElement
          <5>2. 1 = N - Cardinality(Counted) /\ Cardinality(Counted) \in Nat
            BY <2>3, <3>5, <4>1, CountedFinite DEF Counting
          <5>3. QED
            BY <5>1, <5>2, JoinAssumption
        <4>4. Counted \cup {i} = Inputs
          BY <4>3, CountedFinite, FS_Subset
        <4>5. \A j \in Inputs : Counts(j) /\ (j = i \/ pc[j] # "idle")
          BY <3>5, <4>4 DEF Counted
        <4>6. \A j \in Inputs : state[j] = IF any THEN "error" ELSE "value"
          BY <3>3, <4>5 DEF Counts, Registration
        <4>7. QED
          BY <3>1, <3>2, <4>6
      <3>6. QED
        BY <2>3, <3>4, <3>5 DEF Decides
    <2>4. QED
      BY <2>1, <2>2, <2>3
  <1>8. ASSUME NEW a \in Threads, CheckCanceled(a) PROVE Decision'
    BY <1>8 DEF CheckCanceled
  <1>9. ASSUME NEW a \in Threads, ResetInputs(a) PROVE Decision'
    BY <1>9 DEF ResetInputs
  <1>10. ASSUME NEW a \in Threads, Submit(a) PROVE Decision'
    BY <1>10 DEF Submit
  <1>11. CASE RunFinal
    BY <1>11 DEF RunFinal
  <1>12. CASE ReleaseResult
    BY <1>12 DEF ReleaseResult
  <1>13. CASE UNCHANGED vars
    BY <1>13 DEF vars
  <1> QED
    BY <1>1, <1>2, <1>3, <1>4, <1>5, <1>6, <1>7, <1>8, <1>9, <1>10, <1>11, <1>12, <1>13, ZeroThread DEF Next, Register, Observer, Dispatch

-----------------------------------------------------------------------------
LEMMA InitInv == Init => IInv
  <1> SUFFICES ASSUME Init PROVE IInv
    OBVIOUS
  <1> USE JoinAssumption DEF Init
  <1>1. TypeOK
    <2>1. pc \in [Threads -> {"attach", "wait", "idle", "call", "done", "check", "reset",
                              "submit", "end"}]
      OBVIOUS
    <2>2. next \in 1..(N + 1) /\ remaining \in 0..N /\ index \in Threads /\ exception \in Threads
      BY DEF Threads
    <2>3. others \subseteq Inputs /\ attached \subseteq Inputs /\ released \subseteq Inputs
      OBVIOUS
    <2>4. QED
      BY <2>1, <2>2, <2>3 DEF TypeOK
  <1>2. Registration
    BY DEF Registration, InDispatch, Inputs, Threads
  <1>3. Dispatching /\ Decision
    BY DEF Dispatching, Decision, InDispatch, Unneeded, Inputs, Threads
  <1>4. Counted = {}
    BY DEF Counted, Inputs, Threads
  <1>5. Counting
    BY <1>4, FS_EmptySet DEF Counting
  <1>6. QED
    BY <1>1, <1>2, <1>3, <1>5 DEF IInv

LEMMA StepInv == IInv /\ [Next]_vars => IInv'
  BY TypeStep, RegistrationStep, DispatchingStep, CountingStep, DecisionStep DEF IInv

LEMMA Invariant == Spec => []IInv
  BY InitInv, StepInv, PTL DEF Spec

(* Every value of every variable is one the code can hold there.  That     *)
(* _remaining, a size_t, does not go below zero is part of it.             *)
THEOREM Typing == Spec => []TypeOK
  BY Invariant, PTL DEF IInv

(* While the join is undecided and can still be reached, _remaining is the *)
(* number of inputs that have not been counted, and at least one has not.  *)
THEOREM CountExact == Spec => []RemainingExact
  <1>1. IInv => RemainingExact
    BY DEF IInv, Counting, RemainingExact
  <1>2. QED
    BY <1>1, Invariant, PTL

(* The decision is dispatched once, by one thread, after registration,     *)
(* however completions interleave with it.                                 *)
THEOREM DispatchedOnce == Spec => []OneDispatcher
  <1>1. IInv => OneDispatcher
    BY DEF IInv, Dispatching, OneDispatcher, InDispatch
  <1>2. QED
    BY <1>1, Invariant, PTL

(* The final function gets the values it is to read, or the exception of   *)
(* an input that failed.                                                   *)
THEOREM ArgumentsFinal == Spec => []FinalArguments
  <1>1. IInv => FinalArguments
    <2> SUFFICES ASSUME IInv, final = "queued" PROVE FinalArguments
      BY DEF FinalArguments
    <2>1. decided
      BY DEF IInv, Dispatching
    <2>2. CASE exception # 0
      BY <2>1, <2>2 DEF IInv, Decision, FinalArguments
    <2>3. CASE exception = 0 /\ any
      BY <2>1, <2>3 DEF IInv, Decision, FinalArguments, Finds, Unneeded
    <2>4. CASE exception = 0 /\ ~any
      BY <2>1, <2>4 DEF IInv, Decision, FinalArguments, Finds, Unneeded
    <2>5. QED
      BY <2>2, <2>3, <2>4
  <1>2. QED
    BY <1>1, Invariant, PTL

(* No input is reset while thread 0 may still attach to it or an observer  *)
(* read it.                                                                *)
THEOREM ResetLast == Spec => []NoUseAfterReset
  <1>1. IInv => NoUseAfterReset
    BY DEF IInv, Dispatching, Registration, NoUseAfterReset
  <1>2. QED
    BY <1>1, Invariant, PTL

(* The inputs of an undecided join that someone waits for stay wanted.     *)
THEOREM InputsHeld == Spec => []InputsKept
  <1>1. IInv => InputsKept
    BY DEF IInv, Dispatching, InputsKept, InputAlive, SharedAlive
  <1>2. QED
    BY <1>1, Invariant, PTL
=============================================================================
