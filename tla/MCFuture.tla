------------------------------ MODULE MCFuture ------------------------------
(* Small instances of Future for TLC. *)
EXTENDS Future, TLC

Symmetry == Permutations(Futures) \cup Permutations(Clients)
FuturesSymmetry == Permutations(Futures)
=============================================================================
