----------------------------- MODULE MCWhenJoin -----------------------------
(* Small instances of WhenJoin for TLC: N comes from the .cfg. *)
EXTENDS WhenJoin
=============================================================================
