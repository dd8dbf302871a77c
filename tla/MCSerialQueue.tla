--------------------------- MODULE MCSerialQueue ---------------------------
(* Small instances of SerialQueue for TLC. *)
EXTENDS SerialQueue, TLC

WorkersSymmetry == Permutations(Workers)
=============================================================================
