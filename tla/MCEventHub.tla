------------------------------ MODULE MCEventHub -----------------------------
(* EventHub with a buffer small enough to overflow, for TLC. *)
EXTENDS EventHub, TLC

WriterSymmetry == Permutations(Writers)
=============================================================================
