---------------------------- MODULE MCPoolManager ----------------------------
(* PoolManager on a small pool, for TLC. *)
EXTENDS PoolManager, TLC

Symmetry == Permutations(LeaseIds) \cup Permutations(Keys)
=============================================================================
