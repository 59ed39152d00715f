---------------------------- MODULE MCLeaseStore -----------------------------
(* LeaseStore on a small pool, for TLC. *)
EXTENDS LeaseStore, TLC

Symmetry == Permutations(LeaseIds) \cup Permutations(Keys) 
=============================================================================
