-------------------------- MODULE MCRequestGuard --------------------------
(* Instances of RequestGuard for TLC. *)
EXTENDS RequestGuard, TLC

Symmetry == Permutations(Sources) \cup Permutations(Requests)

=============================================================================
