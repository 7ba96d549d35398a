---------------------------- MODULE MCWorkspace ----------------------------
(* Instances of Workspace for TLC. *)
EXTENDS Workspace, TLC

Symmetry == Permutations(Handlers) \cup Permutations(Clients)

=============================================================================
