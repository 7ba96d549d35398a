------------------------- MODULE MCIdentityStartup -------------------------
(* Instances of IdentityStartup for TLC. *)
EXTENDS IdentityStartup, TLC

Symmetry == Permutations(Processes) \cup Permutations(RandomKeys)
              \cup Permutations(Offers)

=============================================================================
