------------------------- MODULE MCManagedSchedules -------------------------
(* ManagedSchedules on small instances. *)
EXTENDS ManagedSchedules, TLC

Symmetry == Permutations(Run) \cup Permutations(Agent)

=============================================================================
