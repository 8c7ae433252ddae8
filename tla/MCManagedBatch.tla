--------------------------- MODULE MCManagedBatch ---------------------------
(* ManagedBatch on small instances. *)
EXTENDS ManagedBatch, TLC

Symmetry == Permutations(Worker) \cup Permutations(Batch)

=============================================================================
