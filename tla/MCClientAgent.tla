---------------------------- MODULE MCClientAgent ----------------------------
(* ClientAgent on small instances. *)
EXTENDS ClientAgent, TLC

Symmetry == Permutations(Run)

=============================================================================
