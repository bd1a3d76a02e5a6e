---------------------------- MODULE MCOrphanRuns ----------------------------
(* OrphanRuns on small instances. *)
EXTENDS OrphanRuns, TLC

Symmetry == Permutations(Slots)
=============================================================================
