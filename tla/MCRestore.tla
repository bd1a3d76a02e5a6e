------------------------------ MODULE MCRestore -----------------------------
(* Restore with interchangeable torrents and categories. *)
EXTENDS Restore, TLC

Symmetry == Permutations(Hashes) \cup Permutations(Categories)
=============================================================================
