--------------------------- MODULE MCDirScanRuns ----------------------------
(* DirScanRuns with one directory, top, that has the parts a and b.         *)
EXTENDS DirScanRuns, TLC

CONSTANTS top, a, b

AboveMC == [p \in {top, a, b} |-> {top, p}]
DirPathMC == [d \in Directories |-> top]
Symmetry == Permutations(Callers) \cup Permutations({a, b})
=============================================================================
