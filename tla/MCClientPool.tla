---------------------------- MODULE MCClientPool ----------------------------
(* ClientPool with a backoff that overflows at the second failure. *)
EXTENDS ClientPool, TLC

BackoffsMC == {<<1, 1>>}

Symmetry == Permutations(Callers) \cup Permutations(Handlers)
=============================================================================
