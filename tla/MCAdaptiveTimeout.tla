------------------------- MODULE MCAdaptiveTimeout -------------------------
(* No RPC differs from another, and only invariants are checked.           *)
EXTENDS AdaptiveTimeout

Symmetry == Permutations(Rpcs)
=============================================================================
