--------------------------- MODULE MCCachePolicy ---------------------------
(* Instances of CachePolicy for TLC. *)
EXTENDS CachePolicy, TLC

CONSTANTS k1, k2, k3, k4, c1, c2

Symmetry == Permutations(Keys) \cup Permutations(Clients)
=============================================================================
