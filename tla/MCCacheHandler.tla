--------------------------- MODULE MCCacheHandler ---------------------------
(* Instances of CacheHandler for TLC. *)
EXTENDS CacheHandler, TLC

CONSTANTS c1, c2, o1, o2, k1, k2, t1, t2

\* Every key carries every tag.
AllTags == [k \in Keys |-> Tags]

Symmetry == Permutations(Calls) \cup Permutations(Pods) \cup Permutations(Keys)
=============================================================================
