--------------------------- MODULE MCPathRegistry ---------------------------
(* Instantiates PathRegistry for TLC; the constants are given in the cfgs. *)
EXTENDS PathRegistry, TLC

\* PathIDs are random values and routers identities, both compared only for
\* equality; no property names one of them.
Symmetry == Permutations(PathIDs) \cup Permutations(Routers)

\* With distinct IDs, a new hop or path takes the two least free IDs (the
\* PathIDs are numbers here).  Every other choice of free IDs is a renaming
\* of this one, since IDs are only compared for equality, so the reduction
\* is sound for liveness too, unlike SYMMETRY.
LeastFree(S) == CHOOSE x \in S : \A y \in S : x <= y
MCFreshIDs ==
  LET free == PathIDs \ UsedIDs
  IN  IF Cardinality(free) < 2 THEN {}
      ELSE {<<LeastFree(free), LeastFree(free \ {LeastFree(free)})>>}
=============================================================================
