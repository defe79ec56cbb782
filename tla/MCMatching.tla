----------------------------- MODULE MCMatching -----------------------------
(* Matching on a small instance. *)
EXTENDS MatchingRefinement, TLC

MCPrices == {1, 2}

\* Ids and traders are only compared for equality.
Symmetry == Permutations(Ids) \cup Permutations(Traders)
=============================================================================
