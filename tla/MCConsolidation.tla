--------------------------- MODULE MCConsolidation ---------------------------
(* Batches, cluster rows, settle events and rebuilds of one channel.         *)
EXTENDS Consolidation, TLC

CONSTANTS b1, b2, k1, k2, s1, s2

TwoBatches  == {b1, b2}
TwoClusters == {k1, k2}
OneSettle   == {s1}
TwoSettles  == {s1, s2}

\* Sound for the run without a liveness property.
Symmetry == Permutations(TwoBatches) \cup Permutations(TwoClusters)
=============================================================================
