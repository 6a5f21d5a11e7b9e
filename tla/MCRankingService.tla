--------------------------- MODULE MCRankingService --------------------------
EXTENDS RankingService, TLC

CONSTANTS p1, p2, w1

Products == {p1, p2}

\* Products are interchangeable; only safety is checked with it.
Symmetry == Permutations(Products)
=============================================================================
