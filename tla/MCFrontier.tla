----------------------------- MODULE MCFrontier -----------------------------
EXTENDS Frontier, TLC
CONSTANTS u1, u2
Symmetry == Permutations({u1, u2})
=============================================================================
