------------------------------- MODULE MCDataset -------------------------------
EXTENDS Dataset, TLC
Symmetry == Permutations(Requests) \cup Permutations(Workers)
=============================================================================
