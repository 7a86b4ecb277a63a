--------------------------- MODULE MCUploadSession ---------------------------
EXTENDS UploadSession, TLC
Symmetry == Permutations(Requests) \cup Permutations(Parts)

\* Bound: storage holds at most one part of the wrong size at a time.
OneWrongPart == Cardinality({p \in Parts : stored[p] = "bad"}) <= 1
=============================================================================
