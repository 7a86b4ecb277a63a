----------------------------- MODULE MCPartSizing -----------------------------
EXTENDS PartSizing
MCFileSizes == 1 .. 26
MCPartSizes == 1 .. 9
=============================================================================
