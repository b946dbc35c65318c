----------------------------- MODULE MCSSDCache -----------------------------
EXTENDS SSDCache

MCRaw(h) == 2
Symmetry == Permutations(Hash)
=============================================================================
