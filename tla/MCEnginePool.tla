---------------------------- MODULE MCEnginePool ----------------------------
EXTENDS EnginePool
CONSTANTS a, b, d

MCSize(m) == IF m = a THEN 4 ELSE 5
Symmetry == Permutations(Client) \cup Permutations({b, d})
=============================================================================
