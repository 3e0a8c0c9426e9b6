-------------------------- MODULE MCComponentVault ---------------------------
EXTENDS ComponentVault, TLC

CONSTANTS t1, t2, d1, d2, x1, x2, v1, v2

Symmetry == Permutations(Threads) \cup Permutations(Documents) \cup Permutations(Extractors) \cup Permutations(Values)

=============================================================================
