---------------------------- MODULE MCBlockerHub ----------------------------
EXTENDS BlockerHub, TLC

CONSTANTS i1, i2

Symmetry == Permutations(Issues)

=============================================================================
