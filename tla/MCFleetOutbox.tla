---------------------------- MODULE MCFleetOutbox ---------------------------
EXTENDS FleetOutbox, TLC

CONSTANTS d1, d2, server

Symmetry == Permutations(Drafts)

=============================================================================
