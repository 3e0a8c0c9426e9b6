-------------------------- MODULE MCReleaseEvidence --------------------------
EXTENDS ReleaseEvidence, TLC

CONSTANTS drc, erc, board, m1, m2, v1, v2, d1, d2

Installable == {[kind |-> "tool", name |-> drc], [kind |-> "rule", name |-> erc],
                [kind |-> "library", name |-> drc]}
\* the library erc uses shares its name with the other check
UsedBy == [c \in {drc, erc} |->
    IF c = drc THEN {[kind |-> "tool", name |-> drc]}
    ELSE {[kind |-> "rule", name |-> erc], [kind |-> "library", name |-> drc]}]
Asked == {{}, {drc}, {drc, erc}}
Symmetry == Permutations(Contents) \cup Permutations(Versions) \cup Permutations(Digests)

=============================================================================
