------------------------------- MODULE MCSpine ------------------------------
(* Two sections of the PRD stand for the ten the rubric looks at: one that *)
(* only the mechanical gate (C01/C02) and the test gate (C06) look at, and *)
(* one that only the electrical (C03), firmware (C05) and test gates do.   *)
(* The first layer raises blockers and the electrical one asks for         *)
(* evidence, more than once; by hand, C01 and C04 are given work early.    *)
EXTENDS Spine

CONSTANTS a1, a2, s1, s2, d1, d2

MCSourceSections ==
    [l \in {1, 2, 3, 5, 6} |-> CASE l \in {1, 2} -> {s1}
                                 [] l \in {3, 5} -> {s2}
                                 [] l = 6 -> {s1, s2}]
MCHandPackets == {<<4, "partial">>}
MCReturning == {<<"blocker", 1>>, <<"evidence", 6>>}

=============================================================================
