--------------------------- MODULE MCSubstateVerbs --------------------------
(* Callers of the landing verbs: each role without verdicts, the verifier  *)
(* with each gate's verdict and with refused ones, approval from those who *)
(* may release.                                                            *)
EXTENDS SubstateVerbs

Pass(g) == [gate |-> g, passed |-> TRUE, blocking |-> 0]
Blocked(g) == [gate |-> g, passed |-> TRUE, blocking |-> 1]

MCCalls ==
    [role : {"ee-designer", "layout-specialist"}, verdicts : {{}}, human_approved : {FALSE}]
    \cup [role : {"layout-specialist"}, verdicts : {{Pass("placement_preflight")}},
          human_approved : {FALSE}]
    \cup [role : {"release-engineer"}, verdicts : {{}}, human_approved : {TRUE}]
    \cup [role : {"verification-adversary"},
          verdicts : {{Pass("check_c03")}, {Pass("placement_preflight")},
                      {Pass("layout_drc_gate")}, {Blocked("layout_drc_gate")}},
          human_approved : {FALSE}]

\* What gate.py assumes when the caller does not say, and the state before it.
MCClaimedC03 == {S4, S5}

=============================================================================
