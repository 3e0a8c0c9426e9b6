------------------------- MODULE MCSubstateMachine --------------------------
(* A small crew: every role with no verdict, the verifier with the verdict *)
(* of each gate and with verdicts that must be refused, and approval given *)
(* by the two roles that may release.                                      *)
EXTENDS SubstateMachine

Pass(g) == [gate |-> g, passed |-> TRUE, blocking |-> 0]
Blocked(g) == [gate |-> g, passed |-> TRUE, blocking |-> 1]
Fail(g) == [gate |-> g, passed |-> FALSE, blocking |-> 0]

GateNames == {"check_c03", "placement_preflight", "layout_drc_gate"}

VerifierVerdicts ==
    {{}} \cup {{Pass(g)} : g \in GateNames}
         \cup {{Blocked("check_c03")}, {Fail("layout_drc_gate")},
               {Pass("placement_preflight"), Fail("check_c03")}}

MCCalls ==
    [role : A2ARole \ {"verification-adversary"}, verdicts : {{}}, human_approved : {FALSE}]
    \cup [role : {"release-engineer", "orchestrator"}, verdicts : {{}, {Fail("layout_drc_gate")}},
          human_approved : {TRUE}]
    \cup [role : {"verification-adversary"}, verdicts : VerifierVerdicts,
          human_approved : {FALSE}]

=============================================================================
