----------------------------- MODULE Governance -----------------------------
(***************************************************************************)
(* The rules of packages/workflow-core/.../substate_machine.py: stages,    *)
(* roles, receipts, and what advance_c03 and advance_c04 check of a call   *)
(* before they mint.  SubstateMachine applies them to one long-lived       *)
(* object, SubstateVerbs to the throw-away object of each landing verb.    *)
(*                                                                         *)
(* Stages are numbered in the order of C03_SEQUENCE followed by            *)
(* C04_SEQUENCE.  Receipt text, timestamps, digests and the not_checked    *)
(* list are left out.                                                      *)
(***************************************************************************)
EXTENDS Integers

----------------------------------------------------------------------------
(* Stages, roles and verdicts *)

S0 == 0     \* S0_SPEC_FROZEN
S3 == 3     \* S3_NETS_WIRED
S4 == 4     \* S4_CHECK_C03_VERIFIED
S5 == 5     \* S5_C03_LOCKED
P0 == 6     \* P0_BOARD_BOUNDED
P3 == 9     \* P3_PREFLIGHT_PASSED
P4 == 10    \* P4_ROUTED
P6 == 12    \* P6_DRC_AND_VISUAL_CLOSED
P7 == 13    \* P7_FAB_RELEASED

C03State == S0 .. S5
C04State == P0 .. P7
Stage == C03State \cup C04State
NotStarted == -1            \* c04_current is None

A2ARole == {"systems-architect", "ee-designer", "layout-specialist",
            "verification-adversary", "release-engineer", "orchestrator"}

AUTHORIZED_ROLES ==
    [s \in Stage |->
        CASE s \in {S0, S5} -> {"systems-architect", "orchestrator"}
          [] s \in 1 .. S3  -> {"ee-designer"}
          [] s \in {S4, P3, P6} -> {"verification-adversary"}
          [] s = P0 -> {"systems-architect", "layout-specialist"}
          [] s \in {7, 8, P4, 11} -> {"layout-specialist"}
          [] s = P7 -> {"release-engineer", "orchestrator"}]

GateVerdict == [gate: STRING, passed: BOOLEAN, blocking: Nat]

Call == [role: A2ARole, verdicts: SUBSET GateVerdict, human_approved: BOOLEAN]

(* The gate a stage cannot be entered without, where there is one. *)
RequiredGate ==
    [s \in Stage |->
        CASE s = S4 -> "check_c03"
          [] s = P3 -> "placement_preflight"
          [] s = P6 -> "layout_drc_gate"
          [] OTHER  -> "none"]

Compliant(verdicts) == \A v \in verdicts : v.passed /\ v.blocking = 0

Cleared(s, verdicts) ==
    RequiredGate[s] = "none" \/ \E v \in verdicts : v.gate = RequiredGate[s] /\ v.passed

----------------------------------------------------------------------------
(* Receipts.  `cleared' keeps, of the verdicts copied into the receipt,    *)
(* whether they include the gate its stage requires, and `clean' whether   *)
(* all of them passed without blocking findings.                           *)

Receipt == [token: Nat, author: A2ARole, cleared: BOOLEAN, clean: BOOLEAN,
            human_approved: BOOLEAN]

NoReceipt == [token |-> -1]

Machine == [c03: C03State, c04: C04State \cup {NotStarted},
            receipts: [Stage -> Receipt \cup {NoReceipt}]]

Held(m, s) == m.receipts[s] # NoReceipt

----------------------------------------------------------------------------
(* What advance_c03 and advance_c04 check before they mint.  The operators *)
(* named Mutant... are variants with a defect; no definition uses them.    *)

MutantAuthorized(target, call) == call.role \in A2ARole
Authorized(target, call) == call.role \in AUTHORIZED_ROLES[target]

MutantInSequenceC03(m, target) == target > m.c03
InSequenceC03(m, target) == target = m.c03 + 1

MutantInSequenceC04(m, target) == target = m.c04 + 1
InSequenceC04(m, target) ==
    target = IF m.c04 = NotStarted THEN P0 ELSE m.c04 + 1

StageRuleC03(m, target, call) ==
    /\ target = S4 => Cleared(S4, call.verdicts)
    /\ target = S5 => Held(m, S4)

MutantStageRuleC04(m, target, call) ==
    /\ target \in {P3, P6} => Cleared(target, call.verdicts)
    /\ target = P4 => Held(m, P3)
    /\ target = P7 => Held(m, P6)

StageRuleC04(m, target, call) ==
    /\ target = P3 => Cleared(P3, call.verdicts)
    /\ target = P4 => Held(m, P3)
    /\ target = P6 => Cleared(P6, call.verdicts)
    /\ target = P7 => call.human_approved /\ Held(m, P6)

MayEnterC03(m, target, call) ==
    /\ Authorized(target, call)
    /\ InSequenceC03(m, target)
    /\ Compliant(call.verdicts)
    /\ StageRuleC03(m, target, call)

MayEnterC04(m, target, call) ==
    /\ m.c03 = S5
    /\ Authorized(target, call)
    /\ InSequenceC04(m, target)
    /\ Compliant(call.verdicts)
    /\ StageRuleC04(m, target, call)

(* A repeated call for the current stage hands back the receipt it has. *)
Reaffirms(m, target, call) ==
    /\ Authorized(target, call)
    /\ target = m.c03 \/ (m.c03 = S5 /\ target = m.c04)
    /\ Held(m, target)

(* SubstateMachine() with no argument *)
Fresh == [c03 |-> S0, c04 |-> NotStarted, receipts |-> [s \in Stage |-> NoReceipt]]

=============================================================================
