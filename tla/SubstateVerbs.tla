---------------------------- MODULE SubstateVerbs ---------------------------
(***************************************************************************)
(* The landing verbs c03_substate_advance and c04_substate_advance of      *)
(* skills/bodesign/scripts/gate.py, the only callers of the governance     *)
(* engine in the program.  A verb builds a new SubstateMachine from the    *)
(* states its caller names, asks it once, returns the receipt and forgets  *)
(* it: nothing is stored between two calls.  (Its names differ from those  *)
(* of SubstateMachine, so that a module can extend both.)                  *)
(***************************************************************************)
EXTENDS Governance, FiniteSets

CONSTANTS
    VerbCalls,      \* calls (of Call) a caller may make
    ClaimedC03,     \* C03 states a caller of the C04 verb may claim
    MaxReceipts     \* bound: stages for which receipts are returned

VARIABLES
    returned,   \* stages for which a verb has returned a receipt
    last        \* the last call: [verb, c03, current, target, call, ok]

verbsVars == <<returned, last>>

NoCall == [verb |-> "none"]

(* The object a verb asks: the caller's states and no receipts at all. *)
Throwaway(c03, c04) ==
    [c03 |-> c03, c04 |-> c04, receipts |-> [s \in Stage |-> NoReceipt]]

(* The C03 verb has no argument for verdicts or for an approval. *)
C03Accepts(current, target, call) ==
    MayEnterC03(Throwaway(current, NotStarted), target,
                [role |-> call.role, verdicts |-> {}, human_approved |-> FALSE])

(* The C04 verb always names a current layout state, so c04 is never None. *)
C04Accepts(c03, current, target, call) ==
    MayEnterC04(Throwaway(c03, current), target, call)

VerbsInit == returned = {} /\ last = NoCall

Answer(verb, c03, current, target, call, ok) ==
    /\ returned' = IF ok THEN returned \cup {target} ELSE returned
    /\ last' = [verb |-> verb, c03 |-> c03, current |-> current, target |-> target,
                call |-> call, ok |-> ok]

c03_substate_advance(current, target, call) ==
    Answer("c03", current, current, target, call, C03Accepts(current, target, call))

c04_substate_advance(c03, current, target, call) ==
    Answer("c04", c03, current, target, call, C04Accepts(c03, current, target, call))

VerbsNext ==
    /\ Cardinality(returned) < MaxReceipts
    /\ \E call \in VerbCalls :
        \/ \E current, target \in C03State : c03_substate_advance(current, target, call)
        \/ \E c03 \in ClaimedC03, current, target \in C04State :
              c04_substate_advance(c03, current, target, call)

VerbsSpec == VerbsInit /\ [][VerbsNext]_verbsVars

----------------------------------------------------------------------------
(* Properties *)

(* What the verbs' own documentation asks of a caller who goes on from a   *)
(* stage whose receipt a verb has returned: the next stage, a role that    *)
(* may sign it, clean verdicts which include the gate where the verb takes *)
(* any, and approval for the release.                                      *)
AsDocumented(l) ==
    /\ l.current \in returned /\ l.target = l.current + 1
    /\ l.verb = "c04" => l.c03 = S5
    /\ Authorized(l.target, l.call)
    /\ Compliant(l.call.verdicts)
    /\ l.target \in {P3, P6} => Cleared(l.target, l.call.verdicts)
    /\ l.target = P7 => l.call.human_approved

(* Every step of S0 -> S5 and of P0 -> P7 is taken for a caller who does   *)
(* what the documentation asks: landing-verbs.md and the verb table of     *)
(* gate.py describe the two verbs as going all the way, with a receipt.    *)
StepsAreTaken == last # NoCall /\ AsDocumented(last) => last.ok

(* What holds instead, and what the theorem is about: as no receipt        *)
(* outlives a call, no sequence of calls, whatever states the callers      *)
(* claim, yields the receipt that verifies or locks the schematic, allows  *)
(* routing or releases.                                                    *)
FailClosed == returned \cap {S4, S5, P4, P7} = {}

=============================================================================
