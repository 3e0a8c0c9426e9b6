----------------------------- MODULE DesignFlow -----------------------------
(***************************************************************************)
(* What C00 promises of the flow it conducts: the loop hands each layer    *)
(* its work at most once, never before the layers it builds on and never   *)
(* while a blocker is open; a question, once raised, stays open until it  *)
(* gets one decision, and keeps that decision.  The owner may also hand a  *)
(* layer work out of turn.                                                 *)
(***************************************************************************)
CONSTANTS
    Layers, Upstream(_),        \* and the layers a layer builds on
    Questions, Decisions,
    Preempting                  \* questions that hold up the loop

VARIABLES
    assigned,   \* layers that were handed work
    driven,     \* those the loop handed it
    open,       \* questions waiting for a decision
    decided     \* pairs of a question and its decision

flow == <<assigned, driven, open, decided>>

Init == assigned = {} /\ driven = {} /\ open = {} /\ decided = {}

Drive(l) ==
    /\ open \cap Preempting = {} /\ l \notin assigned /\ Upstream(l) \subseteq assigned
    /\ assigned' = assigned \cup {l} /\ driven' = driven \cup {l}
    /\ UNCHANGED <<open, decided>>

Hand(l) ==
    /\ assigned' = assigned \cup {l}
    /\ UNCHANGED <<driven, open, decided>>

Raise(q) ==
    /\ q \notin open /\ \A d \in Decisions : <<q, d>> \notin decided
    /\ open' = open \cup {q}
    /\ UNCHANGED <<assigned, driven, decided>>

Decide(q, d) ==
    /\ q \in open
    /\ open' = open \ {q} /\ decided' = decided \cup {<<q, d>>}
    /\ UNCHANGED <<assigned, driven>>

Next ==
    \/ \E l \in Layers : Drive(l) \/ Hand(l)
    \/ \E q \in Questions : Raise(q) \/ \E d \in Decisions : Decide(q, d)

Spec == Init /\ [][Next]_flow

=============================================================================
