--------------------------- MODULE FleetDelivery ----------------------------
(***************************************************************************)
(* What the fleet outbox promises of a retrospective draft, without files, *)
(* rows or retries: a draft is queued, the mother system may receive it    *)
(* while it is queued, and it is settled either as delivered, which the    *)
(* mother must have confirmed and which is final, or as parked, from where *)
(* only an operator puts it back in the queue.                             *)
(***************************************************************************)
CONSTANT Drafts

VARIABLES
    stage,      \* per draft: "none", "queued", "delivered" or "parked"
    received    \* the drafts the mother system has

vars == <<stage, received>>

Stages == {"none", "queued", "delivered", "parked"}

Init == stage = [d \in Drafts |-> "none"] /\ received = {}

Move(d, from, to) ==
    /\ stage[d] = from
    /\ stage' = [stage EXCEPT ![d] = to]
    /\ UNCHANGED received

Submit(d) == Move(d, "none", "queued")

Arrive(d) ==
    /\ stage[d] = "queued"
    /\ received' = received \cup {d}
    /\ UNCHANGED stage

Confirm(d) == d \in received /\ Move(d, "queued", "delivered")

Park(d) == Move(d, "queued", "parked")

Requeue(d) == Move(d, "parked", "queued")

Next == \E d \in Drafts : Submit(d) \/ Arrive(d) \/ Confirm(d) \/ Park(d) \/ Requeue(d)

Spec == Init /\ [][Next]_vars

=============================================================================
