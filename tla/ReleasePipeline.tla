-------------------------- MODULE ReleasePipeline ---------------------------
(***************************************************************************)
(* What the governance of a hardware design promises, without saying how:  *)
(* Last stages are signed off one after the other; a gate is signed by a   *)
(* verifier and every other stage by somebody who is not one; work may be  *)
(* taken up again from a checkpoint and from nowhere else.                 *)
(***************************************************************************)
EXTENDS Naturals

CONSTANTS Last, Gates, Roles, Verifiers

VARIABLES
    signers,    \* signers[s] signed stage s, for the stages done so far
    checkpoint  \* the signatures a session may go back to

vars == <<signers, checkpoint>>

Signatures == UNION {[1 .. n -> Roles] : n \in 0 .. Last}

MaySign(role, s) == role \in Verifiers <=> s \in Gates

Init ==
    /\ signers = [s \in 1 .. 0 |-> {}]
    /\ checkpoint = [s \in 1 .. 0 |-> {}]

Sign ==
    \E s \in 1 .. Last, role \in Roles :
        /\ DOMAIN signers = 1 .. (s - 1)
        /\ MaySign(role, s)
        /\ signers' = [t \in 1 .. s |-> IF t = s THEN role ELSE signers[t]]
        /\ UNCHANGED checkpoint

Keep == checkpoint' = signers /\ UNCHANGED signers

GoBack == signers' = checkpoint /\ UNCHANGED checkpoint

Next == Sign \/ Keep \/ GoBack

Spec == Init /\ [][Next]_vars

=============================================================================
