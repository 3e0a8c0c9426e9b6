-------------------------- MODULE SubstateMachine --------------------------
(***************************************************************************)
(* The C03/C04 governance engine of                                        *)
(* packages/workflow-core/.../substate_machine.py.                         *)
(*                                                                         *)
(* A SubstateMachine object carries a design through the schematic stages  *)
(* S0..S5 and then the layout stages P0..P7.  Every accepted call mints a  *)
(* receipt for the stage it enters; receipts form the chain the release    *)
(* rests on.  The object is written out with to_dict and brought back with *)
(* from_dict, so a session may also resume from an older snapshot.         *)
(*                                                                         *)
(* A call that raises changes nothing, so only the calls that return are   *)
(* actions.  `minted' counts the tokens handed out: uuid4 is taken to be   *)
(* fresh, and counting makes freshness an order.                           *)
(***************************************************************************)
EXTENDS Governance

CONSTANTS
    Calls,      \* what a caller passes besides the target stage
    MaxLoads    \* bound: how often a session resumes from a snapshot

VARIABLES
    machine,    \* the live object: [c03, c04, receipts]
    saved,      \* the snapshot last written by to_dict
    minted,     \* tokens handed out so far
    loads       \* snapshots loaded so far

vars == <<machine, saved, minted, loads>>

ASSUME CallsAssumption == Calls \subseteq Call
ASSUME MaxLoadsAssumption == MaxLoads \in Nat

mint_receipt(s, call, approved) ==
    [token |-> minted, author |-> call.role,
     cleared |-> Cleared(s, call.verdicts), clean |-> Compliant(call.verdicts),
     human_approved |-> approved]

Init ==
    /\ machine = Fresh
    /\ saved = Fresh
    /\ minted = 0
    /\ loads = 0

advance_c03(target, call) ==
    /\ MayEnterC03(machine, target, call)
    /\ machine' = [machine EXCEPT !.c03 = target,
                                  !.receipts[target] = mint_receipt(target, call, FALSE)]
    /\ minted' = minted + 1
    /\ UNCHANGED <<saved, loads>>

advance_c04(target, call) ==
    /\ MayEnterC04(machine, target, call)
    /\ machine' = [machine EXCEPT !.c04 = target,
                                  !.receipts[target] =
                                      mint_receipt(target, call, call.human_approved)]
    /\ minted' = minted + 1
    /\ UNCHANGED <<saved, loads>>

MutantReaffirm(target, call) ==
    /\ Reaffirms(machine, target, call)
    /\ machine' = [machine EXCEPT !.receipts[target] = mint_receipt(target, call, FALSE)]
    /\ minted < 20     \* bound on the re-minting
    /\ minted' = minted + 1
    /\ UNCHANGED <<saved, loads>>

reaffirm(target, call) ==
    /\ Reaffirms(machine, target, call)
    /\ UNCHANGED vars

to_dict ==
    /\ saved' = machine
    /\ UNCHANGED <<machine, minted, loads>>

from_dict ==
    /\ loads < MaxLoads
    /\ machine' = saved
    /\ loads' = loads + 1
    /\ UNCHANGED <<saved, minted>>

Next ==
    \/ \E target \in C03State, call \in Calls : advance_c03(target, call)
    \/ \E target \in C04State, call \in Calls : advance_c04(target, call)
    \/ \E target \in Stage, call \in Calls : reaffirm(target, call)
    \/ to_dict
    \/ from_dict

Spec == Init /\ [][Next]_vars

(* The crew keeps working: whatever stage comes next, some session goes on *)
(* asking for it.  to_dict and from_dict are never owed.                   *)
Advance ==
    \/ \E target \in C03State, call \in Calls : advance_c03(target, call)
    \/ \E target \in C04State, call \in Calls : advance_c04(target, call)

FairSpec == Spec /\ WF_vars(Advance)

----------------------------------------------------------------------------
(* Properties *)

(* machine, saved, minted and loads keep to their types. *)
TypeOK ==
    /\ machine \in Machine
    /\ saved \in Machine
    /\ minted \in Nat
    /\ loads \in 0 .. MaxLoads

GateStages == {S4, P3, P6}

Entered(m, s) ==
    \/ s \in 1 .. m.c03
    \/ m.c04 # NotStarted /\ s \in P0 .. m.c04

ChainComplete(m) == \A s \in Stage : Held(m, s) <=> Entered(m, s)

(* The receipts a machine holds are those of the stages it has been        *)
(* through, all of them and no other: no stage is skipped, in the live     *)
(* object or in the snapshot a session may resume from.                    *)
NoGaps == ChainComplete(machine) /\ ChainComplete(saved)

TokensInOrder(m) ==
    \A s, t \in Stage :
        Held(m, s) /\ Held(m, t) /\ s < t => m.receipts[s].token < m.receipts[t].token

(* A receipt was minted after the receipts of all earlier stages, also     *)
(* across resumed snapshots: a stage is never certified on top of evidence *)
(* that was produced later.                                                *)
MintOrder == TokensInOrder(machine) /\ TokensInOrder(saved)

MakersNeverVerify(m) ==
    \A g \in GateStages, w \in Stage \ GateStages :
        Held(m, g) /\ Held(m, w) => m.receipts[g].author # m.receipts[w].author

(* Zero self-approval: the role that signed a verification stage signed no *)
(* stage in which work is authored, locked or released.                    *)
ZeroSelfApproval == MakersNeverVerify(machine) /\ MakersNeverVerify(saved)

ReleaseBacked(m) ==
    /\ m.c04 # NotStarted =>
          m.c03 = S5 /\ \A s \in 1 .. S5 : Held(m, s) /\ m.receipts[s].clean
    /\ Held(m, P7) =>
          /\ m.receipts[P7].human_approved
          /\ \A s \in 1 .. P7 : Held(m, s) /\ m.receipts[s].clean
    /\ \A g \in GateStages : Held(m, g) => m.receipts[g].cleared

(* Layout rests on a locked schematic, and a released board on explicit    *)
(* human approval and on a clean receipt for every stage, the three        *)
(* verification stages with the verdict of their own gate.                 *)
FabRelease == ReleaseBacked(machine) /\ ReleaseBacked(saved)

(* The ledger of receipts only grows, except that resuming a snapshot      *)
(* brings back exactly that snapshot: no call replaces a receipt.          *)
LedgerAppendOnly ==
    [][\/ machine' = saved
       \/ \A s \in Stage :
              Held(machine, s) => machine'.receipts[s] = machine.receipts[s]]_vars

(* With callers that keep asking and finitely many resumptions, the board  *)
(* is released: authority, order and gates never lock each other out.      *)
EventuallyReleased == <>(machine.c04 = P7)

(* How far a machine has come along the single line of stages. *)
Position(m) == IF m.c04 = NotStarted THEN m.c03 ELSE m.c04

Signers(m) == [s \in 1 .. Position(m) |-> m.receipts[s].author]

Pipeline == INSTANCE ReleasePipeline
    WITH Last <- P7, Gates <- GateStages, Roles <- A2ARole,
         Verifiers <- {"verification-adversary"},
         signers <- Signers(machine), checkpoint <- Signers(saved)

(* The two half-machines together implement one pipeline of signatures     *)
(* that advances a stage at a time and never lets a maker sign a gate.     *)
ImplementsPipeline == Pipeline!Spec

=============================================================================
