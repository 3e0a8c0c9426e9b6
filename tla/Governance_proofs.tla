-------------------------- MODULE Governance_proofs --------------------------
(***************************************************************************)
(* Proofs about the governance rules at work in SubstateMachine, for any   *)
(* set of calls and any number of resumed snapshots, in the landing verbs  *)
(* of SubstateVerbs, for any calls, claims and number of receipts, and     *)
(* about the hub that holds the blockers the verbs report.                 *)
(***************************************************************************)
EXTENDS SubstateMachine, SubstateVerbs, BlockerHub, TLAPS

----------------------------------------------------------------------------
(* The rules *)

(* Verification stages and they alone are signed by the verifier. *)
LEMMA VerifierSignsGates ==
    ASSUME NEW s \in Stage, NEW role \in AUTHORIZED_ROLES[s]
    PROVE  role \in A2ARole /\ (role = "verification-adversary" <=> s \in GateStages)
BY DEF Stage, C03State, C04State, AUTHORIZED_ROLES, A2ARole, GateStages,
       S0, S3, S4, S5, P0, P3, P4, P6, P7

LEMMA NoReceiptIsNone == NoReceipt \notin Receipt
BY DEF NoReceipt, Receipt

LEMMA MintType ==
    ASSUME TypeOK, NEW s \in Stage, NEW call \in Calls, NEW approved \in BOOLEAN
    PROVE  mint_receipt(s, call, approved) \in Receipt
<1>1. call.role \in A2ARole
  BY CallsAssumption DEF Call
<1>2. Cleared(s, call.verdicts) \in BOOLEAN /\ Compliant(call.verdicts) \in BOOLEAN
  BY DEF Cleared, Compliant
<1>. QED BY <1>1, <1>2 DEF TypeOK, Receipt, mint_receipt

----------------------------------------------------------------------------
(* The inductive invariant.  A machine is sound when it holds the receipts *)
(* of exactly the stages it has entered, in the order they were minted,    *)
(* each earned under the rule of its stage, and none newer than n.         *)

Earned(r, s, n) ==
    /\ r.token < n
    /\ r.author \in AUTHORIZED_ROLES[s]
    /\ r.clean
    /\ s \in GateStages => r.cleared
    /\ s = P7 => r.human_approved

Sound(m, n) ==
    /\ m \in Machine
    /\ ChainComplete(m)
    /\ TokensInOrder(m)
    /\ \A s \in Stage : Held(m, s) => Earned(m.receipts[s], s, n)
    /\ m.c04 # NotStarted => m.c03 = S5

Inv == TypeOK /\ Sound(machine, minted) /\ Sound(saved, minted)

LEMMA SoundLater ==
    ASSUME NEW m, NEW n \in Nat, Sound(m, n) PROVE Sound(m, n + 1)
<1>1. \A s \in Stage : Held(m, s) => m.receipts[s].token \in Nat
  BY DEF Sound, Machine, Held, Receipt
<1>. QED BY <1>1 DEF Sound, Earned

LEMMA FreshSound == Fresh \in Machine /\ Sound(Fresh, 0)
<1>1. \A s \in Stage : ~ Held(Fresh, s) /\ ~ Entered(Fresh, s)
  BY DEF Held, Fresh, Entered, Stage, C03State, C04State, S0, NotStarted
<1>2. Fresh \in Machine
  BY DEF Fresh, Machine, C03State, S0, S5
<1>. QED
  BY <1>1, <1>2 DEF Sound, ChainComplete, TokensInOrder, Fresh

(* Entering the next stage with an earned receipt keeps a machine sound. *)
LEMMA Enter ==
    ASSUME NEW m, NEW n \in Nat, Sound(m, n), NEW target \in Stage, NEW r \in Receipt,
           r.token = n, Earned(r, target, n + 1),
           NEW m2 \in Machine, m2.receipts = [m.receipts EXCEPT ![target] = r],
           m2.c04 # NotStarted => m2.c03 = S5,
           ~ Held(m, target),
           \A s \in Stage : Held(m, s) => s < target,
           \A s \in Stage : Entered(m2, s) <=> Entered(m, s) \/ s = target
    PROVE  Sound(m2, n + 1)
<1>0. m.receipts \in [Stage -> Receipt \cup {NoReceipt}]
  BY DEF Sound, Machine
<1>1. \A s \in Stage : m2.receipts[s] = IF s = target THEN r ELSE m.receipts[s]
  BY <1>0
<1>2. \A s \in Stage : Held(m2, s) <=> Held(m, s) \/ s = target
  BY <1>1, NoReceiptIsNone DEF Held
<1>3. ChainComplete(m2)
  BY <1>2 DEF ChainComplete, Sound
<1>4. \A s \in Stage : Held(m, s) => m.receipts[s].token \in Nat /\ m.receipts[s].token < n
  BY <1>0 DEF Sound, Earned, Held, Receipt
<1>5. TokensInOrder(m2)
  <2>. SUFFICES ASSUME NEW s \in Stage, NEW t \in Stage, Held(m2, s), Held(m2, t), s < t
                PROVE  m2.receipts[s].token < m2.receipts[t].token
    BY DEF TokensInOrder
  <2>1. s # target
    <3>. SUFFICES ASSUME s = target PROVE FALSE
      OBVIOUS
    <3>1. Held(m, t)
      BY <1>2 DEF Stage, C03State, C04State, S0, S5, P0, P7
    <3>. QED BY <3>1 DEF Stage, C03State, C04State, S0, S5, P0, P7
  <2>2. Held(m, s)
    BY <1>2, <2>1
  <2>3. CASE t = target
    BY <1>1, <1>4, <2>1, <2>2, <2>3
  <2>4. CASE t # target
    BY <1>1, <1>2, <2>1, <2>2, <2>4 DEF Sound, TokensInOrder
  <2>. QED BY <2>3, <2>4
<1>6. \A s \in Stage : Held(m2, s) => Earned(m2.receipts[s], s, n + 1)
  BY <1>1, <1>2, <1>4 DEF Sound, Earned
<1>. QED BY <1>3, <1>5, <1>6 DEF Sound

----------------------------------------------------------------------------
(* The two ways forward.  Either call extends what the machine holds by    *)
(* the one stage after the last, with a receipt earned for it.             *)

Extends(m, m2, target) ==
    /\ target = Position(m) + 1
    /\ Position(m2) = target
    /\ \E r \in Receipt : /\ m2.receipts = [m.receipts EXCEPT ![target] = r]
                         /\ r.author \in AUTHORIZED_ROLES[target]

LEMMA Ranges ==
    /\ C03State = 0 .. 5 /\ C04State = 6 .. 13 /\ Stage = 0 .. 13
    /\ GateStages = {4, 9, 12} /\ P7 = 13 /\ P0 = 6 /\ S5 = 5 /\ NotStarted = -1
BY DEF C03State, C04State, Stage, GateStages, S0, S4, S5, P0, P3, P6, P7, NotStarted

LEMMA SoundHolds ==
    ASSUME NEW m, NEW n, Sound(m, n)
    PROVE  /\ \A s \in Stage : Held(m, s) <=> s \in 1 .. Position(m)
           /\ Position(m) \in Stage
BY Ranges DEF Sound, ChainComplete, Entered, Position, Machine

LEMMA AdvanceC03 ==
    ASSUME Inv, NEW target \in C03State, NEW call \in Calls, advance_c03(target, call)
    PROVE  Sound(machine', minted + 1) /\ Extends(machine, machine', target)
<1>. DEFINE r == mint_receipt(target, call, FALSE)
<1>. USE DEF Inv
<1>1. target \in Stage /\ target = machine.c03 + 1 /\ machine \in Machine
  BY DEF advance_c03, MayEnterC03, InSequenceC03, Stage, TypeOK
<1>2. machine.c04 = NotStarted
  BY <1>1, Ranges DEF Sound, Machine
<1>3. r \in Receipt
  BY <1>1, MintType
<1>4. Earned(r, target, minted + 1)
  <2>1. target \in GateStages => r.cleared
    BY Ranges DEF advance_c03, MayEnterC03, StageRuleC03, mint_receipt, S4
  <2>2. target # P7
    BY Ranges
  <2>. QED
    BY <2>1, <2>2 DEF Earned, mint_receipt, advance_c03, MayEnterC03, Authorized, TypeOK
<1>5. /\ machine' \in Machine
      /\ machine'.receipts = [machine.receipts EXCEPT ![target] = r]
      /\ machine'.c03 = target /\ machine'.c04 = NotStarted
  <2>. HIDE DEF r
  <2>1. machine' = [machine EXCEPT !.c03 = target, !.receipts[target] = r]
    BY DEF advance_c03, r
  <2>. QED BY <1>1, <1>2, <1>3, <2>1 DEF Machine
<1>6. \A s \in Stage : Entered(machine', s) <=> Entered(machine, s) \/ s = target
  BY <1>1, <1>2, <1>5, Ranges DEF Entered, Machine
<1>7. \A s \in Stage : Held(machine, s) => s < target
  BY <1>1, <1>2, Ranges DEF Sound, ChainComplete, Entered, Machine
<1>8. r.token = minted
  BY DEF mint_receipt
<1>9. Sound(machine', minted + 1)
  <2>1. ~ Held(machine, target)
    BY <1>1, <1>7, Ranges
  <2>2. minted \in Nat
    BY DEF TypeOK
  <2>. HIDE DEF r
  <2>. QED BY <1>1, <1>3, <1>4, <1>5, <1>6, <1>7, <1>8, <2>1, <2>2, Enter
<1>10. Extends(machine, machine', target)
  <2>1. r.author \in AUTHORIZED_ROLES[target]
    BY <1>4 DEF Earned
  <2>. HIDE DEF r
  <2>. QED BY <1>1, <1>2, <1>3, <1>5, <2>1 DEF Extends, Position
<1>. QED BY <1>9, <1>10

LEMMA AdvanceC04 ==
    ASSUME Inv, NEW target \in C04State, NEW call \in Calls, advance_c04(target, call)
    PROVE  Sound(machine', minted + 1) /\ Extends(machine, machine', target)
<1>. DEFINE r == mint_receipt(target, call, call.human_approved)
<1>. USE DEF Inv
<1>1. target \in Stage /\ target = Position(machine) + 1 /\ machine \in Machine
  BY Ranges DEF advance_c04, MayEnterC04, InSequenceC04, Position, TypeOK
<1>2. machine.c03 = S5
  BY DEF advance_c04, MayEnterC04
<1>3. r \in Receipt
  <2>1. call.human_approved \in BOOLEAN
    BY CallsAssumption DEF Call
  <2>. QED BY <1>1, <2>1, MintType
<1>4. Earned(r, target, minted + 1)
  <2>1. target \in GateStages => r.cleared
    BY Ranges DEF advance_c04, MayEnterC04, StageRuleC04, mint_receipt, P3, P6
  <2>2. target = P7 => r.human_approved
    BY DEF advance_c04, MayEnterC04, StageRuleC04, mint_receipt
  <2>. QED
    BY <2>1, <2>2 DEF Earned, mint_receipt, advance_c04, MayEnterC04, Authorized, TypeOK
<1>5. /\ machine' \in Machine
      /\ machine'.receipts = [machine.receipts EXCEPT ![target] = r]
      /\ machine'.c03 = S5 /\ machine'.c04 = target
  <2>. HIDE DEF r
  <2>1. machine' = [machine EXCEPT !.c04 = target, !.receipts[target] = r]
    BY DEF advance_c04, r
  <2>. QED BY <1>1, <1>2, <1>3, <2>1 DEF Machine
<1>6. \A s \in Stage : Entered(machine', s) <=> Entered(machine, s) \/ s = target
  BY <1>1, <1>2, <1>5, Ranges DEF Entered, Position, Machine
<1>7. \A s \in Stage : Held(machine, s) => s < target
  BY <1>1, Ranges, SoundHolds
<1>8. r.token = minted
  BY DEF mint_receipt
<1>9. Sound(machine', minted + 1)
  <2>1. ~ Held(machine, target)
    BY <1>1, <1>7, Ranges
  <2>2. minted \in Nat
    BY DEF TypeOK
  <2>. HIDE DEF r
  <2>. QED BY <1>1, <1>3, <1>4, <1>5, <1>6, <1>7, <1>8, <2>1, <2>2, Enter
<1>10. Extends(machine, machine', target)
  <2>1. r.author \in AUTHORIZED_ROLES[target]
    BY <1>4 DEF Earned
  <2>2. Position(machine') = target
    BY <1>5, Ranges DEF Position
  <2>. HIDE DEF r
  <2>. QED BY <1>1, <1>3, <1>5, <2>1, <2>2 DEF Extends
<1>. QED BY <1>9, <1>10

LEMMA InvStep == Inv /\ [Next]_vars => Inv'
<1>. SUFFICES ASSUME Inv, [Next]_vars PROVE Inv'
  OBVIOUS
<1>0. minted \in Nat /\ loads \in 0 .. MaxLoads /\ MaxLoads \in Nat
  BY MaxLoadsAssumption DEF Inv, TypeOK
<1>1. ASSUME NEW target \in C03State, NEW call \in Calls, advance_c03(target, call)
      PROVE  Inv'
  <2>1. Sound(machine', minted + 1)
    BY <1>1, AdvanceC03
  <2>2. Sound(saved, minted + 1)
    BY <1>0, SoundLater DEF Inv
  <2>3. saved' = saved /\ minted' = minted + 1 /\ loads' = loads
    BY <1>1 DEF advance_c03
  <2>4. TypeOK'
    BY <1>0, <2>1, <2>3 DEF Inv, TypeOK, Sound
  <2>. QED BY <2>1, <2>2, <2>3, <2>4 DEF Inv
<1>2. ASSUME NEW target \in C04State, NEW call \in Calls, advance_c04(target, call)
      PROVE  Inv'
  <2>1. Sound(machine', minted + 1)
    BY <1>2, AdvanceC04
  <2>2. Sound(saved, minted + 1)
    BY <1>0, SoundLater DEF Inv
  <2>3. saved' = saved /\ minted' = minted + 1 /\ loads' = loads
    BY <1>2 DEF advance_c04
  <2>4. TypeOK'
    BY <1>0, <2>1, <2>3 DEF Inv, TypeOK, Sound
  <2>. QED BY <2>1, <2>2, <2>3, <2>4 DEF Inv
<1>3. ASSUME NEW target \in Stage, NEW call \in Calls, reaffirm(target, call)
      PROVE  Inv'
  BY <1>3 DEF reaffirm, vars, Inv, TypeOK
<1>4. CASE to_dict
  BY <1>4 DEF to_dict, Inv, TypeOK
<1>5. CASE from_dict
  BY <1>0, <1>5 DEF from_dict, Inv, TypeOK
<1>6. CASE UNCHANGED vars
  BY <1>6 DEF vars, Inv, TypeOK
<1>. QED BY <1>1, <1>2, <1>3, <1>4, <1>5, <1>6 DEF Next

THEOREM Invariance == Spec => []Inv
<1>1. Init => Inv
  BY FreshSound, MaxLoadsAssumption DEF Init, Inv, TypeOK
<1>. QED BY <1>1, InvStep, PTL DEF Spec

----------------------------------------------------------------------------
(* What the invariant gives *)

(* machine, saved, minted and loads keep to their types. *)
THEOREM TypeCorrect == Spec => []TypeOK
BY Invariance, PTL DEF Inv

(* No stage is skipped, in the live object or in a snapshot. *)
THEOREM NoStageSkipped == Spec => []NoGaps
<1>1. Inv => NoGaps
  BY DEF Inv, Sound, NoGaps
<1>. QED BY <1>1, Invariance, PTL

(* No receipt predates a receipt of an earlier stage. *)
THEOREM ReceiptsInOrder == Spec => []MintOrder
<1>1. Inv => MintOrder
  BY DEF Inv, Sound, MintOrder
<1>. QED BY <1>1, Invariance, PTL

(* Zero self-approval: no role signs both a verification stage and a stage *)
(* of work.                                                                *)
THEOREM NoSelfApproval == Spec => []ZeroSelfApproval
<1>1. ASSUME NEW m, NEW n, Sound(m, n) PROVE MakersNeverVerify(m)
  <2>. SUFFICES ASSUME NEW g \in GateStages, NEW w \in Stage \ GateStages,
                       Held(m, g), Held(m, w)
                PROVE  m.receipts[g].author # m.receipts[w].author
    BY DEF MakersNeverVerify
  <2>1. g \in Stage
    BY Ranges
  <2>2. m.receipts[g].author \in AUTHORIZED_ROLES[g] /\ m.receipts[w].author \in AUTHORIZED_ROLES[w]
    BY <1>1, <2>1 DEF Sound, Earned
  <2>. QED BY <2>1, <2>2, VerifierSignsGates
<1>2. Inv => ZeroSelfApproval
  BY <1>1 DEF Inv, ZeroSelfApproval
<1>. QED BY <1>2, Invariance, PTL

(* Layout rests on a locked schematic; a released board on human approval  *)
(* and a clean receipt for every stage, the gates cleared.                 *)
THEOREM ReleaseIsBacked == Spec => []FabRelease
<1>1. ASSUME NEW m, NEW n, Sound(m, n) PROVE ReleaseBacked(m)
  <2>1. m.c04 # NotStarted => Position(m) >= P0
    BY <1>1, Ranges DEF Sound, Machine, Position
  <2>2. \A s \in 1 .. Position(m) : Held(m, s) /\ m.receipts[s].clean
    BY <1>1, SoundHolds, Ranges DEF Sound, Earned
  <2>3. Held(m, P7) => Position(m) = P7
    BY <1>1, SoundHolds, Ranges
  <2>4. m.c04 # NotStarted => m.c03 = S5 /\ \A s \in 1 .. S5 : Held(m, s) /\ m.receipts[s].clean
    BY <1>1, SoundHolds, <2>1, <2>2, Ranges DEF Sound
  <2>5. Held(m, P7) => /\ m.receipts[P7].human_approved
                       /\ \A s \in 1 .. P7 : Held(m, s) /\ m.receipts[s].clean
    BY <1>1, <2>2, <2>3, Ranges DEF Sound, Earned
  <2>6. \A g \in GateStages : Held(m, g) => m.receipts[g].cleared
    BY <1>1, Ranges DEF Sound, Earned
  <2>. QED BY <2>4, <2>5, <2>6 DEF ReleaseBacked
<1>2. Inv => FabRelease
  BY <1>1 DEF Inv, FabRelease
<1>. QED BY <1>2, Invariance, PTL

(* No call replaces a receipt. *)
THEOREM LedgerOnlyGrows == Spec => LedgerAppendOnly
<1>. DEFINE Kept == \A s \in Stage :
                       Held(machine, s) => machine'.receipts[s] = machine.receipts[s]
<1>1. ASSUME Inv, NEW target \in Stage, Extends(machine, machine', target) PROVE Kept
  BY <1>1, SoundHolds, Ranges DEF Inv, Extends, TypeOK, Machine
<1>2. Inv /\ [Next]_vars => machine' = saved \/ Kept
  BY <1>1, AdvanceC03, AdvanceC04
     DEF Next, reaffirm, to_dict, from_dict, vars, Stage
<1>3. Inv /\ [Next]_vars => [machine' = saved \/ Kept]_vars
  BY <1>2
<1>. QED BY <1>3, Invariance, PTL DEF Spec, LedgerAppendOnly

----------------------------------------------------------------------------
(* The machine implements ReleasePipeline. *)

LEMMA ExtendsSigns ==
    ASSUME Inv, NEW target \in Stage, Extends(machine, machine', target), UNCHANGED saved
    PROVE  Pipeline!Sign
<1>1. PICK r \in Receipt : /\ machine'.receipts = [machine.receipts EXCEPT ![target] = r]
                           /\ r.author \in AUTHORIZED_ROLES[target]
  BY DEF Extends
<1>2. target \in 1 .. P7 /\ DOMAIN Signers(machine) = 1 .. (target - 1)
  BY SoundHolds, Ranges DEF Inv, Extends, Signers
<1>3. machine.receipts \in [Stage -> Receipt \cup {NoReceipt}]
  BY DEF Inv, TypeOK, Machine
<1>4. Signers(machine') =
        [t \in 1 .. target |-> IF t = target THEN r.author ELSE Signers(machine)[t]]
  <2>1. Position(machine) \in Stage /\ target = Position(machine) + 1 /\ Position(machine') = target
    BY SoundHolds DEF Inv, Extends
  <2>2. \A t \in 1 .. target : machine'.receipts[t] = IF t = target THEN r ELSE machine.receipts[t]
    BY <1>1, <1>3, Ranges
  <2>3. \A t \in 1 .. target : t # target => Signers(machine)[t] = machine.receipts[t].author
    BY <2>1, Ranges DEF Signers
  <2>4. Signers(machine') = [t \in 1 .. target |-> machine'.receipts[t].author]
    BY <2>1 DEF Signers
  <2>. QED BY <2>2, <2>3, <2>4
<1>5. r.author \in A2ARole /\ Pipeline!MaySign(r.author, target)
  BY <1>1, VerifierSignsGates DEF Pipeline!MaySign
<1>6. Signers(saved)' = Signers(saved)
  BY DEF Signers, Position
<1>. QED BY <1>2, <1>4, <1>5, <1>6 DEF Pipeline!Sign

LEMMA PipelineStep == Inv /\ [Next]_vars => [Pipeline!Next]_(Pipeline!vars)
<1>. SUFFICES ASSUME Inv, [Next]_vars PROVE Pipeline!Next \/ UNCHANGED Pipeline!vars
  OBVIOUS
<1>1. ASSUME NEW target \in C03State, NEW call \in Calls, advance_c03(target, call)
      PROVE  Pipeline!Next
  BY <1>1, AdvanceC03, ExtendsSigns DEF advance_c03, Stage, Pipeline!Next
<1>2. ASSUME NEW target \in C04State, NEW call \in Calls, advance_c04(target, call)
      PROVE  Pipeline!Next
  BY <1>2, AdvanceC04, ExtendsSigns DEF advance_c04, Stage, Pipeline!Next
<1>3. CASE to_dict
  BY <1>3 DEF to_dict, Pipeline!Next, Pipeline!Keep, Signers, Position
<1>4. CASE from_dict
  BY <1>4 DEF from_dict, Pipeline!Next, Pipeline!GoBack, Signers, Position
<1>5. CASE UNCHANGED vars
  BY <1>5 DEF vars, Pipeline!vars, Signers, Position
<1>. QED BY <1>1, <1>2, <1>3, <1>4, <1>5 DEF Next, reaffirm

(* The two half-machines together implement the pipeline of signatures. *)
THEOREM MachineImplementsPipeline == Spec => ImplementsPipeline
<1>1. Init => Pipeline!Init
  <2>1. Position(Fresh) = 0
    BY DEF Position, Fresh, S0, NotStarted
  <2>2. Signers(Fresh) = [s \in 1 .. 0 |-> {}]
    BY <2>1 DEF Signers
  <2>. QED BY <2>2 DEF Init, Pipeline!Init
<1>. QED
  BY <1>1, PipelineStep, Invariance, PTL DEF Spec, ImplementsPipeline, Pipeline!Spec

----------------------------------------------------------------------------
(* The landing verbs *)

(* The object a verb asks holds no receipt, so every rule that asks for    *)
(* one refuses; what is left to earn is decided by the call alone.         *)

(* A throw-away object holds no receipt.                                   *)
LEMMA NothingHeld ==
    ASSUME NEW c03, NEW c04, NEW s \in Stage
    PROVE  ~ Held(Throwaway(c03, c04), s)
BY DEF Held, Throwaway

LEMMA StagesDiffer ==
    /\ S4 \in Stage /\ S5 \in Stage /\ P3 \in Stage /\ P4 \in Stage /\ P6 \in Stage /\ P7 \in Stage
    /\ C03State \cap {P3, P4, P6, P7} = {} /\ C04State \cap {S4, S5} = {}
    /\ RequiredGate[S4] # "none"
BY DEF S0, S3, S4, S5, P0, P3, P4, P6, P7, Stage, C03State, C04State, RequiredGate

(* The C03 verb neither verifies nor locks: it has no verdicts to verify   *)
(* with, and no receipt to lock on.                                        *)
LEMMA C03Refuses ==
    ASSUME NEW current, NEW target \in C03State, NEW call \in VerbCalls, C03Accepts(current, target, call)
    PROVE  target \notin {S4, S5, P3, P4, P6, P7}
<1> DEFINE bare == [role |-> call.role, verdicts |-> {}, human_approved |-> FALSE]
           m == Throwaway(current, NotStarted)
<1>1. bare.verdicts = {}
  OBVIOUS
<1>2. StageRuleC03(m, target, bare)
  BY DEF C03Accepts, MayEnterC03
<1>3. target # S4
  BY <1>1, <1>2, StagesDiffer DEF StageRuleC03, Cleared
<1>4. target # S5
  BY <1>2, NothingHeld, StagesDiffer DEF StageRuleC03
<1>5. QED
  BY <1>3, <1>4, StagesDiffer

(* The C04 verb neither allows routing nor releases. *)
LEMMA C04Refuses ==
    ASSUME NEW c03, NEW current, NEW target \in C04State, NEW call \in VerbCalls, C04Accepts(c03, current, target, call)
    PROVE  target \notin {S4, S5, P4, P7}
<1> DEFINE m == Throwaway(c03, current)
<1>1. StageRuleC04(m, target, call)
  BY DEF C04Accepts, MayEnterC04
<1>2. target # P4 /\ target # P7
  BY <1>1, NothingHeld, StagesDiffer DEF StageRuleC04
<1>3. QED
  BY <1>2, StagesDiffer

(* Whatever is called in whatever order, no verb verifies or locks a       *)
(* schematic, allows routing or releases.                                  *)
THEOREM VerbsFailClosed == VerbsSpec => []FailClosed
<1>1. VerbsInit => FailClosed
  BY DEF VerbsInit, FailClosed
<1>2. FailClosed /\ [VerbsNext]_verbsVars => FailClosed'
  <2> SUFFICES ASSUME FailClosed, [VerbsNext]_verbsVars PROVE FailClosed'
    OBVIOUS
  <2>1. ASSUME NEW call \in VerbCalls, NEW current \in C03State, NEW target \in C03State,
               c03_substate_advance(current, target, call)
        PROVE FailClosed'
    BY <2>1, C03Refuses DEF c03_substate_advance, Answer, FailClosed
  <2>2. ASSUME NEW call \in VerbCalls, NEW c03 \in ClaimedC03, NEW current \in C04State, NEW target \in C04State,
               c04_substate_advance(c03, current, target, call)
        PROVE FailClosed'
    BY <2>2, C04Refuses DEF c04_substate_advance, Answer, FailClosed
  <2>3. CASE UNCHANGED verbsVars
    BY <2>3 DEF verbsVars, FailClosed
  <2>4. QED
    BY <2>1, <2>2, <2>3 DEF VerbsNext
<1>3. QED
  BY <1>1, <1>2, PTL DEF VerbsSpec

----------------------------------------------------------------------------
(* The blocker hub *)

(* A hub writes its next record at a number it has not used (Unused); what *)
(* a record says of its retries follows the repair orders handed out       *)
(* (Counted); and while it is the only hub, memory and directory agree.    *)

Unused == \A i \in Ids : i >= counter => blockers[i] = None

Counted ==
    \A i \in Ids :
        /\ blockers[i] = None => orders[i] = 0
        /\ blockers[i] # None =>
               /\ orders[i] <= blockers[i].max_retries /\ orders[i] <= blockers[i].retry_count
               /\ blockers[i].status \in {"OPEN", "ROUTED"} => orders[i] = blockers[i].retry_count
               /\ blockers[i].status = "ESCALATED" => blockers[i].retry_count > blockers[i].max_retries

Kept == HubTypeOK /\ Unused /\ Counted /\ FilesFollowMemory

----------------------------------------------------------------------------
(* Records *)

LEMMA NoneIsNoRecord == None \notin Record
BY DEF None, Record

LEMMA OpenRecord ==
    ASSUME NEW issue \in Issues, NEW max \in MaxRetries
    PROVE  [issue |-> issue, retry_count |-> 0, max_retries |-> max, status |-> "OPEN"] \in Record
BY DEF Record, Status

LEMMA Numbers == MaxBlockers \in Nat /\ MaxDispatches \in Nat /\ MaxHubs \in Nat
                 /\ Ids \subseteq Nat /\ MaxRetries \subseteq Nat
BY BoundsAssumption DEF Ids, MaxRetries

(* What create_blocker leaves behind.                                      *)
LEMMA Creates ==
    ASSUME HubTypeOK, NEW issue \in Issues, NEW max \in MaxRetries, create_blocker(issue, max),
           NEW record, record = [issue |-> issue, retry_count |-> 0, max_retries |-> max, status |-> "OPEN"]
    PROVE  /\ counter \in Ids /\ counter' = counter + 1 /\ record \in Record
           /\ blockers' = [blockers EXCEPT ![counter] = record]
           /\ disk' = [disk EXCEPT ![counter] = record]
           /\ logged' = logged \cup {issue} /\ hubs' = hubs /\ orders' = orders
BY OpenRecord DEF create_blocker, Persist

(* What dispatch_repair leaves behind.                                     *)
LEMMA Dispatches ==
    ASSUME HubTypeOK, NEW i \in Ids, dispatch_repair(i)
    PROVE  \E record \in Record :
             /\ blockers[i] \in Record /\ blockers[i].status # "RESOLVED"
             /\ blockers' = [blockers EXCEPT ![i] = record] /\ disk' = [disk EXCEPT ![i] = record]
             /\ record.issue = blockers[i].issue /\ record.max_retries = blockers[i].max_retries
             /\ record.retry_count = blockers[i].retry_count + 1
             /\ \/ /\ record.retry_count <= record.max_retries /\ record.status = "ROUTED"
                   /\ orders' = [orders EXCEPT ![i] = orders[i] + 1]
                \/ /\ record.retry_count > record.max_retries /\ record.status = "ESCALATED"
                   /\ orders' = orders
             /\ UNCHANGED <<counter, hubs, logged>>
<1> DEFINE b == blockers[i]
           n == b.retry_count + 1
           exhausted == Exhausted(b)
           status == IF exhausted THEN "ESCALATED" ELSE "ROUTED"
           record == [b EXCEPT !.retry_count = n, !.status = status]
<1>1. b \in Record /\ n \in Nat /\ b.max_retries \in Nat
  BY Numbers DEF dispatch_repair, HubTypeOK, Record
<1>2. exhausted <=> n > b.max_retries
  BY DEF Exhausted
<1>3. /\ blockers' = [blockers EXCEPT ![i] = record] /\ disk' = [disk EXCEPT ![i] = record]
      /\ b.status # "RESOLVED" /\ UNCHANGED <<counter, hubs, logged>>
      /\ orders' = [orders EXCEPT ![i] = IF exhausted THEN orders[i] ELSE orders[i] + 1]
  BY DEF dispatch_repair, Persist
<1>4. exhausted => orders' = orders /\ status = "ESCALATED"
  BY <1>3 DEF HubTypeOK
<1>5. ~ exhausted => orders' = [orders EXCEPT ![i] = orders[i] + 1] /\ status = "ROUTED"
  BY <1>3
<1>6. status \in Status
  BY DEF Status
<1> HIDE DEF exhausted, status, n
<1>7. record \in Record /\ record.issue = b.issue /\ record.max_retries = b.max_retries
      /\ record.retry_count = n /\ record.status = status
  BY <1>1, <1>6 DEF Record
<1> HIDE DEF record
<1>8. \/ /\ record.retry_count <= record.max_retries /\ record.status = "ROUTED"
         /\ orders' = [orders EXCEPT ![i] = orders[i] + 1]
      \/ /\ record.retry_count > record.max_retries /\ record.status = "ESCALATED"
         /\ orders' = orders
  BY <1>1, <1>2, <1>4, <1>5, <1>7
<1>9. n = blockers[i].retry_count + 1
  BY DEF n
<1>10. QED
  BY <1>1, <1>3, <1>7, <1>8, <1>9

(* What resolve_blocker leaves behind.                                     *)
LEMMA Resolves ==
    ASSUME HubTypeOK, NEW i \in Ids, resolve_blocker(i)
    PROVE  \E record \in Record :
             /\ blockers[i] \in Record
             /\ blockers' = [blockers EXCEPT ![i] = record] /\ disk' = [disk EXCEPT ![i] = record]
             /\ record.issue = blockers[i].issue /\ record.max_retries = blockers[i].max_retries
             /\ record.retry_count = blockers[i].retry_count /\ record.status = "RESOLVED"
             /\ UNCHANGED <<counter, hubs, logged, orders>>
<1> DEFINE b == blockers[i]
           record == [b EXCEPT !.status = "RESOLVED"]
<1>1. b \in Record
  BY DEF resolve_blocker, HubTypeOK
<1>2. record \in Record /\ record.issue = b.issue /\ record.max_retries = b.max_retries
      /\ record.retry_count = b.retry_count /\ record.status = "RESOLVED"
  BY <1>1 DEF Record, Status
<1>3. blockers' = [blockers EXCEPT ![i] = record] /\ disk' = [disk EXCEPT ![i] = record]
      /\ UNCHANGED <<counter, hubs, logged, orders>>
  BY DEF resolve_blocker, Persist
<1> HIDE DEF record
<1>4. QED
  BY <1>1, <1>2, <1>3

----------------------------------------------------------------------------
(* The inductive invariant *)

LEMMA KeptAtFirst == HubInit => Kept
BY Numbers, NoneIsNoRecord DEF HubInit, Kept, HubTypeOK, Unused, Counted, FilesFollowMemory

LEMMA KeptByNext == Kept /\ [HubNext]_hubVars => Kept'
<1> SUFFICES ASSUME Kept, [HubNext]_hubVars PROVE Kept'
  OBVIOUS
<1> USE DEF Kept
<1>1. ASSUME NEW issue \in Issues, NEW max \in MaxRetries, create_blocker(issue, max)
      PROVE Kept'
  <2> DEFINE record == [issue |-> issue, retry_count |-> 0, max_retries |-> max, status |-> "OPEN"]
  <2>1. /\ counter \in Ids /\ counter' = counter + 1 /\ record \in Record
        /\ blockers' = [blockers EXCEPT ![counter] = record]
        /\ disk' = [disk EXCEPT ![counter] = record]
        /\ logged' = logged \cup {issue} /\ hubs' = hubs /\ orders' = orders
    BY <1>1, Creates
  <2>2. /\ record.issue = issue /\ record.retry_count = 0 /\ record.max_retries = max
        /\ record.status = "OPEN" /\ max \in Nat
    BY Numbers
  <2> HIDE DEF record
  <2>3. HubTypeOK'
    BY <2>1, Numbers DEF HubTypeOK, Ids
  <2>4. Unused'
    BY <2>1, Numbers DEF Unused, HubTypeOK
  <2>5. blockers[counter] = None /\ orders[counter] = 0
    BY <2>1, Numbers DEF Unused, Counted
  <2>6. Counted'
    BY <2>1, <2>2, <2>5, NoneIsNoRecord DEF Counted, HubTypeOK
  <2>7. FilesFollowMemory'
    <3> SUFFICES ASSUME hubs' = 1 PROVE FilesFollowMemory'
      BY DEF FilesFollowMemory
    <3>1. disk = blockers /\ \A x \in logged : \E i \in Ids : disk[i] # None /\ disk[i].issue = x
      BY <2>1 DEF FilesFollowMemory
    <3>2. disk' = blockers'
      BY <2>1, <3>1
    <3>3. ASSUME NEW x \in logged' PROVE \E i \in Ids : disk'[i] # None /\ disk'[i].issue = x
      <4>1. CASE x = issue
        BY <2>1, <2>2, <4>1, NoneIsNoRecord DEF HubTypeOK
      <4>2. CASE x # issue
        <5>1. PICK i \in Ids : disk[i] # None /\ disk[i].issue = x
          BY <2>1, <3>1, <3>3, <4>2
        <5>2. i # counter
          BY <2>5, <3>1, <5>1
        <5>3. QED
          BY <2>1, <5>1, <5>2 DEF HubTypeOK
      <4>3. QED
        BY <4>1, <4>2
    <3>4. QED
      BY <3>2, <3>3 DEF FilesFollowMemory
  <2>8. QED
    BY <2>3, <2>4, <2>6, <2>7
<1>2. ASSUME NEW i \in Ids, dispatch_repair(i)
      PROVE Kept'
  <2>1. PICK record \in Record :
             /\ blockers[i] \in Record /\ blockers[i].status # "RESOLVED"
             /\ blockers' = [blockers EXCEPT ![i] = record] /\ disk' = [disk EXCEPT ![i] = record]
             /\ record.issue = blockers[i].issue /\ record.max_retries = blockers[i].max_retries
             /\ record.retry_count = blockers[i].retry_count + 1
             /\ \/ /\ record.retry_count <= record.max_retries /\ record.status = "ROUTED"
                   /\ orders' = [orders EXCEPT ![i] = orders[i] + 1]
                \/ /\ record.retry_count > record.max_retries /\ record.status = "ESCALATED"
                   /\ orders' = orders
             /\ UNCHANGED <<counter, hubs, logged>>
    BY <1>2, Dispatches
  <2>2. blockers[i] # None /\ record # None
    BY <2>1, NoneIsNoRecord
  <2>3. /\ blockers[i].retry_count \in Nat /\ blockers[i].max_retries \in Nat /\ orders[i] \in Nat
        /\ blockers[i].status \in Status
    BY <2>1, Numbers DEF Record, HubTypeOK
  <2>4. HubTypeOK'
    BY <2>1 DEF HubTypeOK
  <2>5. Unused'
    BY <2>1, <2>2 DEF Unused, HubTypeOK
  <2>6. Counted'
    <3>1. \A j \in Ids \ {i} : blockers'[j] = blockers[j] /\ orders'[j] = orders[j]
      BY <2>1 DEF HubTypeOK
    <3>2. blockers'[i] = record /\ orders'[i] \in {orders[i], orders[i] + 1}
      BY <2>1 DEF HubTypeOK
    <3>3. CASE record.status = "ROUTED"
      <4>1. orders'[i] = orders[i] + 1 /\ record.retry_count <= record.max_retries
        BY <2>1, <3>3 DEF HubTypeOK
      <4>2. orders[i] = blockers[i].retry_count
        BY <2>1, <2>2, <2>3, <4>1 DEF Counted, Status
      <4>3. QED
        BY <2>1, <2>2, <2>3, <3>1, <3>2, <3>3, <4>1, <4>2 DEF Counted
    <3>4. CASE record.status = "ESCALATED"
      <4>1. orders'[i] = orders[i] /\ record.retry_count > record.max_retries
        BY <2>1, <3>4
      <4>2. orders[i] <= blockers[i].max_retries /\ orders[i] <= blockers[i].retry_count
        BY <2>2 DEF Counted
      <4>3. QED
        BY <2>1, <2>2, <2>3, <3>1, <3>2, <3>4, <4>1, <4>2 DEF Counted
    <3>5. QED
      BY <2>1, <3>3, <3>4
  <2>7. FilesFollowMemory'
    BY <2>1, <2>2 DEF FilesFollowMemory, HubTypeOK
  <2>8. QED
    BY <2>4, <2>5, <2>6, <2>7
<1>3. ASSUME NEW i \in Ids, resolve_blocker(i)
      PROVE Kept'
  <2>1. PICK record \in Record :
             /\ blockers[i] \in Record
             /\ blockers' = [blockers EXCEPT ![i] = record] /\ disk' = [disk EXCEPT ![i] = record]
             /\ record.issue = blockers[i].issue /\ record.max_retries = blockers[i].max_retries
             /\ record.retry_count = blockers[i].retry_count /\ record.status = "RESOLVED"
             /\ UNCHANGED <<counter, hubs, logged, orders>>
    BY <1>3, Resolves
  <2>2. blockers[i] # None /\ record # None
    BY <2>1, NoneIsNoRecord
  <2>3. HubTypeOK'
    BY <2>1 DEF HubTypeOK
  <2>4. Unused' /\ FilesFollowMemory'
    BY <2>1, <2>2 DEF Unused, FilesFollowMemory, HubTypeOK
  <2>5. Counted'
    BY <2>1, <2>2 DEF Counted, HubTypeOK
  <2>6. QED
    BY <2>3, <2>4, <2>5
<1>4. CASE NewHub
  <2>1. hubs' # 1
    <3>1. hubs \in Nat /\ hubs >= 1
      BY DEF HubTypeOK
    <3>2. QED
      BY <1>4, <3>1 DEF NewHub
  <2>2. HubTypeOK'
    BY <1>4, Numbers DEF NewHub, HubTypeOK
  <2>3. Unused' /\ Counted'
    BY <1>4 DEF NewHub, Unused, Counted
  <2>4. QED
    BY <2>1, <2>2, <2>3 DEF FilesFollowMemory
<1>5. ASSUME NEW issue \in Issues, NEW max \in MaxRetries, blocker_record(issue, max)
      PROVE Kept'
  <2> DEFINE record == [issue |-> issue, retry_count |-> 0, max_retries |-> max, status |-> "OPEN"]
  <2>1. record \in Record /\ hubs' = hubs + 1 /\ disk' = [disk EXCEPT ![1] = record]
        /\ logged' = logged \cup {issue} /\ UNCHANGED <<blockers, counter, orders>>
    BY <1>5, OpenRecord DEF blocker_record
  <2> HIDE DEF record
  <2>2. hubs' \in Nat \ {0} /\ hubs' # 1
    BY <2>1 DEF HubTypeOK
  <2>3. disk' \in [Ids -> Record \cup {None}]
    BY <2>1 DEF HubTypeOK
  <2>4. HubTypeOK'
    BY <2>1, <2>2, <2>3 DEF HubTypeOK
  <2>5. QED
    BY <2>1, <2>2, <2>4 DEF Unused, Counted, FilesFollowMemory
<1>6. CASE UNCHANGED hubVars
  BY <1>6 DEF hubVars, HubTypeOK, Unused, Counted, FilesFollowMemory
<1>7. QED
  BY <1>1, <1>2, <1>3, <1>4, <1>5, <1>6 DEF HubNext, Live

LEMMA AlwaysKept == HubSpec => []Kept
<1>1. QED
  BY KeptAtFirst, KeptByNext, PTL DEF HubSpec

----------------------------------------------------------------------------
(* Results *)

(* Records, files and counters keep to their types.                        *)
THEOREM HubTypeCorrect == HubSpec => []HubTypeOK
<1>1. QED
  BY AlwaysKept, PTL DEF Kept

(* A record gets at most max_retries repair orders, however often it is    *)
(* dispatched, resolved or a hub is started anew.                          *)
THEOREM RetriesAreBounded == HubSpec => []RetryBound
<1>1. Kept => RetryBound
  BY DEF Kept, Counted, RetryBound
<1>2. QED
  BY <1>1, AlwaysKept, PTL

(* While a single hub owns the directory its files say what it knows, and  *)
(* no reported issue is without a file.                                    *)
THEOREM FilesAgree == HubSpec => []FilesFollowMemory
<1>1. QED
  BY AlwaysKept, PTL DEF Kept

(* An escalated record is never routed again.                              *)
THEOREM EscalationIsFinal == HubSpec => EscalationSticks
<1>1. Kept /\ [HubNext]_hubVars =>
        [\A i \in Ids :
            hubs' = hubs /\ blockers[i] # None /\ blockers[i].status = "ESCALATED"
                => blockers'[i].status \in {"ESCALATED", "RESOLVED"}]_hubVars
  <2> SUFFICES ASSUME Kept, HubNext, NEW i \in Ids,
                      hubs' = hubs, blockers[i] # None, blockers[i].status = "ESCALATED"
               PROVE blockers'[i].status \in {"ESCALATED", "RESOLVED"}
    OBVIOUS
  <2> USE DEF Kept
  <2>1. ASSUME NEW issue \in Issues, NEW max \in MaxRetries, create_blocker(issue, max)
        PROVE blockers'[i].status = "ESCALATED"
    <3>1. counter \in Ids /\ counter # i
      BY <2>1, Numbers DEF create_blocker, Unused
    <3>2. QED
      BY <2>1, <3>1, Creates DEF HubTypeOK
  <2>2. ASSUME NEW j \in Ids, dispatch_repair(j)
        PROVE blockers'[i].status = "ESCALATED"
    <3>1. CASE j # i
      BY <2>2, <3>1 DEF dispatch_repair, Persist, HubTypeOK
    <3>2. CASE j = i
      <4>1. blockers[i].retry_count > blockers[i].max_retries
        BY DEF Counted
      <4>2. blockers[i].retry_count \in Nat /\ blockers[i].max_retries \in Nat
        BY Numbers DEF HubTypeOK, Record
      <4>3. QED
        BY <2>2, <3>2, <4>1, <4>2, Dispatches DEF HubTypeOK
    <3>3. QED
      BY <3>1, <3>2
  <2>3. ASSUME NEW j \in Ids, resolve_blocker(j)
        PROVE blockers'[i].status \in {"ESCALATED", "RESOLVED"}
    BY <2>3, Resolves DEF HubTypeOK
  <2>4. ~ NewHub
    BY DEF NewHub, HubTypeOK
  <2>5. ASSUME NEW issue \in Issues, NEW max \in MaxRetries
        PROVE ~ blocker_record(issue, max)
    BY DEF blocker_record, HubTypeOK
  <2>6. QED
    BY <2>1, <2>2, <2>3, <2>4, <2>5 DEF HubNext, Live
<1>2. QED
  BY <1>1, AlwaysKept, PTL DEF HubSpec, EscalationSticks
=============================================================================
