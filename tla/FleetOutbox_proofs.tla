------------------------- MODULE FleetOutbox_proofs -------------------------
(***************************************************************************)
(* Proofs about FleetOutbox.  The first part holds for any number of       *)
(* adapters, the second for a server that drains alone.                    *)
(***************************************************************************)
EXTENDS FleetOutbox, TLAPS

----------------------------------------------------------------------------
(* Types *)

LEMMA AfterType ==
    ASSUME NEW answer, NEW n PROVE After(answer, n) \in {"accepted", "post", "failed"}
BY DEF After

LEMMA InitType == Init => TypeOK
BY AttemptsAssumption, BufferAssumption
   DEF Init, TypeOK, Adapters, Status, Place, Command, NoCommand

LEMMA StepType ==
    ASSUME TypeOK, NEW a \in Adapters, Step(a)
    PROVE  TypeOK'
<1>. USE DEF TypeOK, Goto, SetRow, operatorVars
<1>1. CASE claim(a)
  BY <1>1 DEF claim, Claimed, Status, Place
<1>2. CASE drained(a)
  BY <1>2 DEF drained, Place
<1>3. ASSUME NEW d \in Drafts, push(a, d) PROVE TypeOK'
  BY <1>3, AttemptsAssumption DEF push, Place
<1>4. ASSUME NEW answer \in Answers, post(a, answer) PROVE TypeOK'
  <2>1. received' \subseteq Drafts
    BY <1>4 DEF post, Answers
  <2>2. pc' \in [Adapters -> Place]
    BY <1>4, AfterType DEF post, Place
  <2>3. tries' \in [Adapters -> 0 .. MAX_ATTEMPTS]
    BY <1>4, AttemptsAssumption DEF post
  <2>. QED BY <1>4, <2>1, <2>2, <2>3 DEF post
<1>5. CASE finish_delivered(a)
  BY <1>5 DEF finish_delivered, Status, Place
<1>6. CASE unlink(a)
  BY <1>6 DEF unlink, Place
<1>7. CASE bury(a)
  BY <1>7 DEF bury, Place
<1>8. CASE finish_dead(a)
  BY <1>8 DEF finish_dead, Status, Place
<1>. QED
  BY <1>1, <1>2, <1>3, <1>4, <1>5, <1>6, <1>7, <1>8 DEF Step

LEMMA NextType == TypeOK /\ [Next]_vars => TypeOK'
<1>. SUFFICES ASSUME TypeOK, [Next]_vars PROVE TypeOK'
  OBVIOUS
<1>. USE DEF TypeOK, Goto, SetRow, operatorVars, adapterVars
<1>1. ASSUME NEW d \in Drafts, submit_retrospective(d) PROVE TypeOK'
  BY <1>1 DEF submit_retrospective, Status
<1>2. ASSUME NEW d \in Drafts, wake_sidecar(d) PROVE TypeOK'
  BY <1>2, BufferAssumption DEF wake_sidecar
<1>3. ASSUME NEW d \in Drafts, requeue_copy(d) PROVE TypeOK'
  BY <1>3 DEF requeue_copy, Command
<1>4. CASE requeue_unlink
  <2>1. cli \in [at : {"copied", "removed"}, draft : Drafts]
    BY <1>4 DEF requeue_unlink, Command, NoCommand
  <2>. QED BY <1>4, <2>1 DEF requeue_unlink, Command
<1>5. CASE requeue_row
  <2>1. cli \in [at : {"copied", "removed"}, draft : Drafts]
    BY <1>5 DEF requeue_row, Command, NoCommand
  <2>. QED BY <1>5, <2>1 DEF requeue_row, Command, Status
<1>6. ASSUME NEW a \in Adapters, start(a) PROVE TypeOK'
  BY <1>6, BufferAssumption DEF start, Place
<1>7. ASSUME NEW a \in Adapters, crash(a) PROVE TypeOK'
  BY <1>7, BufferAssumption, FleetBoundsAssumption DEF crash, Place
<1>8. CASE recv
  BY <1>8, BufferAssumption DEF recv, Place, Adapters
<1>9. CASE UNCHANGED vars
  BY <1>9 DEF vars
<1>. QED
  BY <1>1, <1>2, <1>3, <1>4, <1>5, <1>6, <1>7, <1>8, <1>9, StepType DEF Next

(* The variables keep to their types, for any drafts and adapters. *)
THEOREM TypeCorrect == Spec => []TypeOK
BY InitType, NextType, PTL DEF Spec

----------------------------------------------------------------------------
(* No false delivery: whoever is about to write "delivered" has seen the   *)
(* mother confirm the draft, and the mother forgets nothing.               *)

Backed == \A a \in Adapters : pc[a] = "accepted" => cur[a] \in received

BackedInv == TypeOK /\ Backed /\ NoFalseDelivery

LEMMA ReceivedGrows == TypeOK /\ [Next]_vars => received \subseteq received'
<1>1. ASSUME NEW a \in Adapters, NEW answer \in Answers, post(a, answer)
      PROVE  received \subseteq received'
  BY <1>1 DEF post, Answers
<1>. QED
  BY <1>1 DEF Next, Step, vars, submit_retrospective, wake_sidecar, requeue_copy,
     requeue_unlink, requeue_row, start, claim, drained, push, finish_delivered,
     unlink, bury, finish_dead, crash, recv

LEMMA BackedStep == BackedInv /\ [Next]_vars => BackedInv'
<1>. SUFFICES ASSUME BackedInv, [Next]_vars PROVE BackedInv'
  OBVIOUS
<1>. USE DEF BackedInv, Backed, NoFalseDelivery
<1>t. TypeOK /\ TypeOK'
  BY NextType
<1>r. received \subseteq received'
  BY ReceivedGrows
<1>1. ASSUME NEW d \in Drafts, submit_retrospective(d) PROVE Backed' /\ NoFalseDelivery'
  BY <1>1, <1>t DEF submit_retrospective, SetRow, adapterVars, TypeOK
<1>2. ASSUME NEW d \in Drafts, wake_sidecar(d) \/ requeue_copy(d)
      PROVE  Backed' /\ NoFalseDelivery'
  BY <1>2 DEF wake_sidecar, requeue_copy, adapterVars
<1>3. CASE requeue_unlink
  BY <1>3, <1>t DEF requeue_unlink, adapterVars
<1>4. CASE requeue_row
  BY <1>4, <1>t DEF requeue_row, SetRow, adapterVars, TypeOK
<1>5. ASSUME NEW a \in Adapters, start(a) \/ crash(a) \/ drained(a) \/ unlink(a) \/ bury(a)
      PROVE  Backed' /\ NoFalseDelivery'
  BY <1>5, <1>t DEF start, crash, drained, unlink, bury, Goto, TypeOK
<1>6. ASSUME NEW a \in Adapters, claim(a) PROVE Backed' /\ NoFalseDelivery'
  BY <1>6, <1>t DEF claim, Claimed, Goto, TypeOK
<1>7. ASSUME NEW a \in Adapters, NEW answer \in Answers, post(a, answer)
      PROVE  Backed' /\ NoFalseDelivery'
  <2>1. pc'[a] = "accepted" => cur[a] \in received'
    BY <1>7, <1>t DEF post, After, Goto, TypeOK
  <2>. QED BY <1>7, <1>r, <1>t, <2>1 DEF post, Goto, TypeOK
<1>8. ASSUME NEW a \in Adapters, finish_delivered(a) \/ finish_dead(a)
      PROVE  Backed' /\ NoFalseDelivery'
  BY <1>8, <1>t DEF finish_delivered, finish_dead, Goto, SetRow, TypeOK
<1>9. CASE recv
  BY <1>9, <1>t DEF recv, Goto, TypeOK, Adapters
<1>10. CASE UNCHANGED vars
  BY <1>10, <1>t DEF vars, adapterVars
<1>11. ASSUME NEW a \in Adapters, NEW d \in Drafts, push(a, d)
       PROVE  Backed' /\ NoFalseDelivery'
  BY <1>11, <1>t DEF push, Goto, TypeOK
<1>. QED
  BY <1>t, <1>1, <1>2, <1>3, <1>4, <1>5, <1>6, <1>7, <1>8, <1>9, <1>10, <1>11
     DEF Next, Step

(* A row says delivered only if the mother system has the draft, with any  *)
(* number of adapters, kills and requeues.                                 *)
THEOREM DeliveryIsReal == Spec => []NoFalseDelivery
<1>1. Init => BackedInv
  BY InitType DEF Init, BackedInv, Backed, NoFalseDelivery
<1>. QED BY <1>1, BackedStep, PTL DEF Spec, BackedInv

----------------------------------------------------------------------------
(* No lost wake-up: a pending draft is on its way to a server that waits.  *)

Covered ==
    \A d \in Drafts : row[d] = "pending" =>
        d \in poke \cup requeued \/ pc[Server] \in {"down", "claim"} \/ wakes > 0

LEMMA CoveredStep == TypeOK /\ Covered /\ [Next]_vars => Covered'
<1>. SUFFICES ASSUME TypeOK, Covered, [Next]_vars PROVE Covered'
  OBVIOUS
<1>. USE DEF Covered
<1>s. Server \in Adapters
  BY DEF Adapters
<1>1. ASSUME NEW d \in Drafts, submit_retrospective(d) PROVE Covered'
  BY <1>1 DEF submit_retrospective, SetRow, adapterVars, operatorVars, TypeOK
<1>2. ASSUME NEW d \in Drafts, wake_sidecar(d) PROVE Covered'
  BY <1>2, BufferAssumption DEF wake_sidecar, adapterVars, operatorVars, TypeOK
<1>3. ASSUME NEW d \in Drafts, requeue_copy(d) PROVE Covered'
  BY <1>3 DEF requeue_copy, adapterVars
<1>4. CASE requeue_unlink \/ requeue_row
  BY <1>4 DEF requeue_unlink, requeue_row, SetRow, adapterVars, TypeOK
<1>5. ASSUME NEW a \in Adapters, start(a) \/ crash(a) PROVE Covered'
  BY <1>5, <1>s DEF start, crash, Goto, operatorVars, TypeOK
<1>6. ASSUME NEW a \in Adapters, claim(a) PROVE Covered'
  BY <1>6 DEF claim, Claimed, TypeOK
<1>7. ASSUME NEW a \in Adapters, drained(a) \/ unlink(a) \/ bury(a) PROVE Covered'
  BY <1>7, <1>s DEF drained, unlink, bury, Goto, operatorVars, TypeOK
<1>8. ASSUME NEW a \in Adapters, NEW d \in Drafts, push(a, d) PROVE Covered'
  BY <1>8, <1>s DEF push, Goto, operatorVars, TypeOK
<1>9. ASSUME NEW a \in Adapters, NEW answer \in Answers, post(a, answer) PROVE Covered'
  BY <1>9, <1>s DEF post, Goto, operatorVars, TypeOK
<1>10. ASSUME NEW a \in Adapters, finish_delivered(a) \/ finish_dead(a) PROVE Covered'
  BY <1>10, <1>s DEF finish_delivered, finish_dead, Goto, SetRow, operatorVars, TypeOK
<1>11. CASE recv
  BY <1>11, <1>s DEF recv, Goto, TypeOK
<1>12. CASE UNCHANGED vars
  BY <1>12 DEF vars, adapterVars, operatorVars
<1>. QED
  BY <1>1, <1>2, <1>3, <1>4, <1>5, <1>6, <1>7, <1>8, <1>9, <1>10, <1>11, <1>12
     DEF Next, Step

(* A waiting server with an empty socket leaves no draft pending behind,   *)
(* but for those whose poke is to come or which were just requeued.        *)
THEOREM WakeUpsArrive == Spec => []NoLostWakeup
<1>1. Init => Covered
  BY DEF Init, Covered
<1>2. TypeOK /\ Covered => NoLostWakeup
  BY DEF TypeOK, Covered, NoLostWakeup
<1>. QED BY <1>1, <1>2, CoveredStep, TypeCorrect, PTL DEF Spec

----------------------------------------------------------------------------
(* A server that drains alone.  It owns what is in flight: every draft in  *)
(* flight is in its queue or in its hands, and what it has there is in     *)
(* flight.  `Hands' are the places between push and the final row update.  *)

Hands == {"post", "accepted", "failed", "buried"}

Owned ==
    \A d \in Drafts : row[d] = "in_flight" =>
        \/ pc[Server] \in {"down", "claim"}
        \/ d \in queue[Server]
        \/ pc[Server] \in Hands /\ d = cur[Server]

InFlight ==
    /\ \A d \in queue[Server] : row[d] = "in_flight"
    /\ pc[Server] \in Hands => row[cur[Server]] = "in_flight" /\ cur[Server] \notin queue[Server]
    /\ pc[Server] \in {"down", "claim", "idle"} => queue[Server] = {}

SoleInv == TypeOK /\ Backed /\ NoFalseDelivery /\ Owned /\ InFlight

LEMMA SoleStep == Oneshots = {} /\ SoleInv /\ [Next]_vars => Owned' /\ InFlight'
<1>. SUFFICES ASSUME Oneshots = {}, SoleInv, [Next]_vars PROVE Owned' /\ InFlight'
  OBVIOUS
<1>. USE DEF SoleInv, Owned, InFlight, Hands
<1>s. Adapters = {Server}
  BY DEF Adapters
<1>1. ASSUME NEW d \in Drafts, submit_retrospective(d) PROVE Owned' /\ InFlight'
  BY <1>1, <1>s DEF submit_retrospective, SetRow, adapterVars, TypeOK
<1>2. ASSUME NEW d \in Drafts, wake_sidecar(d) \/ requeue_copy(d) PROVE Owned' /\ InFlight'
  BY <1>2 DEF wake_sidecar, requeue_copy, adapterVars
<1>3. CASE requeue_unlink
  BY <1>3 DEF requeue_unlink, adapterVars
<1>4. CASE requeue_row
  BY <1>4, <1>s DEF requeue_row, SetRow, adapterVars, TypeOK
<1>5. CASE start(Server) \/ crash(Server) \/ drained(Server)
  BY <1>5, <1>s DEF start, crash, drained, Goto, TypeOK
<1>6. CASE claim(Server)
  BY <1>6, <1>s DEF claim, Claimed, Goto, TypeOK
<1>7. ASSUME NEW d \in Drafts, push(Server, d) PROVE Owned' /\ InFlight'
  BY <1>7, <1>s DEF push, Goto, TypeOK
<1>8. ASSUME NEW answer \in Answers, post(Server, answer) PROVE Owned' /\ InFlight'
  BY <1>8, <1>s, AfterType DEF post, Goto, TypeOK
<1>9. CASE finish_delivered(Server) \/ finish_dead(Server)
  BY <1>9, <1>s DEF finish_delivered, finish_dead, Goto, SetRow, TypeOK
<1>10. CASE unlink(Server) \/ bury(Server) \/ recv
  BY <1>10, <1>s DEF unlink, bury, recv, Goto, TypeOK
<1>11. CASE UNCHANGED vars
  BY <1>11 DEF vars, adapterVars
<1>. QED
  BY <1>s, <1>1, <1>2, <1>3, <1>4, <1>5, <1>6, <1>7, <1>8, <1>9, <1>10, <1>11
     DEF Next, Step

LEMMA SoleInvariant == Oneshots = {} /\ Spec => []SoleInv
<1>1. Init => SoleInv
  BY InitType DEF Init, SoleInv, Backed, NoFalseDelivery, Owned, InFlight, Hands, Adapters
<1>2. Oneshots = {} /\ SoleInv /\ [Next]_vars => SoleInv'
  BY SoleStep, BackedStep DEF SoleInv, BackedInv
<1>3. Oneshots = {} => [](Oneshots = {})
  OBVIOUS
<1>. QED BY <1>1, <1>2, <1>3, PTL DEF Spec

(* With a single adapter, a server waiting for a wake-up has no draft in   *)
(* flight: what a killed server had claimed is taken up by the next drain. *)
THEOREM NoneStranded == Oneshots = {} /\ Spec => []NothingStranded
<1>1. SoleInv => NothingStranded
  BY DEF SoleInv, Owned, InFlight, Hands, NothingStranded
<1>. QED BY <1>1, SoleInvariant, PTL

LEMMA FinalStep ==
    Oneshots = {} /\ SoleInv /\ [Next]_vars =>
        \A d \in Drafts : row[d] = "delivered" => row'[d] = "delivered"
<1>. SUFFICES ASSUME Oneshots = {}, SoleInv, [Next]_vars,
                     NEW d \in Drafts, row[d] = "delivered"
              PROVE  row'[d] = "delivered"
  OBVIOUS
<1>. USE DEF SoleInv
<1>s. Adapters = {Server}
  BY DEF Adapters
<1>1. ASSUME NEW e \in Drafts, submit_retrospective(e) PROVE row'[d] = "delivered"
  BY <1>1 DEF submit_retrospective, SetRow, TypeOK
<1>2. CASE requeue_row
  BY <1>2 DEF requeue_row, SetRow, TypeOK
<1>3. CASE claim(Server)
  BY <1>3 DEF claim, Claimed
<1>4. CASE finish_delivered(Server) \/ finish_dead(Server)
  BY <1>4, <1>s DEF finish_delivered, finish_dead, SetRow, InFlight, Hands, TypeOK
<1>. QED
  BY <1>s, <1>1, <1>2, <1>3, <1>4
     DEF Next, Step, vars, wake_sidecar, requeue_copy, requeue_unlink, start, drained,
         push, post, unlink, bury, crash, recv

(* With a single adapter, no push, kill or command takes a delivered draft *)
(* up again.                                                               *)
THEOREM DeliveryIsFinal == Oneshots = {} /\ Spec => DeliveredIsFinal
<1>1. Oneshots = {} /\ SoleInv /\ [Next]_vars =>
          [\A d \in Drafts : row[d] = "delivered" => row'[d] = "delivered"]_vars
  BY FinalStep
<1>2. Oneshots = {} => [](Oneshots = {})
  OBVIOUS
<1>. QED BY <1>1, <1>2, SoleInvariant, PTL DEF Spec, DeliveredIsFinal

----------------------------------------------------------------------------
(* Dead letters, whatever the operator does and when.                      *)

(* The letter is there, on its way, or was moved without marking the row.  *)
Kept(d) == d \in dead \cup skipped \/ (cli # NoCommand /\ cli.draft = d)

Buried == pc[Server] = "buried" => Kept(cur[Server])

DeadInv == SoleInv /\ Buried /\ DeadLetterRecoverable

LEMMA DeadStep ==
    Oneshots = {} /\ DeadInv /\ [Next]_vars =>
        Buried' /\ DeadLetterRecoverable'
<1>. DEFINE Goal == Buried' /\ DeadLetterRecoverable'
<1>. SUFFICES ASSUME Oneshots = {}, DeadInv, [Next]_vars
              PROVE  Goal
  OBVIOUS
<1>. USE DEF DeadInv, SoleInv, Buried, Kept, DeadLetterRecoverable
<1>s. Adapters = {Server}
  BY DEF Adapters
<1>c. cli # NoCommand => cli \in [at : {"copied", "removed"}, draft : Drafts]
  BY DEF TypeOK, Command
<1>1. ASSUME NEW d \in Drafts, submit_retrospective(d) PROVE Goal
  BY <1>1, <1>c DEF submit_retrospective, SetRow, adapterVars, operatorVars, TypeOK
<1>2. ASSUME NEW d \in Drafts, wake_sidecar(d) PROVE Goal
  BY <1>2 DEF wake_sidecar, adapterVars, operatorVars
<1>3. ASSUME NEW d \in Drafts, requeue_copy(d) PROVE Goal
  BY <1>3 DEF requeue_copy, adapterVars, TypeOK
<1>4. CASE requeue_unlink
  BY <1>4, <1>c, <1>s
     DEF requeue_unlink, adapterVars, NoCommand, InFlight, Hands, TypeOK
<1>5. CASE requeue_row
  <2>1. cli # NoCommand /\ cli.draft \in Drafts /\ cli' = NoCommand /\ UNCHANGED <<dead, adapterVars>>
    BY <1>5, <1>c DEF requeue_row, NoCommand
  <2>2. CASE row[cli.draft] = "dead_letter" /\ SetRow(cli.draft, "pending") /\ UNCHANGED skipped
    <3>1. pc[Server] = "buried" => row[cur[Server]] = "in_flight"
      BY <1>s DEF InFlight, Hands
    <3>. QED BY <2>1, <2>2, <3>1 DEF SetRow, adapterVars, TypeOK
  <2>3. CASE skipped' = skipped \cup {cli.draft} /\ UNCHANGED row
    BY <2>1, <2>3 DEF adapterVars
  <2>. QED BY <1>5, <2>2, <2>3 DEF requeue_row
<1>6. CASE start(Server) \/ crash(Server) \/ drained(Server) \/ unlink(Server) \/ recv
  BY <1>6, <1>s DEF start, crash, drained, unlink, recv, Goto, operatorVars, TypeOK
<1>7. CASE claim(Server)
  BY <1>7, <1>s, <1>c DEF claim, Claimed, Goto, TypeOK
<1>8. ASSUME NEW d \in Drafts, push(Server, d) PROVE Goal
  BY <1>8, <1>s DEF push, Goto, operatorVars, TypeOK
<1>9. ASSUME NEW answer \in Answers, post(Server, answer) PROVE Goal
  BY <1>9, <1>s, AfterType DEF post, Goto, operatorVars, TypeOK
<1>10. CASE bury(Server)
  BY <1>10, <1>s DEF bury, Goto, operatorVars, TypeOK
<1>11. CASE finish_delivered(Server)
  BY <1>11, <1>s, <1>c
     DEF finish_delivered, Goto, SetRow, operatorVars, InFlight, Hands, TypeOK
<1>12. CASE finish_dead(Server)
  BY <1>12, <1>s, <1>c DEF finish_dead, Goto, SetRow, operatorVars, TypeOK
<1>13. CASE UNCHANGED vars
  BY <1>13 DEF vars, adapterVars, operatorVars
<1>. QED
  BY <1>s, <1>1, <1>2, <1>3, <1>4, <1>5, <1>6, <1>7, <1>8, <1>9, <1>10, <1>11, <1>12, <1>13
     DEF Next, Step

(* With one adapter, a dead row keeps its file in dead-letter/ through     *)
(* every kill, and only a requeue command that does not mark the row parts *)
(* them, whatever the operator does and when.                              *)
THEOREM DeadLettersAreRecoverable == Oneshots = {} /\ Spec => []DeadLetterRecoverable
<1>1. Init => Buried /\ DeadLetterRecoverable
  BY DEF Init, Buried, DeadLetterRecoverable, Adapters
<1>2. Oneshots = {} /\ DeadInv /\ [Next]_vars => Buried' /\ DeadLetterRecoverable'
  BY DeadStep
<1>3. Oneshots = {} => [](Oneshots = {})
  OBVIOUS
<1>. QED BY <1>1, <1>2, <1>3, SoleInvariant, PTL DEF Spec, DeadInv

----------------------------------------------------------------------------
(* The outbox implements FleetDelivery. *)

LEMMA DeliveryInit == Init => Delivery!Init
BY DEF Init, Delivery!Init, StageOf

LEMMA Moves ==
    ASSUME TypeOK, NEW d \in Drafts, NEW from, NEW to, NEW status \in Status,
           StageOf(row[d]) = from, StageOf(status) = to, SetRow(d, status),
           UNCHANGED received
    PROVE  Delivery!Move(d, from, to)
<1>1. [e \in Drafts |-> StageOf(row'[e])]
        = [[e \in Drafts |-> StageOf(row[e])] EXCEPT ![d] = to]
  BY DEF TypeOK, SetRow
<1>. QED BY <1>1 DEF Delivery!Move

LEMMA DeliveryStep ==
    Oneshots = {} /\ SoleInv /\ [Next]_vars => [Delivery!Next]_(Delivery!vars)
<1>. SUFFICES ASSUME Oneshots = {}, SoleInv, [Next]_vars
              PROVE  Delivery!Next \/ UNCHANGED Delivery!vars
  OBVIOUS
<1>. USE DEF SoleInv
<1>s. Adapters = {Server}
  BY DEF Adapters
<1>1. ASSUME NEW d \in Drafts, submit_retrospective(d) PROVE Delivery!Next
  <2>1. Delivery!Move(d, "none", "queued")
    BY <1>1, Moves DEF submit_retrospective, Status, StageOf
  <2>. QED BY <2>1 DEF Delivery!Next, Delivery!Submit
<1>2. CASE requeue_row
  <2>1. CASE UNCHANGED row
    BY <1>2, <2>1 DEF requeue_row, Delivery!vars
  <2>2. CASE row[cli.draft] = "dead_letter" /\ SetRow(cli.draft, "pending")
    <3>1. cli.draft \in Drafts
      BY <1>2 DEF requeue_row, TypeOK, Command, NoCommand
    <3>2. Delivery!Move(cli.draft, "parked", "queued")
      BY <1>2, <2>2, <3>1, Moves DEF requeue_row, Status, StageOf
    <3>. QED BY <3>1, <3>2 DEF Delivery!Next, Delivery!Requeue
  <2>. QED BY <1>2, <2>1, <2>2 DEF requeue_row
<1>3. CASE claim(Server)
  <2>1. \A d \in Drafts : StageOf(row'[d]) = StageOf(row[d])
    BY <1>3 DEF claim, Claimed, StageOf, TypeOK, Status
  <2>. QED BY <1>3, <2>1 DEF claim, Delivery!vars
<1>4. ASSUME NEW answer \in Answers, post(Server, answer)
      PROVE  Delivery!Next \/ UNCHANGED Delivery!vars
  <2>1. cur[Server] \in Drafts /\ StageOf(row[cur[Server]]) = "queued"
    BY <1>4, <1>s DEF post, InFlight, Hands, StageOf, TypeOK
  <2>2. received' = received \/ received' = received \cup {cur[Server]}
    BY <1>4 DEF post, Answers
  <2>3. UNCHANGED row
    BY <1>4 DEF post
  <2>. QED BY <2>1, <2>2, <2>3 DEF Delivery!Next, Delivery!Arrive, Delivery!vars
<1>5. CASE finish_delivered(Server)
  <2>1. cur[Server] \in Drafts /\ row[cur[Server]] = "in_flight" /\ cur[Server] \in received
    BY <1>5, <1>s DEF finish_delivered, Backed, InFlight, Hands, TypeOK
  <2>2. Delivery!Move(cur[Server], "queued", "delivered")
    BY <1>5, <2>1, Moves DEF finish_delivered, Status, StageOf
  <2>. QED BY <2>1, <2>2 DEF Delivery!Next, Delivery!Confirm
<1>6. CASE finish_dead(Server)
  <2>1. cur[Server] \in Drafts /\ row[cur[Server]] = "in_flight"
    BY <1>6, <1>s DEF finish_dead, InFlight, Hands, TypeOK
  <2>2. Delivery!Move(cur[Server], "queued", "parked")
    BY <1>6, <2>1, Moves DEF finish_dead, Status, StageOf
  <2>. QED BY <2>1, <2>2 DEF Delivery!Next, Delivery!Park
<1>7. ASSUME UNCHANGED <<row, received>> PROVE UNCHANGED Delivery!vars
  BY <1>7 DEF Delivery!vars
<1>. QED
  BY <1>s, <1>1, <1>2, <1>3, <1>4, <1>5, <1>6, <1>7
     DEF Next, Step, vars, wake_sidecar, requeue_copy, requeue_unlink, start, drained,
         push, unlink, bury, crash, recv

(* With a single adapter, rows and mother behave as FleetDelivery promises. *)
THEOREM OutboxImplementsDelivery == Oneshots = {} /\ Spec => ImplementsDelivery
<1>1. Oneshots = {} => [](Oneshots = {})
  OBVIOUS
<1>. QED
  BY <1>1, DeliveryInit, DeliveryStep, SoleInvariant, PTL
     DEF Spec, ImplementsDelivery, Delivery!Spec

=============================================================================
