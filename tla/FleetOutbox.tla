---------------------------- MODULE FleetOutbox -----------------------------
(***************************************************************************)
(* The fleet telemetry outbox: submit_retrospective in                     *)
(* services/mcp/feedback_drafts.py, the sidecar                            *)
(* deploy/fleet-outbox-adapter.py, and the operator's                      *)
(* scripts/fleet-outbox-reconcile.py, which share a draft database and the *)
(* outbox directory and nothing else.                                      *)
(*                                                                         *)
(* One adapter, Server, runs the wake loop; Oneshots are runs of the same  *)
(* program with --once.  An adapter may be killed between any two of its   *)
(* writes.  The mother system is external: it takes a draft or not, and    *)
(* its answer may get lost.  Records in the outbox are abstracted to       *)
(* whether the file is there, as nothing the program decides depends on    *)
(* their content; the order of a drain is left open.                       *)
(***************************************************************************)
EXTENDS Naturals

CONSTANTS
    Drafts,
    Server,         \* the adapter in its wake loop
    Oneshots,       \* adapters started with --once
    MAX_ATTEMPTS,
    SocketBuffer,   \* datagrams the wake socket holds
    MaxCrashes,     \* bound: adapters killed
    MaxRequeues     \* bound: requeue commands given

Adapters == {Server} \cup Oneshots

ASSUME AttemptsAssumption == MAX_ATTEMPTS \in Nat \ {0}
ASSUME BufferAssumption == SocketBuffer \in Nat \ {0}
ASSUME FleetBoundsAssumption == MaxCrashes \in Nat /\ MaxRequeues \in Nat
ASSUME ServerAssumption == Server \notin Oneshots

VARIABLES
    row,        \* status of each draft's row; "none" before it is inserted
    live,       \* drafts with a file in the outbox
    dead,       \* drafts with a file in dead-letter/
    received,   \* drafts the mother system has taken
    pc,         \* where each adapter is
    queue,      \* what is left of the drain of each adapter
    cur,        \* the draft each adapter pushes
    tries,      \* attempts made in that push
    wakes,      \* datagrams in the server's socket
    poke,       \* drafts committed whose submitter has yet to wake the sidecar
    cli,        \* the requeue command in progress
    requeued,   \* drafts requeued and not claimed since
    skipped,    \* history: drafts a command moved out of dead-letter/ without marking their row
    crashes, requeues

adapterVars == <<pc, queue, cur, tries>>
operatorVars == <<cli, requeued, skipped, requeues>>
vars == <<row, live, dead, received, adapterVars, wakes, poke, operatorVars, crashes>>

Status == {"none", "pending", "in_flight", "delivered", "dead_letter"}
Place == {"down", "claim", "next", "idle", "post", "accepted", "unlink", "failed", "buried"}
NoCommand == [at |-> "none"]
Command == {NoCommand} \cup [at : {"copied", "removed"}, draft : Drafts]

Init ==
    /\ row = [d \in Drafts |-> "none"]
    /\ live = {} /\ dead = {} /\ received = {}
    /\ pc = [a \in Adapters |-> "down"]
    /\ queue = [a \in Adapters |-> {}]
    /\ cur \in [Adapters -> Drafts]
    /\ tries = [a \in Adapters |-> 0]
    /\ wakes = 0 /\ poke = {}
    /\ cli = NoCommand /\ requeued = {} /\ skipped = {}
    /\ crashes = 0 /\ requeues = 0

Goto(a, place) == pc' = [pc EXCEPT ![a] = place]
SetRow(d, status) == row' = [row EXCEPT ![d] = status]

----------------------------------------------------------------------------
(* The MCP server *)

(* submit_retrospective inserts the row, and only then pokes the sidecar. *)
submit_retrospective(d) ==
    /\ row[d] = "none"
    /\ SetRow(d, "pending")
    /\ poke' = poke \cup {d}
    /\ UNCHANGED <<live, dead, received, adapterVars, wakes, operatorVars, crashes>>

(* The datagram is lost when nobody is bound or the buffer is full. *)
wake_sidecar(d) ==
    /\ d \in poke
    /\ poke' = poke \ {d}
    /\ wakes' = IF pc[Server] = "down" \/ wakes = SocketBuffer THEN wakes ELSE wakes + 1
    /\ UNCHANGED <<row, live, dead, received, adapterVars, operatorVars, crashes>>

----------------------------------------------------------------------------
(* The adapter: starting, draining, waiting *)

MutantStart(a) ==
    /\ pc[a] = "down"
    /\ Goto(a, "idle")
    /\ wakes' = IF a = Server THEN 0 ELSE wakes
    /\ UNCHANGED <<row, live, dead, received, queue, cur, tries, poke, operatorVars, crashes>>

(* serve binds a new socket before its catch-up scan; --once only drains. *)
start(a) ==
    /\ pc[a] = "down"
    /\ Goto(a, "claim")
    /\ wakes' = IF a = Server THEN 0 ELSE wakes
    /\ UNCHANGED <<row, live, dead, received, queue, cur, tries, poke, operatorVars, crashes>>

recv ==
    /\ pc[Server] = "idle" /\ wakes > 0
    /\ wakes' = wakes - 1
    /\ Goto(Server, "claim")
    /\ UNCHANGED <<row, live, dead, received, queue, cur, tries, poke, operatorVars, crashes>>

Claimed == [d \in Drafts |-> IF row[d] = "pending" THEN "in_flight" ELSE row[d]]

MutantClaimPending(a) ==
    /\ pc[a] = "claim"
    /\ row' = Claimed
    /\ queue' = [queue EXCEPT ![a] = {d \in Drafts : row[d] = "pending"}]
    /\ requeued' = {}
    /\ Goto(a, "next")
    /\ UNCHANGED <<live, dead, received, cur, tries, wakes, poke, cli, skipped, requeues, crashes>>

MutantClaimAll(a) ==
    /\ pc[a] = "claim"
    /\ row' = [d \in Drafts |-> IF row[d] \in {"pending", "delivered"} THEN "in_flight" ELSE row[d]]
    /\ queue' = [queue EXCEPT ![a] = {d \in Drafts : row'[d] = "in_flight"}]
    /\ requeued' = {}
    /\ Goto(a, "next")
    /\ UNCHANGED <<live, dead, received, cur, tries, wakes, poke, cli, skipped, requeues, crashes>>

(* One transaction marks the pending rows and returns all that are in flight. *)
claim(a) ==
    /\ pc[a] = "claim"
    /\ row' = Claimed
    /\ queue' = [queue EXCEPT ![a] = {d \in Drafts : Claimed[d] = "in_flight"}]
    /\ requeued' = {}
    /\ Goto(a, "next")
    /\ UNCHANGED <<live, dead, received, cur, tries, wakes, poke, cli, skipped, requeues, crashes>>

drained(a) ==
    /\ pc[a] = "next" /\ queue[a] = {}
    /\ Goto(a, IF a = Server THEN "idle" ELSE "down")
    /\ UNCHANGED <<row, live, dead, received, queue, cur, tries, wakes, poke, operatorVars, crashes>>

----------------------------------------------------------------------------
(* The adapter: push, one step for each write that outlives a kill *)

push(a, d) ==
    /\ pc[a] = "next" /\ d \in queue[a]
    /\ queue' = [queue EXCEPT ![a] = @ \ {d}]
    /\ cur' = [cur EXCEPT ![a] = d]
    /\ tries' = [tries EXCEPT ![a] = 0]
    /\ live' = live \cup {d}
    /\ Goto(a, "post")
    /\ UNCHANGED <<row, dead, received, wakes, poke, operatorVars, crashes>>

(* An answer: 202 mother_accepted or 200 duplicate, a deterministic refusal, *)
(* or neither.  Only the first proves that the mother has the draft; a fault *)
(* may hide that it does.                                                    *)
Answers == {"accepted", "refused", "fault"}

MutantAfter(answer, n) ==
    IF answer \in {"accepted", "refused"} THEN "accepted"
    ELSE IF n < MAX_ATTEMPTS THEN "post" ELSE "failed"

MutantForget(answer, n) ==
    IF answer = "accepted" THEN "accepted"
    ELSE IF answer = "fault" /\ n < MAX_ATTEMPTS THEN "post" ELSE "next"

After(answer, n) ==
    IF answer = "accepted" THEN "accepted"
    ELSE IF answer = "fault" /\ n < MAX_ATTEMPTS THEN "post" ELSE "failed"

post(a, answer) ==
    /\ pc[a] = "post"
    /\ tries' = [tries EXCEPT ![a] = IF @ < MAX_ATTEMPTS THEN @ + 1 ELSE @]
    /\ received' \in CASE answer = "accepted" -> {received \cup {cur[a]}}
                       [] answer = "refused"  -> {received}
                       [] answer = "fault"    -> {received, received \cup {cur[a]}}
    /\ live' = live \cup {cur[a]}
    /\ Goto(a, After(answer, tries[a] + 1))
    /\ UNCHANGED <<row, dead, queue, cur, wakes, poke, operatorVars, crashes>>

finish_delivered(a) ==
    /\ pc[a] = "accepted"
    /\ SetRow(cur[a], "delivered")
    /\ Goto(a, "unlink")
    /\ UNCHANGED <<live, dead, received, queue, cur, tries, wakes, poke, operatorVars, crashes>>

unlink(a) ==
    /\ pc[a] = "unlink"
    /\ live' = live \ {cur[a]}
    /\ Goto(a, "next")
    /\ UNCHANGED <<row, dead, received, queue, cur, tries, wakes, poke, operatorVars, crashes>>

MutantBury(a) ==
    /\ pc[a] = "failed"
    /\ live' = live \ {cur[a]}
    /\ skipped' = skipped \ {cur[a]}
    /\ Goto(a, "buried")
    /\ UNCHANGED <<row, dead, received, queue, cur, tries, wakes, poke, cli, requeued, requeues, crashes>>

bury(a) ==
    /\ pc[a] = "failed"
    /\ live' = live \ {cur[a]}
    /\ dead' = dead \cup {cur[a]}
    /\ skipped' = skipped \ {cur[a]}
    /\ Goto(a, "buried")
    /\ UNCHANGED <<row, received, queue, cur, tries, wakes, poke, cli, requeued, requeues, crashes>>

finish_dead(a) ==
    /\ pc[a] = "buried"
    /\ SetRow(cur[a], "dead_letter")
    /\ Goto(a, "next")
    /\ UNCHANGED <<live, dead, received, queue, cur, tries, wakes, poke, operatorVars, crashes>>

(* The process is killed: its socket and what it held in memory are gone. *)
crash(a) ==
    /\ pc[a] # "down" /\ crashes < MaxCrashes
    /\ crashes' = crashes + 1
    /\ Goto(a, "down")
    /\ queue' = [queue EXCEPT ![a] = {}]
    /\ wakes' = IF a = Server THEN 0 ELSE wakes
    /\ UNCHANGED <<row, live, dead, received, cur, tries, poke, operatorVars>>

----------------------------------------------------------------------------
(* The operator's requeue command, which wakes nobody.  It asks for the    *)
(* file only, whatever the row says by now, and marks the row if it is     *)
(* dead and the database is named in the environment (FLEET_DRAFTS_DB).    *)

requeue_copy(d) ==
    /\ cli = NoCommand /\ requeues < MaxRequeues
    /\ d \in dead
    /\ live' = live \cup {d}
    /\ cli' = [at |-> "copied", draft |-> d]
    /\ requeues' = requeues + 1
    /\ UNCHANGED <<row, dead, received, adapterVars, wakes, poke, requeued, skipped, crashes>>

requeue_unlink ==
    /\ cli.at = "copied"
    /\ dead' = dead \ {cli.draft}
    /\ cli' = [cli EXCEPT !.at = "removed"]
    /\ UNCHANGED <<row, live, received, adapterVars, wakes, poke, requeued, skipped, requeues, crashes>>

requeue_row ==
    /\ cli.at = "removed"
    /\ \/ /\ row[cli.draft] = "dead_letter"
          /\ SetRow(cli.draft, "pending")
          /\ requeued' = requeued \cup {cli.draft}
          /\ UNCHANGED skipped
       \/ skipped' = skipped \cup {cli.draft} /\ UNCHANGED <<row, requeued>>
    /\ cli' = NoCommand
    /\ UNCHANGED <<live, dead, received, adapterVars, wakes, poke, requeues, crashes>>

----------------------------------------------------------------------------
Step(a) ==
    \/ claim(a) \/ drained(a)
    \/ \E d \in Drafts : push(a, d)
    \/ \E answer \in Answers : post(a, answer)
    \/ finish_delivered(a) \/ unlink(a) \/ bury(a) \/ finish_dead(a)

Next ==
    \/ \E d \in Drafts : submit_retrospective(d) \/ wake_sidecar(d) \/ requeue_copy(d)
    \/ requeue_unlink \/ requeue_row
    \/ \E a \in Adapters : start(a) \/ Step(a) \/ crash(a)
    \/ recv

Spec == Init /\ [][Next]_vars

(* The container restarts a dead sidecar, a started adapter and a started  *)
(* command go on, and a submitter that committed sends its poke.           *)
FairSpec ==
    /\ Spec
    /\ WF_vars(start(Server))
    /\ WF_vars(Step(Server) \/ recv)
    /\ WF_vars(requeue_unlink \/ requeue_row)
    /\ \A d \in Drafts : WF_vars(wake_sidecar(d))

----------------------------------------------------------------------------
(* Properties *)

(* The variables keep to their types. *)
TypeOK ==
    /\ row \in [Drafts -> Status]
    /\ live \subseteq Drafts /\ dead \subseteq Drafts /\ received \subseteq Drafts
    /\ pc \in [Adapters -> Place]
    /\ queue \in [Adapters -> SUBSET Drafts]
    /\ cur \in [Adapters -> Drafts]
    /\ tries \in [Adapters -> 0 .. MAX_ATTEMPTS]
    /\ wakes \in 0 .. SocketBuffer
    /\ poke \subseteq Drafts
    /\ cli \in Command /\ requeued \subseteq Drafts /\ skipped \subseteq Drafts
    /\ crashes \in Nat /\ requeues \in Nat

(* A row says delivered only if the mother system has the draft, whatever  *)
(* answers were lost and wherever adapters were killed.                    *)
NoFalseDelivery == \A d \in Drafts : row[d] = "delivered" => d \in received

(* A draft whose row is dead has its file in dead-letter/, the only place  *)
(* the operator can requeue it from, or a command is requeueing it: kills  *)
(* never part them.  One thing does, a command that ends before the row is *)
(* dead or without the database.                                           *)
DeadLetterRecoverable ==
    \A d \in Drafts :
        row[d] = "dead_letter" => d \in dead \cup skipped \/ (cli # NoCommand /\ cli.draft = d)

(* A server blocked in recv has no draft in flight: after every kill the   *)
(* next drain takes up what the killed one had claimed.                    *)
NothingStranded == pc[Server] = "idle" => \A d \in Drafts : row[d] # "in_flight"

(* A server blocked in recv with an empty socket leaves no draft pending   *)
(* behind, but for one whose poke is still to come or which an operator    *)
(* has just requeued: no order of commit, poke, start and drain loses the  *)
(* wake-up.                                                                *)
NoLostWakeup ==
    pc[Server] = "idle" /\ wakes = 0 =>
        \A d \in Drafts : row[d] = "pending" => d \in poke \cup requeued

(* Delivered is final: no later push, kill or command changes the row.     *)
DeliveredIsFinal ==
    [][\A d \in Drafts : row[d] = "delivered" => row'[d] = "delivered"]_vars

(* Every submitted draft is settled, delivered or in the dead-letter box,  *)
(* however the mother answers.                                             *)
EverySubmissionSettles ==
    \A d \in Drafts : d \in poke ~> row[d] \in {"delivered", "dead_letter"}

(* What a row's status means to FleetDelivery. *)
StageOf(status) ==
    CASE status = "none" -> "none"
      [] status \in {"pending", "in_flight"} -> "queued"
      [] status = "delivered" -> "delivered"
      [] status = "dead_letter" -> "parked"

Delivery == INSTANCE FleetDelivery WITH stage <- [d \in Drafts |-> StageOf(row[d])]

(* With one adapter, rows and mother behave as FleetDelivery promises.     *)
ImplementsDelivery == Delivery!Spec

=============================================================================
