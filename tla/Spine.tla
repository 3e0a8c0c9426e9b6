------------------------------- MODULE Spine --------------------------------
(***************************************************************************)
(* The orchestration spine of packages/workflow-core: the files under      *)
(* _orchestration/ (orchestration.py) and the C00 loop that conducts the   *)
(* downstream layers over them (c00_orchestration.py).                     *)
(*                                                                         *)
(* Every verb is a process of its own (gate.py) over the client's folder,  *)
(* and nothing locks the folder: a verb reads, numbers its file by         *)
(* counting the ones there are, truncates and fills it, and appends to the *)
(* log.                                                                    *)
(*                                                                         *)
(* The PRD is the status of each of its sections; a question is a blocker  *)
(* or an evidence return, and a decision is what its ingestion records.    *)
(* What a tick tells the owner, objectives, severities, evidence and the   *)
(* package C01 emits are left out.                                         *)
(***************************************************************************)
EXTENDS Naturals, FiniteSets

CONSTANTS
    Agents,         \* processes that run verbs
    Sections,       \* sections of the C00 PRD
    SourceSections, \* per layer the rubric gates: the sections its gate looks at
    Decisions,      \* what an owner may decide
    HandPackets,    \* <<layer, status>> of the packets that are dispatched by hand
    Returning,      \* <<kind, layer>>: which layers return what
    MaxByHand,      \* bound: work packets dispatched by hand
    MaxReturns,     \* bound: returns
    MaxSlips,       \* bound: sections the owner reopens
    MaxCrashes      \* bound: verbs killed

DOWNSTREAM_CODES == 1 .. 6      \* C01 to C06, in the order the loop tries them
Upstream(l) == IF l = 4 THEN {1, 3} ELSE {}
Gated == DOMAIN SourceSections
Status == {"ready", "partial", "blocked"}
Kind == {"blocker", "evidence"}
Undecided == "undecided"

ASSUME SpineAssumption ==
    /\ HandPackets \subseteq DOWNSTREAM_CODES \X Status
    /\ Returning \subseteq Kind \X DOWNSTREAM_CODES
    /\ Gated \subseteq DOWNSTREAM_CODES
    /\ \A l \in Gated : SourceSections[l] # {} /\ SourceSections[l] \subseteq Sections
    /\ \A l \in Gated : Upstream(l) = {}       \* C00 gates a layer or has it wait for others
    /\ Undecided \notin Decisions              \* a decision is never empty
    /\ {MaxByHand, MaxReturns, MaxSlips, MaxCrashes} \subseteq Nat

VARIABLES
    prd,        \* status of each section
    refs,       \* C01's 01_refs/ holds the owner's sources
    packets,    \* work_packets/C00-WP-n.json
    returns,    \* blockers/ and evidence_returns/, by kind, layer and number
    log,        \* log.jsonl
    call,       \* per agent: the verb it runs
    handed,     \* history: layer and origin of every packet written
    byHand, slips, crashes

files == <<packets, returns, log>>
bounds == <<byHand, slips, crashes>>
vars == <<prd, refs, files, call, handed, bounds>>

Origin == {"loop", "hand"}
Key == {<<r[1], r[2], n>> : r \in Returning, n \in 1 .. MaxReturns}
PacketId == 1 .. Cardinality(DOWNSTREAM_CODES) + MaxByHand

NoFile == [is |-> "absent"]
Torn == [is |-> "truncated"]
NoCall == [verb |-> "none"]

WorkPacket == [layer : DOWNSTREAM_CODES, origin : Origin, status : Status]
Return == [packet : PacketId, decision : Decisions \cup {Undecided}]
Entry == [event : {"dispatch"}, id : PacketId, layer : DOWNSTREAM_CODES]
         \cup [event : {"return"}, id : Key, packet : PacketId]
         \cup [event : {"ingest"}, id : Key, decision : Decisions]

Step == {"number", "open_return", "fill_return", "open_packet", "fill_packet", "append"}
Call == [verb : {"dispatch"}, at : Step, id : PacketId \cup {0}, packet : WorkPacket]
        \cup [verb : {"return"}, at : Step, id : PacketId, packet : WorkPacket, key : Key, return : Return]
        \cup [verb : {"ingest"}, at : Step, key : Key, return : Return]

Init ==
    /\ prd = [s \in Sections |-> "blocked"] /\ refs = FALSE
    /\ packets = [i \in PacketId |-> NoFile]
    /\ returns = [k \in Key |-> NoFile]
    /\ log = {}
    /\ call = [a \in Agents |-> NoCall]
    /\ handed = {}
    /\ byHand = 0 /\ slips = 0 /\ crashes = 0

----------------------------------------------------------------------------
(* What a tick reads *)

GateReady(l) == \A s \in SourceSections[l] : prd[s] = "ready"
GateBlocked(l) == \E s \in SourceSections[l] : prd[s] = "blocked"

Written(dir) == {i \in DOMAIN dir : dir[i] # NoFile}
Legible(dir) == {i \in Written(dir) : dir[i] # Torn}
Blockers == {k \in Key : k[1] = "blocker"}

Assigned == {packets[i].layer : i \in Legible(packets)}
Unresolved == {k \in Legible(returns) \cap Blockers : returns[k].decision = Undecided}

\* a file that cannot be parsed fails the tick
Readable == Written(packets) = Legible(packets) /\ Written(returns) \cap Blockers \subseteq Legible(returns)

MutantDispatchable(l) == l \in Gated /\ GateReady(l)

Dispatchable(l) ==
    IF l \in Gated THEN GateReady(l) ELSE Upstream(l) # {} /\ Upstream(l) \subseteq Assigned

MutantPreempted == \E l \in Gated : GateBlocked(l)

(* An open blocker comes first, then the question for a blocked gate:      *)
(* readiness always has a next question.                                   *)
Preempted == Unresolved # {} \/ \E l \in Gated : GateBlocked(l)

(* The first layer that can have its work.  C01 needs its sources, and the *)
(* tick stops at it without them.                                          *)
Chosen(l) ==
    /\ Readable /\ ~ Preempted
    /\ l \notin Assigned /\ Dispatchable(l)
    /\ \A m \in 1 .. l - 1 : m \in Assigned \/ ~ Dispatchable(m)
    /\ l = 1 => refs

----------------------------------------------------------------------------
(* The verbs, up to their first write *)

Start(a, c) == call[a] = NoCall /\ call' = [call EXCEPT ![a] = c]

NewPacket(l, origin, status) ==
    [verb |-> "dispatch", at |-> "number", id |-> 0,
     packet |-> [layer |-> l, origin |-> origin, status |-> status]]

\* a tick that dispatches nothing leaves everything as it is
c00_orchestration_tick(a) ==
    /\ \E l \in DOWNSTREAM_CODES : Chosen(l) /\ Start(a, NewPacket(l, "loop", "ready"))
    /\ UNCHANGED <<prd, refs, files, handed, bounds>>

dispatch_work_packet(a, l, status) ==
    /\ byHand < MaxByHand
    /\ Start(a, NewPacket(l, "hand", status))
    /\ byHand' = byHand + 1
    /\ UNCHANGED <<prd, refs, files, handed, slips, crashes>>

Returned(kind, l) == {k \in Written(returns) : k[1] = kind /\ k[2] = l}

return_to_c00(a, kind, i) ==
    /\ i \in Legible(packets) /\ Cardinality(Written(returns)) < MaxReturns
    /\ LET l == packets[i].layer
           key == <<kind, l, Cardinality(Returned(kind, l)) + 1>>
       IN /\ key \in Key
          /\ Start(a, [verb |-> "return", at |-> "open_return", id |-> i, key |-> key,
                       packet |-> [packets[i] EXCEPT !.status = "blocked"],
                       return |-> [packet |-> i, decision |-> Undecided]])
    /\ UNCHANGED <<prd, refs, files, handed, bounds>>

\* ingesting twice is refused
ingest(a, k, decision) ==
    /\ k \in Legible(returns) /\ returns[k].decision = Undecided
    /\ Start(a, [verb |-> "ingest", at |-> "open_return", key |-> k,
                 return |-> [returns[k] EXCEPT !.decision = decision]])
    /\ UNCHANGED <<prd, refs, files, handed, bounds>>

----------------------------------------------------------------------------
(* Their writes *)

At(a, step) == call[a] # NoCall /\ call[a].at = step
Goto(a, step) == call' = [call EXCEPT ![a].at = step]

MutantNumber(a) ==
    /\ At(a, "number")
    /\ \E i \in PacketId :
          /\ i = Cardinality(Assigned) + 1
          /\ call' = [call EXCEPT ![a].at = "open_packet", ![a].id = i]
    /\ UNCHANGED <<prd, refs, files, handed, bounds>>

\* _next_packet_id counts the files there are
number(a) ==
    /\ At(a, "number")
    /\ \E i \in PacketId :
          /\ i = Cardinality(Written(packets)) + 1
          /\ call' = [call EXCEPT ![a].at = "open_packet", ![a].id = i]
    /\ UNCHANGED <<prd, refs, files, handed, bounds>>

open_return(a) ==
    /\ At(a, "open_return") /\ Goto(a, "fill_return")
    /\ returns' = [returns EXCEPT ![call[a].key] = Torn]
    /\ UNCHANGED <<prd, refs, packets, log, handed, bounds>>

MutantAfterReturn(c) == "append"

\* a blocker also blocks its packet
AfterReturn(c) == IF c.verb = "return" /\ c.key \in Blockers THEN "open_packet" ELSE "append"

fill_return(a) ==
    /\ At(a, "fill_return") /\ Goto(a, AfterReturn(call[a]))
    /\ returns' = [returns EXCEPT ![call[a].key] = call[a].return]
    /\ UNCHANGED <<prd, refs, packets, log, handed, bounds>>

open_packet(a) ==
    /\ At(a, "open_packet") /\ Goto(a, "fill_packet")
    /\ packets' = [packets EXCEPT ![call[a].id] = Torn]
    /\ UNCHANGED <<prd, refs, returns, log, handed, bounds>>

MutantFillPacket(a) ==
    /\ At(a, "fill_packet") /\ Goto(a, "append")
    /\ packets' = [packets EXCEPT ![call[a].id] = call[a]]
    /\ handed' = handed \cup {<<call[a].packet.layer, call[a].packet.origin>>}
    /\ UNCHANGED <<prd, refs, returns, log, bounds>>

fill_packet(a) ==
    /\ At(a, "fill_packet") /\ Goto(a, "append")
    /\ packets' = [packets EXCEPT ![call[a].id] = call[a].packet]
    /\ handed' = handed \cup {<<call[a].packet.layer, call[a].packet.origin>>}
    /\ UNCHANGED <<prd, refs, returns, log, bounds>>

EntryOf(c) ==
    CASE c.verb = "dispatch" -> [event |-> "dispatch", id |-> c.id, layer |-> c.packet.layer]
      [] c.verb = "return" -> [event |-> "return", id |-> c.key, packet |-> c.id]
      [] c.verb = "ingest" -> [event |-> "ingest", id |-> c.key, decision |-> c.return.decision]

append_log(a) ==
    /\ At(a, "append")
    /\ log' = log \cup {EntryOf(call[a])}
    /\ call' = [call EXCEPT ![a] = NoCall]
    /\ UNCHANGED <<prd, refs, packets, returns, handed, bounds>>

crash(a) ==
    /\ call[a] # NoCall /\ crashes < MaxCrashes
    /\ call' = [call EXCEPT ![a] = NoCall]
    /\ crashes' = crashes + 1
    /\ UNCHANGED <<prd, refs, files, handed, byHand, slips>>

----------------------------------------------------------------------------
(* The owner: answering, approving and reopening sections, adding sources *)

answer(s) ==
    /\ \/ prd[s] = "blocked" /\ \E status \in {"partial", "ready"} : prd' = [prd EXCEPT ![s] = status]
       \/ prd[s] = "partial" /\ prd' = [prd EXCEPT ![s] = "ready"]
    /\ UNCHANGED <<refs, files, call, handed, bounds>>

reopen(s) ==
    /\ prd[s] # "blocked" /\ slips < MaxSlips
    /\ prd' = [prd EXCEPT ![s] = "blocked"]
    /\ slips' = slips + 1
    /\ UNCHANGED <<refs, files, call, handed, byHand, crashes>>

add_refs ==
    /\ ~ refs /\ refs' = TRUE
    /\ UNCHANGED <<prd, files, call, handed, bounds>>

----------------------------------------------------------------------------
Decide(a) == \E k \in Key, decision \in Decisions : ingest(a, k, decision)

Begin(a) ==
    \/ c00_orchestration_tick(a)
    \/ \E p \in HandPackets : dispatch_work_packet(a, p[1], p[2])
    \/ \E kind \in Kind, i \in PacketId : return_to_c00(a, kind, i)
    \/ Decide(a)

Write(a) ==
    \/ number(a) \/ open_return(a) \/ fill_return(a) \/ open_packet(a) \/ fill_packet(a)
    \/ append_log(a)

Next ==
    \/ \E a \in Agents : Begin(a) \/ Write(a) \/ crash(a)
    \/ \E s \in Sections : answer(s) \/ reopen(s)
    \/ add_refs

Spec == Init /\ [][Next]_vars

(* Nobody lets the flow lie while it can go on: a running verb goes on,    *)
(* the loop is ticked when it can dispatch, the owner answers, decides and *)
(* provides sources.  Dispatching by hand, returning work, reopening a     *)
(* section and dying owe nothing.                                          *)
Progress ==
    \/ \E a \in Agents : Write(a) \/ c00_orchestration_tick(a) \/ Decide(a)
    \/ \E s \in Sections : answer(s)
    \/ add_refs

FairSpec == Spec /\ WF_vars(Progress)

----------------------------------------------------------------------------
(* Properties *)

(* Files and running verbs have the shape the schemas give them.           *)
TypeOK ==
    /\ prd \in [Sections -> Status] /\ refs \in BOOLEAN
    /\ packets \in [PacketId -> WorkPacket \cup {NoFile, Torn}]
    /\ returns \in [Key -> Return \cup {NoFile, Torn}]
    /\ log \subseteq Entry
    /\ call \in [Agents -> Call \cup {NoCall}]
    /\ handed \subseteq DOWNSTREAM_CODES \X Origin
    /\ byHand \in 0 .. MaxByHand /\ slips \in 0 .. MaxSlips /\ crashes \in 0 .. MaxCrashes

(* The log is true: the file a logged event names holds what the event     *)
(* says, or is being rewritten.  Numbering by counting gives no number     *)
(* twice, and no decision that was logged is replaced.                     *)
LogIsTrue ==
    \A e \in log :
        CASE e.event = "dispatch" -> packets[e.id] # NoFile
                                     /\ (packets[e.id] # Torn => packets[e.id].layer = e.layer)
          [] e.event = "return" -> returns[e.id] # NoFile
                                   /\ (returns[e.id] # Torn => returns[e.id].packet = e.packet)
          [] e.event = "ingest" -> returns[e.id] \in Return /\ returns[e.id].decision = e.decision

(* Unless a verb was killed, a packet against which a blocker stands is    *)
(* marked blocked, as soon as the verb that returned it has ended.         *)
BlockedIsMarked ==
    crashes = 0 =>
        \A k \in Legible(returns) \cap Blockers :
            LET i == returns[k].packet IN
            \/ packets[i] = Torn
            \/ packets[i] # NoFile /\ packets[i].status = "blocked"
            \/ \E a \in Agents : call[a] # NoCall /\ call[a].verb = "return" /\ call[a].key = k

(* C00 takes the owner through the chain: unless a verb is killed, every   *)
(* layer is handed its work in the end, whatever the layers return and     *)
(* however often the owner changes an answer.                              *)
EverythingAssigned ==
    <>(DOWNSTREAM_CODES = {h[1] : h \in handed} \/ crashes > 0)

(* The files implement what C00 promises of the flow: work once, in order  *)
(* and not past an open blocker, decisions once and for all.               *)
Flow == INSTANCE DesignFlow WITH
    Layers <- DOWNSTREAM_CODES, Questions <- Key, Preempting <- Blockers,
    assigned <- {h[1] : h \in handed},
    driven <- {h[1] : h \in {g \in handed : g[2] = "loop"}},
    open <- {k \in Written(returns) : returns[k] = Torn \/ returns[k].decision = Undecided},
    decided <- {<<k, returns[k].decision>> :
                   k \in {q \in Legible(returns) : returns[q].decision # Undecided}}
ImplementsFlow == Flow!Spec

=============================================================================
