---------------------------- MODULE Spine_proofs ----------------------------
(***************************************************************************)
(* Proofs about the orchestration spine, for any PRD, any layers that      *)
(* return what and any bounds.  The shape of files and verbs, the numbers  *)
(* of files and what C04 waits for hold however many verbs run at once;    *)
(* what the log and the marks of the packets say, and the promise of       *)
(* DesignFlow, hold when verbs run one at a time, with a verb killed       *)
(* between any two of its writes.                                          *)
(***************************************************************************)
EXTENDS Spine, FiniteSetTheorems, TLAPS

----------------------------------------------------------------------------
(* The inductive invariant.  Files are numbered without gaps; a return     *)
(* names a packet that was written; a layer counts as handed its work when *)
(* a packet says so; and a running verb may rely, up to its last write, on *)
(* what it read when it started.                                           *)

(* A verb takes the steps of its kind, dispatch numbers its packet first,  *)
(* and only a blocker goes on to rewrite a packet.                         *)
DispatchStep == {"number", "open_packet", "fill_packet", "append"}
ReturnStep == {"open_return", "fill_return", "open_packet", "fill_packet", "append"}
IngestStep == {"open_return", "fill_return", "append"}
DispatchCall == [verb : {"dispatch"}, at : DispatchStep, id : PacketId \cup {0}, packet : WorkPacket]
ReturnCall == [verb : {"return"}, at : ReturnStep, id : PacketId, packet : WorkPacket, key : Key, return : Return]
IngestCall == [verb : {"ingest"}, at : IngestStep, key : Key, return : [packet : PacketId, decision : Decisions]]

InStep(c) ==
    \/ c = NoCall
    \/ c \in DispatchCall /\ (c.at # "number" => c.id \in PacketId)
    \/ c \in ReturnCall /\ (c.at \in {"open_packet", "fill_packet"} => c.key \in Blockers)
    \/ c \in IngestCall

TypeInv == TypeOK /\ \A a \in Agents : InStep(call[a])

OneVerb == \A a, b \in Agents : a = b

PacketsCounted == \A i, j \in PacketId : j < i /\ packets[i] # NoFile => packets[j] # NoFile

Series(k) == {j \in Key : j[1] = k[1] /\ j[2] = k[2]}
Follows(k) == \A j \in Series(k) : j[3] < k[3] => returns[j] # NoFile
ReturnsCounted == \A k \in Key : returns[k] # NoFile => Follows(k)

Referred == \A k \in Key : returns[k] \in Return => packets[returns[k].packet] # NoFile

(* What the log says, kind by kind.                                        *)
DispatchedTrue ==
    \A e \in log : e.event = "dispatch" =>
        /\ packets[e.id] # NoFile
        /\ packets[e.id] # Torn => packets[e.id].layer = e.layer
ReturnedTrue ==
    \A e \in log : e.event = "return" =>
        /\ returns[e.id] # NoFile
        /\ returns[e.id] # Torn => returns[e.id].packet = e.packet
IngestedTrue ==
    \A e \in log : e.event = "ingest" =>
        returns[e.id] \in Return /\ returns[e.id].decision = e.decision

Marked(i) == packets[i] = Torn \/ (packets[i] # NoFile /\ packets[i].status = "blocked")
Returns(c, k) == c # NoCall /\ c.verb = "return" /\ c.key = k
BlockersMarked ==
    crashes = 0 => \A k \in Blockers : returns[k] \in Return =>
        Marked(returns[k].packet) \/ \E a \in Agents : Returns(call[a], k)

(* A layer that was handed its work: the packet that says so is there, or  *)
(* was torn, and the verb that rewrites it will say so again.              *)
Rewrites(c, i) == c # NoCall /\ c.verb # "ingest" /\ c.at \in {"open_packet", "fill_packet"} /\ c.id = i
Says(i, l) ==
    /\ packets[i] # NoFile
    /\ packets[i] # Torn => packets[i].layer = l
    /\ \A a \in Agents : Rewrites(call[a], i) => call[a].packet.layer = l
HandedSays == \A h \in handed : \E i \in PacketId : Says(i, h[1])
PacketsHanded == \A i \in PacketId : packets[i] \in WorkPacket => <<packets[i].layer, packets[i].origin>> \in handed

Answered(k) == returns[k] = NoFile \/ (returns[k] \in Return /\ returns[k].decision # Undecided)
MayDrive(l) ==
    /\ \A k \in Blockers : Answered(k)
    /\ \A h \in handed : h[1] # l
    /\ \A u \in Upstream(l) : \E h \in handed : h[1] = u

(* What a running verb relies on.                                          *)
DispatchSound(a) ==
    LET c == call[a] IN
    /\ c.at # "append" /\ c.packet.origin = "loop" => MayDrive(c.packet.layer)
    /\ c.at = "open_packet" => packets[c.id] = NoFile /\ \A j \in PacketId : j < c.id => packets[j] # NoFile
    /\ c.at = "fill_packet" =>
          /\ packets[c.id] = Torn
          /\ \A e \in log : e.event = "dispatch" => e.id # c.id
          /\ \A k \in Key : returns[k] \in Return => returns[k].packet # c.id
    /\ c.at = "append" => packets[c.id] = c.packet

ReturnSound(a) ==
    LET c == call[a] IN
    /\ c.return = [packet |-> c.id, decision |-> Undecided]
    /\ c.packet.status = "blocked" /\ <<c.packet.layer, c.packet.origin>> \in handed
    /\ \A e \in log : e.event = "dispatch" /\ e.id = c.id => e.layer = c.packet.layer
    /\ c.at = "open_return" => returns[c.key] = NoFile /\ Follows(c.key)
    /\ c.at = "fill_return" => returns[c.key] = Torn
    /\ c.at \in {"open_return", "fill_return"} => \A e \in log : e.event # "dispatch" => e.id # c.key
    /\ c.at \notin {"open_return", "fill_return"} => returns[c.key] = c.return
    /\ c.at = "fill_packet" => packets[c.id] = Torn
    /\ c.at # "fill_packet" => packets[c.id] \in WorkPacket /\ packets[c.id].layer = c.packet.layer
    /\ c.at = "append" /\ c.key \in Blockers => packets[c.id] = c.packet

IngestSound(a) ==
    LET c == call[a] IN
    /\ c.at = "open_return" => returns[c.key] = [c.return EXCEPT !.decision = Undecided]
    /\ c.at = "fill_return" => returns[c.key] = Torn
    /\ c.at = "append" => returns[c.key] = c.return
    /\ \A e \in log : e.event = "return" /\ e.id = c.key => e.packet = c.return.packet
    /\ c.at # "append" => \A e \in log : e.event = "ingest" => e.id # c.key
    /\ packets[c.return.packet] # NoFile
    /\ crashes = 0 /\ c.key \in Blockers => Marked(c.return.packet)

CallSound(a) ==
    /\ call[a] \in DispatchCall => DispatchSound(a)
    /\ call[a] \in ReturnCall => ReturnSound(a)
    /\ call[a] \in IngestCall => IngestSound(a)

FilesSound == PacketsCounted /\ ReturnsCounted /\ Referred
LogSound == DispatchedTrue /\ ReturnedTrue /\ IngestedTrue
FlowSound == BlockersMarked /\ HandedSays /\ PacketsHanded
CallsSound == \A a \in Agents : CallSound(a)

Inv == TypeInv /\ FilesSound /\ LogSound /\ FlowSound /\ CallsSound

----------------------------------------------------------------------------
(* Shapes *)

LEMMA Distinct ==
    /\ NoFile # Torn
    /\ NoFile \notin WorkPacket /\ Torn \notin WorkPacket
    /\ NoFile \notin Return /\ Torn \notin Return
    /\ NoCall \notin DispatchCall /\ NoCall \notin ReturnCall /\ NoCall \notin IngestCall
BY DEF NoFile, Torn, WorkPacket, Return, NoCall, DispatchCall, ReturnCall, IngestCall

LEMMA StepCalls ==
    ASSUME NEW c, InStep(c)
    PROVE  c \in Call \cup {NoCall}
BY DEF InStep, DispatchCall, ReturnCall, IngestCall, DispatchStep, ReturnStep, IngestStep, Call, Step, Return

LEMMA EntryType ==
    ASSUME NEW c, InStep(c), c # NoCall, c.at = "append"
    PROVE  EntryOf(c) \in Entry
<1>1. CASE c \in DispatchCall /\ (c.at # "number" => c.id \in PacketId)
  <2>1. EntryOf(c) = [event |-> "dispatch", id |-> c.id, layer |-> c.packet.layer]
    BY <1>1 DEF EntryOf, DispatchCall
  <2>. QED BY <1>1, <2>1 DEF Entry, DispatchCall, WorkPacket
<1>2. CASE c \in ReturnCall
  <2>1. EntryOf(c) = [event |-> "return", id |-> c.key, packet |-> c.id]
    BY <1>2 DEF EntryOf, ReturnCall
  <2>. QED BY <1>2, <2>1 DEF Entry, ReturnCall
<1>3. CASE c \in IngestCall
  <2>1. EntryOf(c) = [event |-> "ingest", id |-> c.key, decision |-> c.return.decision]
    BY <1>3 DEF EntryOf, IngestCall
  <2>. QED BY <1>3, <2>1 DEF Entry, IngestCall
<1>. QED BY <1>1, <1>2, <1>3 DEF InStep

LEMMA InitTyped == Init => TypeInv
<1>. SUFFICES ASSUME Init PROVE TypeInv
  OBVIOUS
<1>1. TypeOK
  <2>1. MaxByHand \in Nat /\ MaxSlips \in Nat /\ MaxCrashes \in Nat
    BY SpineAssumption
  <2>2. 0 \in 0 .. MaxByHand /\ 0 \in 0 .. MaxSlips /\ 0 \in 0 .. MaxCrashes
    BY <2>1
  <2>. QED BY <2>2 DEF Init, TypeOK, Status
<1>. QED BY <1>1 DEF TypeInv, Init, InStep

(* Starting a verb and going on to its next step keep the others.          *)
LEMMA StartTyped ==
    ASSUME TypeInv, NEW a \in Agents, NEW c, InStep(c), Start(a, c)
    PROVE  call' \in [Agents -> Call \cup {NoCall}] /\ \A b \in Agents : InStep(call'[b])
BY StepCalls DEF TypeInv, TypeOK, Start

LEMMA SetCall ==
    ASSUME TypeInv, NEW a \in Agents, NEW c, InStep(c), call' = [call EXCEPT ![a] = c]
    PROVE  call' \in [Agents -> Call \cup {NoCall}] /\ \A b \in Agents : InStep(call'[b])
BY StepCalls DEF TypeInv, TypeOK

(* Where a verb is says which verb it is.                                  *)
LEMMA Whose ==
    ASSUME NEW c, InStep(c), c # NoCall
    PROVE  /\ c.at = "number" => c \in DispatchCall
           /\ c.at = "open_return" => c \in ReturnCall \cup IngestCall
           /\ c.at = "fill_return" => c \in ReturnCall \cup IngestCall
           /\ c.at = "open_packet" => c \in DispatchCall \cup ReturnCall /\ c.id \in PacketId
           /\ c.at = "fill_packet" => c \in DispatchCall \cup ReturnCall /\ c.id \in PacketId
           /\ c \in DispatchCall <=> c.verb = "dispatch"
           /\ c \in ReturnCall <=> c.verb = "return"
           /\ c \in IngestCall <=> c.verb = "ingest"
BY DEF InStep, DispatchCall, ReturnCall, IngestCall, DispatchStep, ReturnStep, IngestStep

(* A verb moved on to a step of its kind is in step.                       *)
LEMMA MovedOn ==
    ASSUME NEW c, InStep(c), c # NoCall, NEW step
    PROVE  /\ c \in DispatchCall /\ c.at # "number" /\ step \in {"fill_packet", "append"}
                => InStep([c EXCEPT !.at = step])
           /\ c \in ReturnCall /\ step \in {"fill_return", "append"} => InStep([c EXCEPT !.at = step])
           /\ c \in ReturnCall /\ c.key \in Blockers /\ step \in {"open_packet", "fill_packet"}
                => InStep([c EXCEPT !.at = step])
           /\ c \in IngestCall /\ step \in {"fill_return", "append"} => InStep([c EXCEPT !.at = step])
<1>. DEFINE d == [c EXCEPT !.at = step]
<1>1. ASSUME c \in DispatchCall, c.at # "number", step \in {"fill_packet", "append"} PROVE InStep(d)
  <2>1. c.id \in PacketId
    BY <1>1, Whose DEF InStep, ReturnCall, IngestCall, DispatchCall
  <2>2. d \in DispatchCall /\ d.id \in PacketId
    BY <1>1, <2>1 DEF DispatchCall, DispatchStep
  <2>. QED BY <2>2 DEF InStep
<1>2. ASSUME c \in ReturnCall, step \in {"fill_return", "append"} PROVE InStep(d)
  <2>1. d \in ReturnCall /\ d.at \notin {"open_packet", "fill_packet"}
    BY <1>2 DEF ReturnCall, ReturnStep
  <2>. QED BY <2>1 DEF InStep
<1>3. ASSUME c \in ReturnCall, c.key \in Blockers, step \in {"open_packet", "fill_packet"} PROVE InStep(d)
  <2>1. d \in ReturnCall /\ d.key \in Blockers
    BY <1>3 DEF ReturnCall, ReturnStep
  <2>. QED BY <2>1 DEF InStep
<1>4. ASSUME c \in IngestCall, step \in {"fill_return", "append"} PROVE InStep(d)
  <2>1. d \in IngestCall
    BY <1>4 DEF IngestCall, IngestStep
  <2>. QED BY <2>1 DEF InStep
<1>. QED BY <1>1, <1>2, <1>3, <1>4

LEMMA Went ==
    ASSUME TypeInv, NEW a \in Agents, NEW step, Goto(a, step)
    PROVE  call' = [call EXCEPT ![a] = [call[a] EXCEPT !.at = step]]
BY DEF Goto, TypeInv, TypeOK

LEMMA TickTyped ==
    ASSUME TypeInv, NEW a \in Agents, c00_orchestration_tick(a)
    PROVE  TypeInv'
<1>1. PICK l \in DOWNSTREAM_CODES : Start(a, NewPacket(l, "loop", "ready"))
  BY DEF c00_orchestration_tick
<1>2. InStep(NewPacket(l, "loop", "ready"))
  BY DEF NewPacket, InStep, DispatchCall, DispatchStep, WorkPacket, Origin, Status
<1>3. call' \in [Agents -> Call \cup {NoCall}] /\ \A b \in Agents : InStep(call'[b])
  BY <1>1, <1>2, StartTyped
<1>. QED BY <1>3 DEF c00_orchestration_tick, TypeInv, TypeOK, files, bounds

LEMMA DispatchTyped ==
    ASSUME TypeInv, NEW a \in Agents, NEW p \in HandPackets, dispatch_work_packet(a, p[1], p[2])
    PROVE  TypeInv'
<1>1. p[1] \in DOWNSTREAM_CODES /\ p[2] \in Status
  BY SpineAssumption
<1>2. InStep(NewPacket(p[1], "hand", p[2]))
  BY <1>1 DEF NewPacket, InStep, DispatchCall, DispatchStep, WorkPacket, Origin
<1>3. call' \in [Agents -> Call \cup {NoCall}] /\ \A b \in Agents : InStep(call'[b])
  BY <1>2, StartTyped DEF dispatch_work_packet
<1>4. byHand' \in 0 .. MaxByHand
  BY SpineAssumption DEF dispatch_work_packet, TypeInv, TypeOK
<1>. QED BY <1>3, <1>4 DEF dispatch_work_packet, TypeInv, TypeOK, files

LEMMA ReturnTyped ==
    ASSUME TypeInv, NEW a \in Agents, NEW kind \in Kind, NEW i \in PacketId, return_to_c00(a, kind, i)
    PROVE  TypeInv'
<1>. DEFINE l == packets[i].layer
            key == <<kind, l, Cardinality(Returned(kind, l)) + 1>>
            c == [verb |-> "return", at |-> "open_return", id |-> i, key |-> key,
                  packet |-> [packets[i] EXCEPT !.status = "blocked"],
                  return |-> [packet |-> i, decision |-> Undecided]]
<1>1. packets[i] \in WorkPacket /\ key \in Key /\ Start(a, c)
  BY DEF return_to_c00, Legible, Written, TypeInv, TypeOK
<1>2. [packets[i] EXCEPT !.status = "blocked"] \in WorkPacket
  BY <1>1 DEF WorkPacket, Status
<1>3. [packet |-> i, decision |-> Undecided] \in Return
  BY DEF Return
<1>4. InStep(c)
  <2>. HIDE DEF key
  <2>. QED BY <1>1, <1>2, <1>3 DEF InStep, ReturnCall, ReturnStep
<1>5. call' \in [Agents -> Call \cup {NoCall}] /\ \A b \in Agents : InStep(call'[b])
  <2>. HIDE DEF c
  <2>. QED BY <1>1, <1>4, StartTyped
<1>. QED BY <1>5 DEF return_to_c00, TypeInv, TypeOK, files, bounds

LEMMA IngestTyped ==
    ASSUME TypeInv, NEW a \in Agents, NEW k \in Key, NEW decision \in Decisions, ingest(a, k, decision)
    PROVE  TypeInv'
<1>. DEFINE c == [verb |-> "ingest", at |-> "open_return", key |-> k,
                  return |-> [returns[k] EXCEPT !.decision = decision]]
<1>1. returns[k] \in Return /\ Start(a, c)
  BY DEF ingest, Legible, Written, TypeInv, TypeOK
<1>2. [returns[k] EXCEPT !.decision = decision] \in [packet : PacketId, decision : Decisions]
  BY <1>1 DEF Return
<1>3. InStep(c)
  BY <1>2 DEF InStep, IngestCall, IngestStep
<1>4. call' \in [Agents -> Call \cup {NoCall}] /\ \A b \in Agents : InStep(call'[b])
  <2>. HIDE DEF c
  <2>. QED BY <1>1, <1>3, StartTyped
<1>. QED BY <1>4 DEF ingest, TypeInv, TypeOK, files, bounds

LEMMA WriteTyped ==
    ASSUME TypeInv, NEW a \in Agents, Write(a)
    PROVE  TypeInv'
<1>. DEFINE c == call[a]
<1>0. InStep(c)
  BY DEF TypeInv
<1>1. CASE number(a)
  <2>1. PICK i \in PacketId : call' = [call EXCEPT ![a].at = "open_packet", ![a].id = i]
    BY <1>1 DEF number
  <2>2. c \in DispatchCall
    BY <1>0, <1>1, Whose DEF number, At
  <2>. DEFINE d == [c EXCEPT !.at = "open_packet", !.id = i]
  <2>3. d \in DispatchCall /\ d.id \in PacketId
    BY <2>2 DEF DispatchCall, DispatchStep
  <2>4. InStep(d)
    BY <2>3 DEF InStep
  <2>5. call' = [call EXCEPT ![a] = d]
    BY <2>1 DEF TypeInv, TypeOK
  <2>6. call' \in [Agents -> Call \cup {NoCall}] /\ \A b \in Agents : InStep(call'[b])
    <3>. HIDE DEF d
    <3>. QED BY <2>4, <2>5, SetCall
  <2>. QED BY <1>1, <2>6 DEF number, TypeInv, TypeOK, files, bounds
<1>2. CASE open_return(a)
  <2>1. c \in ReturnCall \cup IngestCall
    BY <1>0, <1>2, Whose DEF open_return, At
  <2>2. InStep([c EXCEPT !.at = "fill_return"])
    BY <1>0, <1>2, <2>1, MovedOn DEF open_return, At
  <2>3. call' \in [Agents -> Call \cup {NoCall}] /\ \A b \in Agents : InStep(call'[b])
    BY <1>2, <2>2, Went, SetCall DEF open_return
  <2>4. returns' \in [Key -> Return \cup {NoFile, Torn}]
    BY <1>2 DEF open_return, TypeInv, TypeOK
  <2>. QED BY <1>2, <2>3, <2>4 DEF open_return, TypeInv, TypeOK, bounds
<1>3. CASE fill_return(a)
  <2>1. c \in ReturnCall \cup IngestCall /\ c # NoCall
    BY <1>0, <1>3, Whose DEF fill_return, At
  <2>2. InStep([c EXCEPT !.at = AfterReturn(c)])
    <3>1. c.verb = "return" => c \in ReturnCall
      BY <1>0, <2>1, Whose
    <3>2. CASE c.verb = "return" /\ c.key \in Blockers
      BY <1>0, <2>1, <3>1, <3>2, MovedOn DEF AfterReturn
    <3>3. CASE ~ (c.verb = "return" /\ c.key \in Blockers)
      BY <1>0, <2>1, <3>3, MovedOn DEF AfterReturn
    <3>. QED BY <3>2, <3>3
  <2>3. call' \in [Agents -> Call \cup {NoCall}] /\ \A b \in Agents : InStep(call'[b])
    BY <1>3, <2>2, Went, SetCall DEF fill_return
  <2>4. c.return \in Return
    BY <2>1 DEF ReturnCall, IngestCall, Return
  <2>5. returns' \in [Key -> Return \cup {NoFile, Torn}]
    BY <1>3, <2>4 DEF fill_return, TypeInv, TypeOK
  <2>. QED BY <1>3, <2>3, <2>5 DEF fill_return, TypeInv, TypeOK, bounds
<1>4. CASE open_packet(a)
  <2>1. c # NoCall /\ c.at = "open_packet"
    BY <1>4 DEF open_packet, At
  <2>2. c \in DispatchCall \/ (c \in ReturnCall /\ c.key \in Blockers)
    BY <1>0, <2>1 DEF InStep, IngestCall, IngestStep
  <2>3. InStep([c EXCEPT !.at = "fill_packet"])
    BY <1>0, <2>1, <2>2, MovedOn
  <2>4. call' \in [Agents -> Call \cup {NoCall}] /\ \A b \in Agents : InStep(call'[b])
    BY <1>4, <2>3, Went, SetCall DEF open_packet
  <2>5. packets' \in [PacketId -> WorkPacket \cup {NoFile, Torn}]
    BY <1>4 DEF open_packet, TypeInv, TypeOK
  <2>. QED BY <1>4, <2>4, <2>5 DEF open_packet, TypeInv, TypeOK, bounds
<1>5. CASE fill_packet(a)
  <2>1. c # NoCall /\ c.at = "fill_packet"
    BY <1>5 DEF fill_packet, At
  <2>2. c \in DispatchCall \cup ReturnCall /\ c.packet \in WorkPacket
    BY <1>0, <2>1, Whose DEF DispatchCall, ReturnCall
  <2>3. InStep([c EXCEPT !.at = "append"])
    BY <1>0, <2>1, <2>2, MovedOn
  <2>4. call' \in [Agents -> Call \cup {NoCall}] /\ \A b \in Agents : InStep(call'[b])
    BY <1>5, <2>3, Went, SetCall DEF fill_packet
  <2>5. packets' \in [PacketId -> WorkPacket \cup {NoFile, Torn}]
    BY <1>5, <2>2 DEF fill_packet, TypeInv, TypeOK
  <2>6. handed' \subseteq DOWNSTREAM_CODES \X Origin
    BY <1>5, <2>2 DEF fill_packet, TypeInv, TypeOK, WorkPacket
  <2>. QED BY <1>5, <2>4, <2>5, <2>6 DEF fill_packet, TypeInv, TypeOK, bounds
<1>6. CASE append_log(a)
  <2>1. c # NoCall /\ c.at = "append"
    BY <1>6 DEF append_log, At
  <2>2. log' \subseteq Entry
    BY <1>0, <1>6, <2>1, EntryType DEF append_log, TypeInv, TypeOK
  <2>3. call' \in [Agents -> Call \cup {NoCall}] /\ \A b \in Agents : InStep(call'[b])
    BY <1>6, SetCall DEF append_log, InStep
  <2>. QED BY <1>6, <2>2, <2>3 DEF append_log, TypeInv, TypeOK, bounds
<1>. QED BY <1>1, <1>2, <1>3, <1>4, <1>5, <1>6 DEF Write

LEMMA CrashTyped ==
    ASSUME TypeInv, NEW a \in Agents, crash(a)
    PROVE  TypeInv'
<1>1. call' \in [Agents -> Call \cup {NoCall}] /\ \A b \in Agents : InStep(call'[b])
  BY SetCall DEF crash, InStep
<1>2. crashes' \in 0 .. MaxCrashes
  BY SpineAssumption DEF crash, TypeInv, TypeOK
<1>. QED BY <1>1, <1>2 DEF crash, TypeInv, TypeOK, files

LEMMA OwnerTyped ==
    ASSUME TypeInv, \/ \E s \in Sections : answer(s) \/ reopen(s)
                    \/ add_refs
                    \/ UNCHANGED vars
    PROVE  TypeInv'
<1>1. ASSUME NEW s \in Sections, answer(s) PROVE TypeInv'
  BY <1>1 DEF answer, TypeInv, TypeOK, Status, files, bounds
<1>2. ASSUME NEW s \in Sections, reopen(s) PROVE TypeInv'
  <2>1. slips' \in 0 .. MaxSlips
    BY <1>2, SpineAssumption DEF reopen, TypeInv, TypeOK
  <2>. QED BY <1>2, <2>1 DEF reopen, TypeInv, TypeOK, Status, files
<1>3. CASE add_refs
  BY <1>3 DEF add_refs, TypeInv, TypeOK, files, bounds
<1>4. CASE UNCHANGED vars
  BY <1>4 DEF vars, TypeInv, TypeOK, files, bounds
<1>. QED BY <1>1, <1>2, <1>3, <1>4

LEMMA NextTyped == TypeInv /\ [Next]_vars => TypeInv'
<1>. SUFFICES ASSUME TypeInv, [Next]_vars PROVE TypeInv'
  OBVIOUS
<1>1. ASSUME NEW a \in Agents, Begin(a) \/ Write(a) \/ crash(a) PROVE TypeInv'
  <2>1. ASSUME NEW p \in HandPackets, dispatch_work_packet(a, p[1], p[2]) PROVE TypeInv'
    BY <2>1, DispatchTyped
  <2>2. ASSUME NEW kind \in Kind, NEW i \in PacketId, return_to_c00(a, kind, i) PROVE TypeInv'
    BY <2>2, ReturnTyped
  <2>3. ASSUME NEW k \in Key, NEW decision \in Decisions, ingest(a, k, decision) PROVE TypeInv'
    BY <2>3, IngestTyped
  <2>. QED BY <1>1, <2>1, <2>2, <2>3, TickTyped, WriteTyped, CrashTyped DEF Begin, Decide
<1>. QED BY <1>1, OwnerTyped DEF Next

(* Files and running verbs have their shapes, however many verbs run.      *)
THEOREM TypeCorrect == Spec => []TypeOK
<1>1. TypeInv => TypeOK
  BY DEF TypeInv
<1>. QED BY <1>1, InitTyped, NextTyped, PTL DEF Spec

----------------------------------------------------------------------------
(* Numbering by counting *)

LEMMA UpTo ==
    ASSUME NEW n \in Nat
    PROVE  IsFiniteSet(1 .. n) /\ Cardinality(1 .. n) = n
<1>1. 1 \in Int /\ n \in Int
  OBVIOUS
<1>2. IsFiniteSet(1 .. n) /\ Cardinality(1 .. n) = IF 1 > n THEN 0 ELSE n - 1 + 1
  BY <1>1, FS_Interval
<1>. QED BY <1>2

(* A set of numbers without gaps is an initial segment: what counting it   *)
(* gives is its largest number.                                            *)
LEMMA Counting ==
    ASSUME NEW N \in Nat, NEW S \in SUBSET (1 .. N),
           \A i \in S, j \in 1 .. N : j < i => j \in S
    PROVE  /\ IsFiniteSet(S) /\ Cardinality(S) \in Nat
           /\ S = 1 .. Cardinality(S)
<1>. DEFINE n == Cardinality(S)
<1>2. IsFiniteSet(S) /\ n \in Nat
  <2>1. IsFiniteSet(S)
    BY UpTo, FS_Subset
  <2>. QED BY <2>1, FS_CardinalityType
<1>3. n + 1 \notin S
  <2>1. SUFFICES ASSUME n + 1 \in S PROVE FALSE
    OBVIOUS
  <2>2. 1 .. n + 1 \in SUBSET S
    BY <1>2, <2>1
  <2>3. Cardinality(1 .. n + 1) = n + 1
    BY <1>2, UpTo
  <2>4. Cardinality(1 .. n + 1) <= n
    BY <1>2, <2>2, FS_Subset
  <2>. QED BY <1>2, <2>3, <2>4
<1>4. ASSUME NEW m \in 1 .. n PROVE m \in S
  <2>1. SUFFICES ASSUME m \notin S PROVE FALSE
    OBVIOUS
  <2>2. S \in SUBSET (1 .. m - 1)
    BY <1>2, <2>1
  <2>3. m - 1 \in Nat
    BY <1>2
  <2>. DEFINE k == m - 1
  <2>. HIDE DEF k
  <2>4. IsFiniteSet(1 .. k) /\ Cardinality(1 .. k) = k
    BY <2>3, UpTo DEF k
  <2>5. n <= k
    BY <2>2, <2>4, FS_Subset DEF k
  <2>. QED BY <1>2, <2>5 DEF k
<1>5. ASSUME NEW m \in S PROVE m \in 1 .. n
  BY <1>2, <1>3
<1>. QED BY <1>2, <1>4, <1>5

LEMMA PacketNumbers == Cardinality(DOWNSTREAM_CODES) + MaxByHand \in Nat
<1>1. MaxByHand \in Nat
  BY SpineAssumption
<1>2. Cardinality(1 .. 6) = 6
  BY UpTo
<1>. QED BY <1>1, <1>2 DEF DOWNSTREAM_CODES

(* _next_packet_id gives the first free number.                            *)
LEMMA NextPacketId ==
    ASSUME TypeInv, PacketsCounted, NEW i \in PacketId, i = Cardinality(Written(packets)) + 1
    PROVE  packets[i] = NoFile /\ \A j \in PacketId : j < i => packets[j] # NoFile
<1>1. Written(packets) = {j \in PacketId : packets[j] # NoFile}
  BY DEF Written, TypeInv, TypeOK
<1>2. /\ Cardinality(Written(packets)) \in Nat
      /\ Written(packets) = 1 .. Cardinality(Written(packets))
  <2>1. \A m \in Written(packets), j \in PacketId : j < m => j \in Written(packets)
    BY <1>1 DEF PacketsCounted
  <2>. DEFINE N == Cardinality(DOWNSTREAM_CODES) + MaxByHand
              W == Written(packets)
  <2>2. N \in Nat /\ W \in SUBSET (1 .. N) /\ \A m \in W, j \in 1 .. N : j < m => j \in W
    BY <1>1, <2>1, PacketNumbers DEF PacketId
  <2>. HIDE DEF N, W
  <2>3. Cardinality(W) \in Nat /\ W = 1 .. Cardinality(W)
    BY <2>2, Counting
  <2>. QED BY <2>3 DEF W
<1>. DEFINE n == Cardinality(Written(packets))
<1>3. \A j \in PacketId : j \in Nat /\ j >= 1
  BY PacketNumbers DEF PacketId
<1>. HIDE DEF n
<1>4. n \in Nat /\ i = n + 1 /\ i \notin 1 .. n /\ \A j \in PacketId : j < i => j \in 1 .. n
  <2>1. n \in Nat /\ i = n + 1
    BY <1>2 DEF n
  <2>. QED BY <2>1, <1>3
<1>5. i \notin Written(packets) /\ \A j \in PacketId : j < i => j \in Written(packets)
  BY <1>2, <1>4 DEF n
<1>. QED BY <1>1, <1>5

(* So does counting the returns of one kind and layer.                     *)
LEMMA NextReturnId ==
    ASSUME TypeInv, ReturnsCounted, NEW kind \in Kind, NEW l,
           NEW key \in Key, key = <<kind, l, Cardinality(Returned(kind, l)) + 1>>
    PROVE  returns[key] = NoFile /\ Follows(key)
<1>. DEFINE S == {n \in 1 .. MaxReturns : <<kind, l, n>> \in Returned(kind, l)}
            f == [n \in S |-> <<kind, l, n>>]
<1>0. MaxReturns \in Nat
  BY SpineAssumption
<1>1. Returned(kind, l) = {k \in Key : returns[k] # NoFile /\ k[1] = kind /\ k[2] = l}
  BY DEF Returned, Written, TypeInv, TypeOK
<1>2. \A k \in Returned(kind, l) : k = <<kind, l, k[3]>> /\ k[3] \in S
  BY <1>1 DEF Key
<1>3. f \in Bijection(S, Returned(kind, l))
  BY <1>2 DEF Bijection, Injection, Surjection, IsInjective
<1>4. ASSUME NEW i \in S, NEW j \in 1 .. MaxReturns, j < i PROVE j \in S
  <2>1. <<kind, l, i>> \in Key /\ returns[<<kind, l, i>>] # NoFile
    BY <1>1
  <2>2. <<kind, l, j>> \in Key
    BY <2>1 DEF Key
  <2>3. returns[<<kind, l, j>>] # NoFile
    BY <1>4, <2>1, <2>2 DEF ReturnsCounted, Follows, Series
  <2>. QED BY <1>1, <2>2, <2>3
<1>5. IsFiniteSet(S) /\ Cardinality(S) \in Nat /\ S = 1 .. Cardinality(S)
  <2>. HIDE DEF S
  <2>. QED BY <1>0, <1>4, Counting DEF S
<1>6. Cardinality(Returned(kind, l)) = Cardinality(S)
  BY <1>3, <1>5, FS_Bijection DEF ExistsBijection
<1>. DEFINE m == Cardinality(S)
<1>. HIDE DEF S
<1>7. key = <<kind, l, m + 1>> /\ m \in Nat /\ m + 1 \notin S
  BY <1>5, <1>6
<1>8. returns[key] = NoFile
  BY <1>1, <1>2, <1>7
<1>9. ASSUME NEW j \in Key, j[1] = kind, j[2] = l, j[3] < m + 1 PROVE returns[j] # NoFile
  <2>1. j = <<kind, l, j[3]>> /\ j[3] \in 1 .. MaxReturns
    BY <1>9 DEF Key
  <2>2. j[3] \in S
    BY <1>5, <1>9, <2>1
  <2>. QED BY <1>1, <2>1, <2>2 DEF S
<1>. QED BY <1>7, <1>8, <1>9 DEF Follows, Series

----------------------------------------------------------------------------
(* One verb at a time: each step keeps the invariant *)

LEMMA Files ==
    ASSUME TypeInv
    PROVE  /\ \A i \in PacketId : packets[i] \in WorkPacket \/ packets[i] = NoFile \/ packets[i] = Torn
           /\ \A k \in Key : returns[k] \in Return \/ returns[k] = NoFile \/ returns[k] = Torn
           /\ Blockers \subseteq Key
           /\ DOMAIN packets = PacketId /\ DOMAIN returns = Key
BY DEF TypeInv, TypeOK, Blockers

LEMMA InitSound == Init => Inv
<1>. SUFFICES ASSUME Init PROVE Inv
  OBVIOUS
<1>1. TypeInv
  BY InitTyped
<1>2. FilesSound
  BY Distinct DEF Init, FilesSound, PacketsCounted, ReturnsCounted, Referred
<1>3. LogSound
  BY DEF Init, LogSound, DispatchedTrue, ReturnedTrue, IngestedTrue
<1>4. FlowSound
  BY Distinct, Files, <1>1 DEF Init, FlowSound, BlockersMarked, HandedSays, PacketsHanded
<1>5. CallsSound
  BY Distinct DEF Init, CallsSound, CallSound
<1>. QED BY <1>1, <1>2, <1>3, <1>4, <1>5 DEF Inv

(* A step that touches no file.                                            *)
LEMMA CallOnly ==
    ASSUME OneVerb, Inv, TypeInv', NEW a \in Agents,
           UNCHANGED <<packets, returns, log, handed, crashes>>,
           \A k \in Key : ~ Returns(call[a], k),
           \A i \in PacketId : Rewrites(call'[a], i) => packets[i] = NoFile,
           CallSound(a)'
    PROVE  Inv'
<1>1. FilesSound'
  BY DEF Inv, FilesSound, PacketsCounted, ReturnsCounted, Follows, Referred
<1>2. LogSound'
  BY DEF Inv, LogSound, DispatchedTrue, ReturnedTrue, IngestedTrue
<1>3. BlockersMarked'
  BY Files DEF Inv, FlowSound, BlockersMarked, Marked, OneVerb
<1>4. HandedSays'
  BY DEF Inv, FlowSound, HandedSays, Says, OneVerb
<1>5. PacketsHanded'
  BY DEF Inv, FlowSound, PacketsHanded
<1>6. CallsSound'
  BY DEF CallsSound, OneVerb
<1>. QED BY <1>1, <1>2, <1>3, <1>4, <1>5, <1>6 DEF Inv, FlowSound

LEMMA TickKeeps ==
    ASSUME OneVerb, Inv, TypeInv', NEW a \in Agents, c00_orchestration_tick(a)
    PROVE  Inv'
<1>1. PICK l \in DOWNSTREAM_CODES : Chosen(l) /\ Start(a, NewPacket(l, "loop", "ready"))
  BY DEF c00_orchestration_tick
<1>2. UNCHANGED <<packets, returns, log, handed, crashes>>
  BY DEF c00_orchestration_tick, files, bounds
<1>. DEFINE c == NewPacket(l, "loop", "ready")
<1>3. call[a] = NoCall /\ call'[a] = c
  BY <1>1 DEF Start, Inv, TypeInv, TypeOK
<1>4. \A k \in Blockers : Answered(k)
  BY <1>1, Files DEF Chosen, Readable, Preempted, Unresolved, Legible, Written, Answered, Inv
<1>5. \A i \in PacketId : packets[i] # Torn
  BY <1>1, Files, Distinct DEF Chosen, Readable, Legible, Written, Inv
<1>6. \A h \in handed : h[1] # l
  BY <1>1, <1>5, Files DEF Chosen, Assigned, Legible, Written, Inv, FlowSound, HandedSays, Says
<1>7. ASSUME NEW u \in Assigned PROVE \E h \in handed : h[1] = u
  <2>1. PICK i \in PacketId : packets[i] \in WorkPacket /\ u = packets[i].layer
    BY Files DEF Assigned, Legible, Written, Inv
  <2>2. <<packets[i].layer, packets[i].origin>> \in handed
    BY <2>1 DEF Inv, FlowSound, PacketsHanded
  <2>. QED BY <2>1, <2>2
<1>8. Upstream(l) \subseteq Assigned
  BY <1>1, SpineAssumption DEF Chosen, Dispatchable
<1>9. MayDrive(l)'
  BY <1>2, <1>4, <1>6, <1>7, <1>8 DEF MayDrive, Answered
<1>10. CallSound(a)'
  BY <1>3, <1>9 DEF CallSound, DispatchSound, ReturnCall, IngestCall, NewPacket
<1>11. \A k \in Key : ~ Returns(call[a], k)
  BY <1>3 DEF Returns
<1>12. \A i \in PacketId : ~ Rewrites(call'[a], i)
  BY <1>3 DEF Rewrites, NewPacket
<1>. QED BY <1>2, <1>10, <1>11, <1>12, CallOnly

LEMMA DispatchKeeps ==
    ASSUME OneVerb, Inv, TypeInv', NEW a \in Agents, NEW p \in HandPackets,
           dispatch_work_packet(a, p[1], p[2])
    PROVE  Inv'
<1>. DEFINE c == NewPacket(p[1], "hand", p[2])
<1>1. UNCHANGED <<packets, returns, log, handed, crashes>>
  BY DEF dispatch_work_packet, files
<1>2. call[a] = NoCall /\ call'[a] = c
  BY DEF dispatch_work_packet, Start, Inv, TypeInv, TypeOK
<1>3. CallSound(a)'
  BY <1>2 DEF CallSound, DispatchSound, ReturnCall, IngestCall, NewPacket
<1>4. \A k \in Key : ~ Returns(call[a], k)
  BY <1>2 DEF Returns
<1>5. \A i \in PacketId : ~ Rewrites(call'[a], i)
  BY <1>2 DEF Rewrites, NewPacket
<1>. QED BY <1>1, <1>3, <1>4, <1>5, CallOnly

LEMMA ReturnKeeps ==
    ASSUME OneVerb, Inv, TypeInv', NEW a \in Agents, NEW kind \in Kind, NEW i \in PacketId,
           return_to_c00(a, kind, i)
    PROVE  Inv'
<1>. DEFINE key == <<kind, packets[i].layer, Cardinality(Returned(kind, packets[i].layer)) + 1>>
<1>1. UNCHANGED <<packets, returns, log, handed, crashes>>
  BY DEF return_to_c00, files, bounds
<1>2. /\ packets[i] \in WorkPacket /\ key \in Key /\ call[a] = NoCall
      /\ call'[a] = [verb |-> "return", at |-> "open_return", id |-> i, key |-> key,
                     packet |-> [packets[i] EXCEPT !.status = "blocked"],
                     return |-> [packet |-> i, decision |-> Undecided]]
  BY Files DEF return_to_c00, Start, Legible, Written, Inv, TypeInv, TypeOK
<1>3. returns[key] = NoFile /\ Follows(key)
  <2>. DEFINE l == packets[i].layer
  <2>. HIDE DEF l
  <2>1. key = <<kind, l, Cardinality(Returned(kind, l)) + 1>>
    BY DEF l
  <2>. HIDE DEF key
  <2>. QED BY <1>2, <2>1, NextReturnId DEF Inv, FilesSound
<1>. HIDE DEF key
<1>4. \A e \in log : e.event # "dispatch" => e.id # key
  <2>. SUFFICES ASSUME NEW e \in log, e.event # "dispatch" PROVE e.id # key
    OBVIOUS
  <2>1. e.event = "return" \/ e.event = "ingest"
    BY DEF Inv, TypeInv, TypeOK, Entry
  <2>. QED BY <1>3, <2>1, Distinct DEF Inv, LogSound, ReturnedTrue, IngestedTrue
<1>5. \A e \in log : e.event = "dispatch" /\ e.id = i => e.layer = packets[i].layer
  BY <1>2, Distinct DEF Inv, LogSound, DispatchedTrue
<1>6. <<packets[i].layer, packets[i].origin>> \in handed
  BY <1>2 DEF Inv, FlowSound, PacketsHanded
<1>7. /\ [packets[i] EXCEPT !.status = "blocked"].status = "blocked"
      /\ [packets[i] EXCEPT !.status = "blocked"].layer = packets[i].layer
      /\ [packets[i] EXCEPT !.status = "blocked"].origin = packets[i].origin
  BY <1>2 DEF WorkPacket
<1>8. CallSound(a)'
  <2>. DEFINE c == call'[a]
              pk == [packets[i] EXCEPT !.status = "blocked"]
  <2>1. /\ pk.status = "blocked" /\ pk.layer = packets[i].layer /\ pk.origin = packets[i].origin
        /\ c = [verb |-> "return", at |-> "open_return", id |-> i, key |-> key, packet |-> pk,
                return |-> [packet |-> i, decision |-> Undecided]]
    BY <1>2, <1>7
  <2>. HIDE DEF pk, c
  <2>2. /\ c.at = "open_return" /\ c.id = i /\ c.key = key
        /\ c.return = [packet |-> i, decision |-> Undecided]
        /\ c.packet.status = "blocked" /\ c.packet.layer = packets[i].layer
        /\ c.packet.origin = packets[i].origin
    BY <2>1
  <2>3. \A e \in log' : e.event = "dispatch" /\ e.id = c.id => e.layer = c.packet.layer
    BY <1>1, <1>5, <2>2
  <2>4. returns'[c.key] = NoFile /\ \A j \in Series(c.key) : j[3] < c.key[3] => returns'[j] # NoFile
    BY <1>1, <1>3, <2>2 DEF Follows
  <2>5. \A e \in log' : e.event # "dispatch" => e.id # c.key
    BY <1>1, <1>4, <2>2
  <2>6. packets'[c.id] \in WorkPacket /\ packets'[c.id].layer = c.packet.layer
    BY <1>1, <1>2, <2>2
  <2>7. <<c.packet.layer, c.packet.origin>> \in handed'
    BY <1>1, <1>6, <2>2
  <2>8. ReturnSound(a)'
    BY <2>2, <2>3, <2>4, <2>5, <2>6, <2>7 DEF ReturnSound, Follows, c
  <2>. QED BY <1>2, <2>8 DEF CallSound, DispatchCall, IngestCall
<1>9. \A k \in Key : ~ Returns(call[a], k)
  BY <1>2 DEF Returns
<1>10. \A j \in PacketId : ~ Rewrites(call'[a], j)
  BY <1>2 DEF Rewrites
<1>. QED BY <1>1, <1>8, <1>9, <1>10, CallOnly

LEMMA IngestKeeps ==
    ASSUME OneVerb, Inv, TypeInv', NEW a \in Agents, NEW k \in Key, NEW decision \in Decisions,
           ingest(a, k, decision)
    PROVE  Inv'
<1>1. UNCHANGED <<packets, returns, log, handed, crashes>>
  BY DEF ingest, files, bounds
<1>. DEFINE new == [returns[k] EXCEPT !.decision = decision]
<1>2. /\ returns[k] \in Return /\ returns[k].decision = Undecided /\ call[a] = NoCall
      /\ call'[a] = [verb |-> "ingest", at |-> "open_return", key |-> k, return |-> new]
  BY Files DEF ingest, Start, Legible, Written, Inv, TypeInv, TypeOK
<1>3. new.packet = returns[k].packet /\ returns[k] = [new EXCEPT !.decision = Undecided]
  BY <1>2 DEF Return
<1>. HIDE DEF new
<1>4. \A e \in log : e.event = "return" /\ e.id = k => e.packet = new.packet
  BY <1>2, <1>3, Distinct DEF Inv, LogSound, ReturnedTrue
<1>5. \A e \in log : e.event = "ingest" => e.id # k
  <2>. SUFFICES ASSUME NEW e \in log, e.event = "ingest", e.id = k PROVE FALSE
    OBVIOUS
  <2>1. e.decision \in Decisions
    BY DEF Inv, TypeInv, TypeOK, Entry
  <2>. QED BY <1>2, <2>1, SpineAssumption DEF Inv, LogSound, IngestedTrue
<1>6. packets[new.packet] # NoFile
  BY <1>2, <1>3 DEF Inv, FilesSound, Referred
<1>7. crashes = 0 /\ k \in Blockers => Marked(new.packet)
  BY <1>2, <1>3 DEF Inv, FlowSound, BlockersMarked, Returns, OneVerb
<1>9. CallSound(a)'
  <2>1. IngestSound(a)'
    BY <1>1, <1>2, <1>3, <1>4, <1>5, <1>6, <1>7 DEF IngestSound, Marked
  <2>. QED BY <1>2, <2>1 DEF CallSound, DispatchCall, ReturnCall
<1>10. \A j \in Key : ~ Returns(call[a], j)
  BY <1>2 DEF Returns
<1>11. \A j \in PacketId : ~ Rewrites(call'[a], j)
  BY <1>2 DEF Rewrites
<1>. QED BY <1>1, <1>9, <1>10, <1>11, CallOnly

LEMMA NumberKeeps ==
    ASSUME OneVerb, Inv, TypeInv', NEW a \in Agents, number(a)
    PROVE  Inv'
<1>1. UNCHANGED <<packets, returns, log, handed, crashes>>
  BY DEF number, files, bounds
<1>2. PICK i \in PacketId : /\ i = Cardinality(Written(packets)) + 1
                            /\ call' = [call EXCEPT ![a].at = "open_packet", ![a].id = i]
  BY DEF number
<1>3. packets[i] = NoFile /\ \A j \in PacketId : j < i => packets[j] # NoFile
  BY <1>2, NextPacketId DEF Inv, FilesSound
<1>4. call[a] \in DispatchCall /\ call[a].at = "number"
  BY Whose DEF number, At, Inv, TypeInv
<1>5. /\ call'[a] \in DispatchCall /\ call'[a].at = "open_packet" /\ call'[a].id = i
      /\ call'[a].packet = call[a].packet
  BY <1>2, <1>4 DEF DispatchCall, DispatchStep, Inv, TypeInv, TypeOK
<1>6. call[a].packet.origin = "loop" => MayDrive(call[a].packet.layer)
  BY <1>4 DEF Inv, CallsSound, CallSound, DispatchSound
<1>7. CallSound(a)'
  <2>1. DispatchSound(a)'
    BY <1>1, <1>3, <1>5, <1>6 DEF DispatchSound, MayDrive, Answered
  <2>. QED BY <1>5, <2>1 DEF CallSound, DispatchCall, ReturnCall, IngestCall
<1>8. \A k \in Key : ~ Returns(call[a], k)
  BY <1>4 DEF Returns, DispatchCall
<1>9. \A j \in PacketId : Rewrites(call'[a], j) => packets[j] = NoFile
  BY <1>3, <1>5 DEF Rewrites
<1>. QED BY <1>1, <1>7, <1>8, <1>9, CallOnly

(* What going on to the next step leaves of a verb.                        *)
LEMMA Onward ==
    ASSUME TypeInv, NEW a \in Agents, NEW step, Goto(a, step), call[a] # NoCall
    PROVE  /\ call'[a].at = step /\ call'[a].verb = call[a].verb
           /\ call[a] \in DispatchCall => /\ call'[a].id = call[a].id /\ call'[a].packet = call[a].packet
           /\ call[a] \in ReturnCall =>
                 /\ call'[a].id = call[a].id /\ call'[a].packet = call[a].packet
                 /\ call'[a].key = call[a].key /\ call'[a].return = call[a].return
           /\ call[a] \in IngestCall => /\ call'[a].key = call[a].key /\ call'[a].return = call[a].return
           /\ call'[a] # NoCall
<1>1. call'[a] = [call[a] EXCEPT !.at = step]
  BY DEF Goto, TypeInv, TypeOK
<1>2. call[a] \in DispatchCall \cup ReturnCall \cup IngestCall
  BY DEF TypeInv, InStep
<1>. QED BY <1>1, <1>2 DEF DispatchCall, ReturnCall, IngestCall, NoCall

(* A step of the running verb that only goes on and writes one file.       *)
LEMMA SameVerb ==
    ASSUME TypeInv, TypeInv', NEW a \in Agents, call[a] # NoCall, call'[a] # NoCall,
           call'[a].verb = call[a].verb
    PROVE  /\ call'[a] \in DispatchCall <=> call[a] \in DispatchCall
           /\ call'[a] \in ReturnCall <=> call[a] \in ReturnCall
           /\ call'[a] \in IngestCall <=> call[a] \in IngestCall
BY Whose DEF TypeInv

LEMMA OpenReturnKeeps ==
    ASSUME OneVerb, Inv, TypeInv', NEW a \in Agents, open_return(a)
    PROVE  Inv'
<1>. DEFINE c == call[a]
            d == call'[a]
<1>1. /\ UNCHANGED <<packets, log, handed, crashes>>
      /\ returns' = [returns EXCEPT ![c.key] = Torn]
      /\ c # NoCall /\ c.at = "open_return" /\ Goto(a, "fill_return")
  BY DEF open_return, At, bounds
<1>2. c \in ReturnCall \cup IngestCall /\ c.key \in Key
  BY <1>1, Whose DEF Inv, TypeInv, ReturnCall, IngestCall
<1>3. /\ d.at = "fill_return" /\ d # NoCall /\ d.verb = c.verb /\ d.key = c.key /\ d.return = c.return
      /\ c \in ReturnCall => d.id = c.id /\ d.packet = c.packet
  BY <1>1, <1>2, Onward DEF Inv
<1>4. (d \in ReturnCall <=> c \in ReturnCall) /\ (d \in IngestCall <=> c \in IngestCall) /\ d \notin DispatchCall
  BY <1>1, <1>2, <1>3, SameVerb, Whose DEF Inv, TypeInv, ReturnCall, IngestCall, DispatchCall
<1>5. (c \in ReturnCall => ReturnSound(a)) /\ (c \in IngestCall => IngestSound(a))
  BY DEF Inv, CallsSound, CallSound
<1>. HIDE DEF c, d
<1>6. returns'[c.key] = Torn /\ \A k \in Key : k # c.key => returns'[k] = returns[k]
  BY <1>1, <1>2 DEF Inv, TypeInv, TypeOK
<1>7. Follows(c.key)
  BY <1>1, <1>2, <1>5, Distinct DEF ReturnSound, IngestSound, Inv, FilesSound, ReturnsCounted, IngestCall, Return, NoFile, c
<1>8. \A e \in log : e.event = "ingest" => e.id # c.key
  BY <1>1, <1>2, <1>5 DEF ReturnSound, IngestSound, c
<1>9. FilesSound'
  <2>1. \A k \in Key : returns[k] # NoFile => returns'[k] # NoFile
    BY <1>6, Distinct
  <2>2. ReturnsCounted'
    BY <1>6, <1>7, <2>1 DEF ReturnsCounted, Follows, Series, Inv, FilesSound
  <2>3. Referred'
    BY <1>1, <1>6, Distinct DEF Referred, Inv, FilesSound
  <2>. QED BY <1>1, <2>2, <2>3 DEF FilesSound, PacketsCounted, Inv
<1>10. LogSound'
  <2>0. \A e \in log : e.event # "dispatch" => e.id \in Key
    BY DEF Inv, TypeInv, TypeOK, Entry
  <2>1. DispatchedTrue'
    BY <1>1 DEF Inv, LogSound, DispatchedTrue
  <2>2. ReturnedTrue'
    BY <1>1, <1>6, <2>0, Distinct DEF Inv, LogSound, ReturnedTrue
  <2>3. IngestedTrue'
    BY <1>1, <1>6, <1>8, <2>0 DEF Inv, LogSound, IngestedTrue
  <2>. QED BY <2>1, <2>2, <2>3 DEF LogSound
<1>11. FlowSound'
  <2>1. BlockersMarked'
    <3>. SUFFICES ASSUME crashes = 0, NEW k \in Blockers, returns'[k] \in Return
                  PROVE  (\/ Marked(returns[k].packet) \/ \E b \in Agents : Returns(call[b], k))
                         => (Marked(returns[k].packet)' \/ \E b \in Agents : Returns(call'[b], k))
      BY <1>1, <1>6, Distinct, Files DEF BlockersMarked, Inv, FlowSound
    <3>. QED BY <1>1, <1>3, <1>6, Distinct, Files DEF Marked, Returns, OneVerb, Inv, c, d
  <2>2. \A i \in PacketId : ~ Rewrites(d, i)
    BY <1>3 DEF Rewrites
  <2>3. HandedSays'
    BY <1>1, <2>2 DEF HandedSays, Says, OneVerb, Inv, FlowSound, d
  <2>4. PacketsHanded'
    BY <1>1 DEF PacketsHanded, Inv, FlowSound
  <2>. QED BY <2>1, <2>3, <2>4 DEF FlowSound
<1>12. CallSound(a)'
  <2>1. ASSUME c \in ReturnCall PROVE ReturnSound(a)'
    BY <1>1, <1>3, <1>5, <1>6, <2>1 DEF ReturnSound, c, d
  <2>2. ASSUME c \in IngestCall PROVE IngestSound(a)'
    BY <1>1, <1>3, <1>5, <1>6, <2>2 DEF IngestSound, Marked, c, d
  <2>. QED BY <1>4, <2>1, <2>2 DEF CallSound, d
<1>. QED BY <1>9, <1>10, <1>11, <1>12 DEF Inv, CallsSound, OneVerb

LEMMA FillReturnKeeps ==
    ASSUME OneVerb, Inv, TypeInv', NEW a \in Agents, fill_return(a)
    PROVE  Inv'
<1>. DEFINE c == call[a]
            d == call'[a]
<1>1. /\ UNCHANGED <<packets, log, handed, crashes>>
      /\ returns' = [returns EXCEPT ![c.key] = c.return]
      /\ c # NoCall /\ c.at = "fill_return" /\ Goto(a, AfterReturn(c))
  BY DEF fill_return, At, bounds
<1>2. c \in ReturnCall \cup IngestCall /\ c.key \in Key /\ c.return \in Return
  BY <1>1, Whose DEF Inv, TypeInv, ReturnCall, IngestCall, Return
<1>3. /\ d.at = AfterReturn(c) /\ d # NoCall /\ d.verb = c.verb /\ d.key = c.key /\ d.return = c.return
      /\ c \in ReturnCall => d.id = c.id /\ d.packet = c.packet
  BY <1>1, <1>2, Onward DEF Inv
<1>4. (d \in ReturnCall <=> c \in ReturnCall) /\ (d \in IngestCall <=> c \in IngestCall) /\ d \notin DispatchCall
  BY <1>1, <1>2, <1>3, SameVerb, Whose DEF Inv, TypeInv, ReturnCall, IngestCall, DispatchCall
<1>5. (c \in ReturnCall => ReturnSound(a)) /\ (c \in IngestCall => IngestSound(a))
  BY DEF Inv, CallsSound, CallSound
<1>6. /\ c \in ReturnCall => c.verb = "return"
      /\ c \in IngestCall => c.verb = "ingest" /\ d.at = "append" /\ c.return.decision \in Decisions
      /\ d.at \in {"open_packet", "append"} /\ (d.at = "open_packet" => c.verb = "return" /\ c.key \in Blockers)
      /\ d.at = "append" /\ c \in ReturnCall => c.key \notin Blockers
  BY <1>3 DEF AfterReturn, ReturnCall, IngestCall
<1>. HIDE DEF c, d
<1>7. returns[c.key] = Torn
  BY <1>1, <1>2, <1>5 DEF ReturnSound, IngestSound, c
<1>8. returns'[c.key] = c.return /\ \A k \in Key : k # c.key => returns'[k] = returns[k]
  BY <1>1, <1>2 DEF Inv, TypeInv, TypeOK
<1>9. packets[c.return.packet] # NoFile
  <2>1. ASSUME c \in ReturnCall PROVE c.return.packet = c.id /\ packets[c.id] \in WorkPacket
    BY <1>1, <1>5, <2>1 DEF ReturnSound, c
  <2>. QED BY <1>2, <1>5, <2>1, Distinct DEF IngestSound, c
<1>10. FilesSound'
  <2>1. \A k \in Key : returns[k] # NoFile <=> returns'[k] # NoFile
    BY <1>2, <1>7, <1>8, Distinct
  <2>2. ReturnsCounted'
    BY <2>1 DEF ReturnsCounted, Follows, Series, Inv, FilesSound
  <2>3. Referred'
    BY <1>1, <1>8, <1>9 DEF Referred, Inv, FilesSound
  <2>. QED BY <1>1, <2>2, <2>3 DEF FilesSound, PacketsCounted, Inv
<1>11. LogSound'
  <2>0. \A e \in log : e.event # "dispatch" => e.id \in Key
    BY DEF Inv, TypeInv, TypeOK, Entry
  <2>1. DispatchedTrue'
    BY <1>1 DEF Inv, LogSound, DispatchedTrue
  <2>2. ReturnedTrue'
    <3>1. \A e \in log : e.event = "return" /\ e.id = c.key => e.packet = c.return.packet
      BY <1>1, <1>2, <1>5 DEF ReturnSound, IngestSound, c
    <3>. QED BY <1>1, <1>2, <1>8, <2>0, <3>1, Distinct DEF Inv, LogSound, ReturnedTrue
  <2>3. IngestedTrue'
    <3>1. \A e \in log : e.event = "ingest" => e.id # c.key
      BY <1>1, <1>2, <1>5 DEF ReturnSound, IngestSound, c
    <3>. QED BY <1>1, <1>8, <2>0, <3>1 DEF Inv, LogSound, IngestedTrue
  <2>. QED BY <2>1, <2>2, <2>3 DEF LogSound
<1>12. FlowSound'
  <2>1. BlockersMarked'
    <3>. SUFFICES ASSUME crashes = 0, NEW k \in Blockers, returns'[k] \in Return
                  PROVE  Marked(returns[k].packet)' \/ \E b \in Agents : Returns(call'[b], k)
      BY <1>1 DEF BlockersMarked
    <3>1. CASE k # c.key
      <4>1. returns'[k] = returns[k]
        BY <1>8, <3>1, Files DEF Inv
      <4>2. Marked(returns[k].packet) \/ \E b \in Agents : Returns(call[b], k)
        BY <4>1 DEF BlockersMarked, Inv, FlowSound
      <4>. QED BY <1>1, <3>1, <4>1, <4>2 DEF Marked, Returns, OneVerb, c
    <3>2. CASE k = c.key /\ c \in ReturnCall
      <4>1. Returns(call'[a], k)
        BY <1>3, <1>6, <3>2 DEF Returns, d
      <4>. QED BY <4>1
    <3>3. CASE k = c.key /\ c \in IngestCall
      <4>1. Marked(c.return.packet)
        BY <1>5, <3>3 DEF IngestSound, c
      <4>. QED BY <1>1, <1>8, <3>3, <4>1 DEF Marked
    <3>. QED BY <1>2, <3>1, <3>2, <3>3
  <2>2. \A i \in PacketId : Rewrites(d, i) => c \in ReturnCall /\ i = c.id /\ d.packet.layer = packets[i].layer
    <3>1. c \in ReturnCall => packets[c.id].layer = c.packet.layer
      BY <1>1, <1>5 DEF ReturnSound, c
    <3>. QED BY <1>2, <1>3, <1>6, <3>1 DEF Rewrites
  <2>3. c \in ReturnCall => packets[c.id] # Torn
    BY <1>1, <1>5, Distinct DEF ReturnSound, c
  <2>4. HandedSays'
    BY <1>1, <2>2, <2>3 DEF HandedSays, Says, OneVerb, Inv, FlowSound, d
  <2>5. PacketsHanded'
    BY <1>1 DEF PacketsHanded, Inv, FlowSound
  <2>. QED BY <2>1, <2>4, <2>5 DEF FlowSound
<1>13. CallSound(a)'
  <2>1. ASSUME c \in ReturnCall PROVE ReturnSound(a)'
    BY <1>1, <1>3, <1>5, <1>6, <1>8, <2>1 DEF ReturnSound, c, d
  <2>2. ASSUME c \in IngestCall PROVE IngestSound(a)'
    BY <1>1, <1>3, <1>5, <1>6, <1>8, <2>2 DEF IngestSound, Marked, c, d
  <2>. QED BY <1>4, <2>1, <2>2 DEF CallSound, d
<1>. QED BY <1>10, <1>11, <1>12, <1>13 DEF Inv, CallsSound, OneVerb

LEMMA OpenPacketKeeps ==
    ASSUME OneVerb, Inv, TypeInv', NEW a \in Agents, open_packet(a)
    PROVE  Inv'
<1>. DEFINE c == call[a]
            d == call'[a]
<1>1. /\ UNCHANGED <<returns, log, handed, crashes>>
      /\ packets' = [packets EXCEPT ![c.id] = Torn]
      /\ c # NoCall /\ c.at = "open_packet" /\ Goto(a, "fill_packet")
  BY DEF open_packet, At, bounds
<1>2. /\ c \in DispatchCall \cup ReturnCall /\ c.id \in PacketId
      /\ c.verb # "ingest" /\ (c \in ReturnCall => c.key \in Key /\ c.verb = "return")
      /\ c \in DispatchCall => c.verb = "dispatch"
  BY <1>1, Whose DEF Inv, TypeInv, ReturnCall, DispatchCall
<1>3. /\ d.at = "fill_packet" /\ d # NoCall /\ d.verb = c.verb /\ d.id = c.id /\ d.packet = c.packet
      /\ c \in ReturnCall => d.key = c.key /\ d.return = c.return
  BY <1>1, <1>2, Onward DEF Inv
<1>4. (d \in ReturnCall <=> c \in ReturnCall) /\ (d \in DispatchCall <=> c \in DispatchCall) /\ d \notin IngestCall
  BY <1>1, <1>2, <1>3, SameVerb, Whose DEF Inv, TypeInv, ReturnCall, IngestCall, DispatchCall
<1>5. (c \in ReturnCall => ReturnSound(a)) /\ (c \in DispatchCall => DispatchSound(a))
  BY DEF Inv, CallsSound, CallSound
<1>. HIDE DEF c, d
<1>6. packets'[c.id] = Torn /\ \A i \in PacketId : i # c.id => packets'[i] = packets[i]
  BY <1>1, <1>2 DEF Inv, TypeInv, TypeOK
<1>7. \A i \in PacketId : packets[i] # NoFile => packets'[i] # NoFile
  BY <1>6, Distinct
<1>8. \A j \in PacketId : j < c.id => packets[j] # NoFile
  BY <1>1, <1>2, <1>5, Distinct DEF DispatchSound, ReturnSound, Inv, FilesSound, PacketsCounted, c
<1>9. FilesSound'
  <2>1. PacketsCounted'
    BY <1>6, <1>7, <1>8 DEF PacketsCounted, Inv, FilesSound
  <2>2. \A k \in Key : returns[k] \in Return => returns[k].packet \in PacketId
    BY DEF Return
  <2>3. Referred'
    BY <1>1, <1>7, <2>2 DEF Referred, Inv, FilesSound
  <2>. QED BY <1>1, <2>1, <2>3 DEF FilesSound, ReturnsCounted, Follows, Inv
<1>10. LogSound'
  <2>0. \A e \in log : e.event = "dispatch" => e.id \in PacketId
    BY DEF Inv, TypeInv, TypeOK, Entry
  <2>1. DispatchedTrue'
    BY <1>1, <1>6, <1>7, <2>0 DEF Inv, LogSound, DispatchedTrue
  <2>2. ReturnedTrue' /\ IngestedTrue'
    BY <1>1 DEF Inv, LogSound, ReturnedTrue, IngestedTrue
  <2>. QED BY <2>1, <2>2 DEF LogSound
<1>11. FlowSound'
  <2>1. BlockersMarked'
    <3>. SUFFICES ASSUME crashes = 0, NEW k \in Blockers, returns[k] \in Return
                  PROVE  Marked(returns[k].packet)' \/ \E b \in Agents : Returns(call'[b], k)
      BY <1>1 DEF BlockersMarked
    <3>1. Marked(returns[k].packet) \/ Returns(c, k)
      BY DEF BlockersMarked, Inv, FlowSound, OneVerb, c
    <3>2. CASE Returns(c, k)
      <4>1. Returns(call'[a], k)
        BY <1>2, <1>3, <3>2 DEF Returns, d
      <4>. QED BY <4>1
    <3>3. CASE Marked(returns[k].packet)
      <4>1. returns[k].packet \in PacketId
        BY DEF Return
      <4>. QED BY <1>1, <1>6, <3>3, <4>1 DEF Marked
    <3>. QED BY <3>1, <3>2, <3>3
  <2>2. ASSUME NEW h \in handed, NEW i \in PacketId, Says(i, h[1]) PROVE Says(i, h[1])'
    <3>1. packets[c.id] # NoFile /\ i = c.id => c.packet.layer = h[1]
      BY <1>1, <1>2, <2>2 DEF Says, Rewrites, c
    <3>2. \A b \in Agents : Rewrites(call'[b], i) => b = a /\ i = c.id
      BY <1>3 DEF Rewrites, OneVerb, d
    <3>3. Rewrites(call'[a], i) => d.packet.layer = h[1]
      BY <1>3, <2>2, <3>1, <3>2 DEF Says
    <3>. QED BY <1>6, <1>7, <2>2, <3>2, <3>3 DEF Says, d
  <2>3. HandedSays'
    BY <1>1, <2>2 DEF HandedSays, Inv, FlowSound
  <2>4. PacketsHanded'
    BY <1>1, <1>6, Distinct DEF PacketsHanded, Inv, FlowSound
  <2>. QED BY <2>1, <2>3, <2>4 DEF FlowSound
<1>12. CallSound(a)'
  <2>1. ASSUME c \in ReturnCall PROVE ReturnSound(a)'
    BY <1>1, <1>3, <1>5, <1>6, <2>1 DEF ReturnSound, c, d
  <2>2. ASSUME c \in DispatchCall PROVE DispatchSound(a)'
    <3>1. packets[c.id] = NoFile
      BY <1>1, <1>5, <2>2 DEF DispatchSound, c
    <3>2. \A e \in log : e.event = "dispatch" => e.id # c.id
      BY <3>1 DEF Inv, LogSound, DispatchedTrue
    <3>3. \A k \in Key : returns[k] \in Return => returns[k].packet # c.id
      BY <3>1 DEF Inv, FilesSound, Referred
    <3>4. c.packet.origin = "loop" => MayDrive(c.packet.layer)
      BY <1>1, <1>5, <2>2 DEF DispatchSound, c
    <3>. QED BY <1>1, <1>3, <1>6, <3>2, <3>3, <3>4 DEF DispatchSound, MayDrive, Answered, d
  <2>. QED BY <1>4, <2>1, <2>2 DEF CallSound, d
<1>. QED BY <1>9, <1>10, <1>11, <1>12 DEF Inv, CallsSound, OneVerb

LEMMA FillPacketKeeps ==
    ASSUME OneVerb, Inv, TypeInv', NEW a \in Agents, fill_packet(a)
    PROVE  Inv'
<1>. DEFINE c == call[a]
            d == call'[a]
            new == <<c.packet.layer, c.packet.origin>>
<1>1. /\ UNCHANGED <<returns, log, crashes>>
      /\ packets' = [packets EXCEPT ![c.id] = c.packet]
      /\ handed' = handed \cup {new}
      /\ c # NoCall /\ c.at = "fill_packet" /\ Goto(a, "append")
  BY DEF fill_packet, At, bounds
<1>2. /\ c \in DispatchCall \cup ReturnCall /\ c.id \in PacketId /\ c.packet \in WorkPacket
      /\ c.verb # "ingest" /\ (c \in ReturnCall => c.key \in Key /\ c.verb = "return")
  BY <1>1, Whose DEF Inv, TypeInv, ReturnCall, DispatchCall
<1>3. /\ d.at = "append" /\ d # NoCall /\ d.verb = c.verb /\ d.id = c.id /\ d.packet = c.packet
      /\ c \in ReturnCall => d.key = c.key /\ d.return = c.return
  BY <1>1, <1>2, Onward DEF Inv
<1>4. (d \in ReturnCall <=> c \in ReturnCall) /\ (d \in DispatchCall <=> c \in DispatchCall) /\ d \notin IngestCall
  BY <1>1, <1>2, <1>3, SameVerb, Whose DEF Inv, TypeInv, ReturnCall, IngestCall, DispatchCall
<1>5. (c \in ReturnCall => ReturnSound(a)) /\ (c \in DispatchCall => DispatchSound(a))
  BY DEF Inv, CallsSound, CallSound
<1>. HIDE DEF c, d, new
<1>6. packets'[c.id] = c.packet /\ \A i \in PacketId : i # c.id => packets'[i] = packets[i]
  BY <1>1, <1>2 DEF Inv, TypeInv, TypeOK
<1>7. packets[c.id] = Torn
  BY <1>1, <1>2, <1>5 DEF DispatchSound, ReturnSound, c
<1>8. \A i \in PacketId : packets[i] # NoFile <=> packets'[i] # NoFile
  BY <1>2, <1>6, <1>7, Distinct
<1>9. FilesSound'
  <2>1. \A k \in Key : returns[k] \in Return => returns[k].packet \in PacketId
    BY DEF Return
  <2>2. Referred'
    BY <1>1, <1>8, <2>1 DEF Referred, Inv, FilesSound
  <2>. QED BY <1>1, <1>8, <2>2 DEF FilesSound, PacketsCounted, ReturnsCounted, Follows, Inv
<1>10. LogSound'
  <2>0. \A e \in log : e.event = "dispatch" => e.id \in PacketId
    BY DEF Inv, TypeInv, TypeOK, Entry
  <2>1. \A e \in log : e.event = "dispatch" /\ e.id = c.id => e.layer = c.packet.layer
    BY <1>1, <1>2, <1>5 DEF DispatchSound, ReturnSound, c
  <2>2. DispatchedTrue'
    BY <1>1, <1>6, <1>8, <2>0, <2>1 DEF Inv, LogSound, DispatchedTrue
  <2>3. ReturnedTrue' /\ IngestedTrue'
    BY <1>1 DEF Inv, LogSound, ReturnedTrue, IngestedTrue
  <2>. QED BY <2>2, <2>3 DEF LogSound
<1>11. FlowSound'
  <2>1. BlockersMarked'
    <3>. SUFFICES ASSUME crashes = 0, NEW k \in Blockers, returns[k] \in Return
                  PROVE  Marked(returns[k].packet)' \/ \E b \in Agents : Returns(call'[b], k)
      BY <1>1 DEF BlockersMarked
    <3>0. returns[k].packet \in PacketId /\ k \in Key
      BY Files DEF Return, Inv
    <3>1. CASE returns[k].packet = c.id
      <4>1. c \in ReturnCall
        BY <1>1, <1>2, <1>5, <3>0, <3>1 DEF DispatchSound, c
      <4>2. c.packet.status = "blocked"
        BY <1>5, <4>1 DEF ReturnSound, c
      <4>. QED BY <1>1, <1>2, <1>6, <3>1, <4>2, Distinct DEF Marked
    <3>2. CASE returns[k].packet # c.id
      <4>1. Marked(returns[k].packet) \/ Returns(c, k)
        BY DEF BlockersMarked, Inv, FlowSound, OneVerb, c
      <4>2. CASE Returns(c, k)
        <5>1. Returns(call'[a], k)
          BY <1>2, <1>3, <4>2, Whose DEF Returns, d, c, Inv, TypeInv
        <5>. QED BY <5>1
      <4>3. CASE Marked(returns[k].packet)
        BY <1>1, <1>6, <3>0, <3>2, <4>3 DEF Marked
      <4>. QED BY <4>1, <4>2, <4>3
    <3>. QED BY <3>1, <3>2
  <2>2. \A b \in Agents, i \in PacketId : ~ Rewrites(call'[b], i)
    BY <1>3 DEF Rewrites, OneVerb, d
  <2>3. ASSUME NEW h \in handed, NEW i \in PacketId, Says(i, h[1]) PROVE Says(i, h[1])'
    <3>1. i = c.id => c.packet.layer = h[1]
      BY <1>1, <1>2, <2>3 DEF Says, Rewrites, c
    <3>. QED BY <1>6, <1>8, <2>2, <2>3, <3>1 DEF Says
  <2>4. \A h \in handed' : h \in handed \/ h[1] = c.packet.layer
    BY <1>1 DEF new
  <2>5. HandedSays'
    <3>. SUFFICES ASSUME NEW h \in handed' PROVE \E i \in PacketId : Says(i, h[1])'
      BY DEF HandedSays
    <3>1. CASE h \in handed
      BY <2>3, <3>1 DEF HandedSays, Inv, FlowSound
    <3>2. CASE h[1] = c.packet.layer
      <4>1. PICK i \in PacketId : i = c.id
        BY <1>2
      <4>2. packets'[i] # NoFile /\ packets'[i].layer = h[1]
        BY <1>2, <1>6, <3>2, <4>1, Distinct
      <4>3. Says(i, h[1])'
        BY <2>2, <4>2 DEF Says
      <4>. QED BY <4>3
    <3>. QED BY <2>4, <3>1, <3>2
  <2>6. PacketsHanded'
    BY <1>1, <1>6 DEF PacketsHanded, Inv, FlowSound, new
  <2>. QED BY <2>1, <2>5, <2>6 DEF FlowSound
<1>12. CallSound(a)'
  <2>1. ASSUME c \in ReturnCall PROVE ReturnSound(a)'
    BY <1>1, <1>2, <1>3, <1>5, <1>6, <2>1 DEF ReturnSound, c, d
  <2>2. ASSUME c \in DispatchCall PROVE DispatchSound(a)'
    BY <1>1, <1>3, <1>6 DEF DispatchSound, d
  <2>. QED BY <1>4, <2>1, <2>2 DEF CallSound, d
<1>. QED BY <1>9, <1>10, <1>11, <1>12 DEF Inv, CallsSound, OneVerb

LEMMA AppendKeeps ==
    ASSUME OneVerb, Inv, TypeInv', NEW a \in Agents, append_log(a)
    PROVE  Inv'
<1>. DEFINE c == call[a]
            new == EntryOf(c)
<1>1. /\ UNCHANGED <<packets, returns, handed, crashes>>
      /\ log' = log \cup {new}
      /\ c # NoCall /\ c.at = "append"
      /\ call'[a] = NoCall
  BY DEF append_log, At, bounds, Inv, TypeInv, TypeOK
<1>2. c \in DispatchCall \/ c \in ReturnCall \/ c \in IngestCall
  BY <1>1 DEF Inv, TypeInv, InStep
<1>3. /\ c \in DispatchCall => DispatchSound(a)
      /\ c \in ReturnCall => ReturnSound(a)
      /\ c \in IngestCall => IngestSound(a)
  BY DEF Inv, CallsSound, CallSound
<1>4. FilesSound'
  BY <1>1 DEF FilesSound, PacketsCounted, ReturnsCounted, Follows, Referred, Inv
<1>5. LogSound'
  <2>1. CASE c \in DispatchCall
    <3>1. new = [event |-> "dispatch", id |-> c.id, layer |-> c.packet.layer]
      BY <2>1 DEF EntryOf, DispatchCall
    <3>2. packets[c.id] = c.packet /\ c.packet # NoFile
      BY <1>1, <1>3, <2>1, Distinct DEF DispatchSound, DispatchCall
    <3>. HIDE DEF new, c
    <3>. QED BY <1>1, <3>1, <3>2 DEF LogSound, DispatchedTrue, ReturnedTrue, IngestedTrue, Inv
  <2>2. CASE c \in ReturnCall
    <3>1. new = [event |-> "return", id |-> c.key, packet |-> c.id]
      BY <2>2 DEF EntryOf, ReturnCall
    <3>2. returns[c.key] # NoFile /\ returns[c.key].packet = c.id
      BY <1>1, <1>3, <2>2, Distinct DEF ReturnSound, ReturnCall
    <3>. HIDE DEF new, c
    <3>. QED BY <1>1, <3>1, <3>2 DEF LogSound, DispatchedTrue, ReturnedTrue, IngestedTrue, Inv
  <2>3. CASE c \in IngestCall
    <3>1. new = [event |-> "ingest", id |-> c.key, decision |-> c.return.decision]
      BY <2>3 DEF EntryOf, IngestCall
    <3>2. returns[c.key] = c.return /\ c.return \in Return
      BY <1>1, <1>3, <2>3 DEF IngestSound, IngestCall, Return
    <3>. HIDE DEF new, c
    <3>. QED BY <1>1, <3>1, <3>2 DEF LogSound, DispatchedTrue, ReturnedTrue, IngestedTrue, Inv
  <2>. QED BY <1>2, <2>1, <2>2, <2>3
<1>6. FlowSound'
  <2>1. BlockersMarked'
    <3>. SUFFICES ASSUME crashes = 0, NEW k \in Blockers, returns[k] \in Return
                  PROVE  Marked(returns[k].packet)'
      BY <1>1 DEF BlockersMarked
    <3>1. Marked(returns[k].packet) \/ Returns(c, k)
      BY DEF BlockersMarked, Inv, FlowSound, OneVerb
    <3>2. CASE Returns(c, k)
      <4>1. c \in ReturnCall /\ c.key = k
        BY <3>2, Whose DEF Returns, Inv, TypeInv
      <4>2. returns[k] = c.return /\ c.return.packet = c.id /\ packets[c.id] = c.packet
            /\ c.packet.status = "blocked" /\ c.packet \in WorkPacket
        BY <1>1, <1>3, <4>1 DEF ReturnSound, ReturnCall
      <4>. QED BY <1>1, <4>2, Distinct DEF Marked
    <3>3. CASE Marked(returns[k].packet)
      BY <1>1, <3>3 DEF Marked
    <3>. QED BY <3>1, <3>2, <3>3
  <2>2. \A i \in PacketId : ~ Rewrites(call'[a], i)
    BY <1>1 DEF Rewrites
  <2>3. HandedSays'
    BY <1>1, <2>2 DEF HandedSays, Says, OneVerb, Inv, FlowSound
  <2>4. PacketsHanded'
    BY <1>1 DEF PacketsHanded, Inv, FlowSound
  <2>. QED BY <2>1, <2>3, <2>4 DEF FlowSound
<1>7. CallSound(a)'
  BY <1>1, Distinct DEF CallSound
<1>. QED BY <1>4, <1>5, <1>6, <1>7 DEF Inv, CallsSound, OneVerb

LEMMA CrashKeeps ==
    ASSUME OneVerb, Inv, TypeInv', NEW a \in Agents, crash(a)
    PROVE  Inv'
<1>1. /\ UNCHANGED <<packets, returns, log, handed>> /\ call'[a] = NoCall
      /\ crashes' = crashes + 1 /\ crashes \in Nat
  BY DEF crash, files, Inv, TypeInv, TypeOK
<1>2. FilesSound' /\ LogSound'
  BY <1>1 DEF FilesSound, PacketsCounted, ReturnsCounted, Follows, Referred,
              LogSound, DispatchedTrue, ReturnedTrue, IngestedTrue, Inv
<1>3. BlockersMarked'
  BY <1>1 DEF BlockersMarked
<1>4. \A i \in PacketId : ~ Rewrites(call'[a], i)
  BY <1>1 DEF Rewrites
<1>5. HandedSays' /\ PacketsHanded'
  BY <1>1, <1>4 DEF HandedSays, PacketsHanded, Says, OneVerb, Inv, FlowSound
<1>6. CallSound(a)'
  BY <1>1, Distinct DEF CallSound
<1>. QED BY <1>2, <1>3, <1>5, <1>6 DEF Inv, FlowSound, CallsSound, OneVerb

LEMMA OwnerKeeps ==
    ASSUME Inv, TypeInv', UNCHANGED <<files, call, handed, crashes>>
    PROVE  Inv'
<1>1. UNCHANGED <<packets, returns, log, call, handed, crashes>>
  BY DEF files
<1>2. FilesSound' /\ LogSound'
  BY <1>1 DEF FilesSound, PacketsCounted, ReturnsCounted, Follows, Referred,
              LogSound, DispatchedTrue, ReturnedTrue, IngestedTrue, Inv
<1>3. FlowSound'
  BY <1>1 DEF FlowSound, BlockersMarked, Marked, HandedSays, Says, PacketsHanded, Inv
<1>4. ASSUME NEW a \in Agents PROVE CallSound(a)'
  <2>1. CallSound(a)
    BY DEF Inv, CallsSound
  <2>. QED BY <1>1, <2>1 DEF CallSound, DispatchSound, ReturnSound, IngestSound, MayDrive, Answered, Follows, Marked
<1>. QED BY <1>2, <1>3, <1>4 DEF Inv, CallsSound

LEMMA NextKeeps == OneVerb /\ Inv /\ [Next]_vars => Inv'
<1>. SUFFICES ASSUME OneVerb, Inv, [Next]_vars PROVE Inv'
  OBVIOUS
<1>1. TypeInv'
  BY NextTyped DEF Inv
<1>2. ASSUME NEW a \in Agents, Begin(a) PROVE Inv'
  BY <1>1, <1>2, TickKeeps, DispatchKeeps, ReturnKeeps, IngestKeeps DEF Begin, Decide
<1>3. ASSUME NEW a \in Agents, Write(a) PROVE Inv'
  BY <1>1, <1>3, NumberKeeps, OpenReturnKeeps, FillReturnKeeps, OpenPacketKeeps, FillPacketKeeps, AppendKeeps
  DEF Write
<1>4. ASSUME NEW a \in Agents, crash(a) PROVE Inv'
  BY <1>1, <1>4, CrashKeeps
<1>5. ASSUME NEW s \in Sections, answer(s) \/ reopen(s) PROVE Inv'
  BY <1>1, <1>5, OwnerKeeps DEF answer, reopen, bounds
<1>6. CASE add_refs \/ UNCHANGED vars
  BY <1>1, <1>6, OwnerKeeps DEF add_refs, vars, bounds
<1>. QED BY <1>2, <1>3, <1>4, <1>5, <1>6 DEF Next

----------------------------------------------------------------------------
(* Theorems *)

LEMMA Invariant == OneVerb /\ Spec => []Inv
<1>. SUFFICES ASSUME OneVerb PROVE Spec => []Inv
  OBVIOUS
<1>1. Init => Inv
  BY InitSound
<1>2. Inv /\ [Next]_vars => Inv'
  BY NextKeeps
<1>. QED BY <1>1, <1>2, PTL DEF Spec

(* Run one at a time, whatever is killed, the verbs keep the log true: a   *)
(* number that was counted is given to one packet or return only, and a    *)
(* decision that was logged is the one in its file.                        *)
THEOREM LogHolds == OneVerb /\ Spec => []LogIsTrue
<1>. SUFFICES ASSUME OneVerb PROVE Spec => []LogIsTrue
  OBVIOUS
<1>1. Inv => LogIsTrue
  <2>. SUFFICES ASSUME Inv, NEW e \in log
                PROVE  CASE e.event = "dispatch" -> packets[e.id] # NoFile
                                     /\ (packets[e.id] # Torn => packets[e.id].layer = e.layer)
                         [] e.event = "return" -> returns[e.id] # NoFile
                                   /\ (returns[e.id] # Torn => returns[e.id].packet = e.packet)
                         [] e.event = "ingest" -> returns[e.id] \in Return /\ returns[e.id].decision = e.decision
    BY DEF LogIsTrue
  <2>1. e.event \in {"dispatch", "return", "ingest"}
    BY DEF Inv, TypeInv, TypeOK, Entry
  <2>2. CASE e.event = "dispatch"
    BY <2>2 DEF Inv, LogSound, DispatchedTrue
  <2>3. CASE e.event = "return"
    BY <2>3 DEF Inv, LogSound, ReturnedTrue
  <2>4. CASE e.event = "ingest"
    BY <2>4 DEF Inv, LogSound, IngestedTrue
  <2>. QED BY <2>1, <2>2, <2>3, <2>4
<1>. QED BY <1>1, Invariant, PTL

(* Run one at a time and none of them killed, the verbs leave no packet    *)
(* with a standing blocker unmarked: neither the answer to the blocker nor *)
(* a packet written later takes the mark away.                             *)
THEOREM BlockersHold == OneVerb /\ Spec => []BlockedIsMarked
<1>. SUFFICES ASSUME OneVerb PROVE Spec => []BlockedIsMarked
  OBVIOUS
<1>1. Inv => BlockedIsMarked
  <2>. SUFFICES ASSUME Inv, crashes = 0, NEW k \in Legible(returns) \cap Blockers
                PROVE  \/ packets[returns[k].packet] = Torn
                       \/ /\ packets[returns[k].packet] # NoFile
                          /\ packets[returns[k].packet].status = "blocked"
                       \/ \E a \in Agents : call[a] # NoCall /\ call[a].verb = "return" /\ call[a].key = k
    BY DEF BlockedIsMarked
  <2>1. k \in Key /\ returns[k] \in Return
    BY DEF Legible, Written, Blockers, Inv, TypeInv, TypeOK
  <2>2. Marked(returns[k].packet) \/ \E a \in Agents : Returns(call[a], k)
    BY <2>1 DEF Inv, FlowSound, BlockersMarked
  <2>. QED BY <2>2 DEF Marked, Returns
<1>. QED BY <1>1, Invariant, PTL

----------------------------------------------------------------------------
(* The promise of DesignFlow *)

(* What the mapping makes of the files, in terms of the invariant.         *)
Standing(k) == returns[k] = Torn \/ (returns[k] \in Return /\ returns[k].decision = Undecided)
Opened == {k \in Key : Standing(k)}
Settled(k, d) == k \in Key /\ returns[k] \in Return /\ returns[k].decision = d /\ d # Undecided
Closed == {<<k, returns[k].decision>> : k \in {q \in Key : returns[q] \in Return /\ returns[q].decision # Undecided}}

LEMMA Mapped ==
    ASSUME TypeInv
    PROVE  /\ {k \in Written(returns) : returns[k] = Torn \/ returns[k].decision = Undecided} = Opened
           /\ {<<k, returns[k].decision>> :
                  k \in {q \in Legible(returns) : returns[q].decision # Undecided}} = Closed
<1>1. /\ DOMAIN returns = Key
      /\ \A k \in Key : returns[k] \in Return \cup {NoFile, Torn}
  BY DEF TypeInv, TypeOK
<1>2. {k \in Written(returns) : returns[k] = Torn \/ returns[k].decision = Undecided} = Opened
  BY <1>1, Distinct DEF Written, Opened, Standing
<1>3. {q \in Legible(returns) : returns[q].decision # Undecided}
        = {q \in Key : returns[q] \in Return /\ returns[q].decision # Undecided}
  BY <1>1, Distinct DEF Legible, Written
<1>. QED BY <1>2, <1>3 DEF Closed

LEMMA MappedNext ==
    ASSUME TypeInv'
    PROVE  /\ {k \in Written(returns)' : returns'[k] = Torn \/ returns'[k].decision = Undecided} = Opened'
           /\ {<<k, returns'[k].decision>> :
                  k \in {q \in Legible(returns)' : returns'[q].decision # Undecided}} = Closed'
<1>1. /\ DOMAIN returns' = Key
      /\ \A k \in Key : returns'[k] \in Return \cup {NoFile, Torn}
  BY DEF TypeInv, TypeOK
<1>2. {k \in Written(returns)' : returns'[k] = Torn \/ returns'[k].decision = Undecided} = Opened'
  BY <1>1, Distinct DEF Written, Opened, Standing
<1>3. {q \in Legible(returns)' : returns'[q].decision # Undecided}
        = {q \in Key : returns'[q] \in Return /\ returns'[q].decision # Undecided}
  BY <1>1, Distinct DEF Legible, Written
<1>. QED BY <1>2, <1>3 DEF Closed

LEMMA ClosedPairs == \A k, d : <<k, d>> \in Closed <=> Settled(k, d)
BY DEF Closed, Settled

LEMMA FlowInit == Init => Flow!Init
<1>. SUFFICES ASSUME Init PROVE Flow!Init
  OBVIOUS
<1>1. Written(returns) = {} /\ Legible(returns) = {} /\ handed = {}
  BY DEF Init, Written, Legible
<1>. QED BY <1>1 DEF Flow!Init

(* The layers of a set of pairs of layer and origin, and those of the loop. *)
LayersOf(S) == {h[1] : h \in S}
ByLoop(S) == {g \in S : g[2] = "loop"}

LEMMA Pairs ==
    ASSUME NEW S, NEW x, NEW y
    PROVE  LayersOf(S \cup {<<x, y>>}) = LayersOf(S) \cup {x}
<1>1. <<x, y>>[1] = x
  OBVIOUS
<1>. QED BY <1>1 DEF LayersOf

(* The steps of DesignFlow, in those terms.                                *)
LEMMA Driving ==
    ASSUME TypeInv, NEW l \in DOWNSTREAM_CODES, MayDrive(l),
           returns' = returns, handed' = handed \cup {<<l, "loop">>}
    PROVE  Flow!Next
<1>1. {k \in Written(returns) : returns[k] = Torn \/ returns[k].decision = Undecided} \cap Blockers = {}
  BY Mapped, Distinct DEF MayDrive, Answered, Opened, Standing
<1>2. l \notin LayersOf(handed) /\ Upstream(l) \subseteq LayersOf(handed)
  BY DEF MayDrive, LayersOf
<1>3. /\ LayersOf(handed') = LayersOf(handed) \cup {l}
      /\ LayersOf(ByLoop(handed')) = LayersOf(ByLoop(handed)) \cup {l}
  <2>1. LayersOf(handed \cup {<<l, "loop">>}) = LayersOf(handed) \cup {l}
    BY Pairs
  <2>2. ByLoop(handed \cup {<<l, "loop">>}) = ByLoop(handed) \cup {<<l, "loop">>}
    BY DEF ByLoop
  <2>3. LayersOf(ByLoop(handed) \cup {<<l, "loop">>}) = LayersOf(ByLoop(handed)) \cup {l}
    BY Pairs
  <2>. QED BY <2>1, <2>2, <2>3
<1>4. Flow!Drive(l)
  BY <1>1, <1>2, <1>3 DEF Flow!Drive, Written, Legible, LayersOf, ByLoop
<1>. QED BY <1>4 DEF Flow!Next

LEMMA Handing ==
    ASSUME NEW l \in DOWNSTREAM_CODES, returns' = returns, handed' = handed \cup {<<l, "hand">>}
    PROVE  Flow!Next
<1>1. /\ LayersOf(handed') = LayersOf(handed) \cup {l}
      /\ LayersOf(ByLoop(handed')) = LayersOf(ByLoop(handed))
  <2>1. LayersOf(handed \cup {<<l, "hand">>}) = LayersOf(handed) \cup {l}
    BY Pairs
  <2>2. ByLoop(handed \cup {<<l, "hand">>}) = ByLoop(handed)
    BY DEF ByLoop
  <2>. QED BY <2>1, <2>2
<1>2. Flow!Hand(l)
  BY <1>1 DEF Flow!Hand, Written, Legible, LayersOf, ByLoop
<1>. QED BY <1>2 DEF Flow!Next

LEMMA Raising ==
    ASSUME TypeInv, TypeInv', handed' = handed,
           NEW k \in Key, k \notin Opened, \A d \in Decisions : <<k, d>> \notin Closed,
           Opened' = Opened \cup {k}, Closed' = Closed
    PROVE  Flow!Next
<1>1. Flow!Raise(k)
  BY Mapped, MappedNext DEF Flow!Raise
<1>. QED BY <1>1 DEF Flow!Next

LEMMA Deciding ==
    ASSUME TypeInv, TypeInv', handed' = handed,
           NEW k \in Key, NEW d \in Decisions, k \in Opened,
           Opened' = Opened \ {k}, Closed' = Closed \cup {<<k, d>>}
    PROVE  Flow!Next
<1>1. Flow!Decide(k, d)
  BY Mapped, MappedNext DEF Flow!Decide
<1>. QED BY <1>1 DEF Flow!Next

(* A step that writes no return and hands no layer work stutters, and one  *)
(* that leaves the questions as they are.                                  *)
LEMMA Unseen == UNCHANGED <<returns, handed>> => UNCHANGED Flow!flow
BY DEF Flow!flow, Written, Legible

LEMMA SameQuestions ==
    ASSUME TypeInv, TypeInv', handed' = handed, Opened' = Opened, Closed' = Closed
    PROVE  UNCHANGED Flow!flow
BY Mapped, MappedNext DEF Flow!flow

LEMMA FillPacketFlows ==
    ASSUME OneVerb, Inv, NEW a \in Agents, fill_packet(a)
    PROVE  Flow!Next \/ UNCHANGED Flow!flow
<1>. DEFINE c == call[a]
<1>1. /\ c # NoCall /\ c.at = "fill_packet" /\ returns' = returns
      /\ handed' = handed \cup {<<c.packet.layer, c.packet.origin>>}
  BY DEF fill_packet, At
<1>2. c \in DispatchCall \cup ReturnCall /\ c.packet \in WorkPacket
  BY <1>1, Whose DEF Inv, TypeInv, DispatchCall, ReturnCall
<1>3. (c \in DispatchCall => DispatchSound(a)) /\ (c \in ReturnCall => ReturnSound(a))
  BY DEF Inv, CallsSound, CallSound
<1>4. c \in DispatchCall /\ c.packet.origin = "loop" => MayDrive(c.packet.layer)
  BY <1>1, <1>3 DEF DispatchSound
<1>5. c \in ReturnCall => handed' = handed
  BY <1>1, <1>3 DEF ReturnSound
<1>. HIDE DEF c
<1>6. PICK l \in DOWNSTREAM_CODES, origin \in {"loop", "hand"} : c.packet.layer = l /\ c.packet.origin = origin
  BY <1>2 DEF WorkPacket, Origin
<1>7. CASE c \in ReturnCall
  BY <1>1, <1>5, <1>7, Unseen
<1>8. CASE c \in DispatchCall /\ origin = "loop"
  BY <1>1, <1>4, <1>6, <1>8, Driving DEF Inv
<1>9. CASE c \in DispatchCall /\ origin = "hand"
  BY <1>1, <1>6, <1>9, Handing
<1>. QED BY <1>2, <1>6, <1>7, <1>8, <1>9

LEMMA OpenReturnFlows ==
    ASSUME OneVerb, Inv, TypeInv', NEW a \in Agents, open_return(a)
    PROVE  Flow!Next \/ UNCHANGED Flow!flow
<1>. DEFINE c == call[a]
<1>1. /\ c # NoCall /\ c.at = "open_return" /\ handed' = handed
      /\ returns' = [returns EXCEPT ![c.key] = Torn]
  BY DEF open_return, At, bounds
<1>2. c \in ReturnCall \cup IngestCall /\ c.key \in Key
  BY <1>1, Whose DEF Inv, TypeInv, ReturnCall, IngestCall
<1>3. (c \in ReturnCall => ReturnSound(a)) /\ (c \in IngestCall => IngestSound(a))
  BY DEF Inv, CallsSound, CallSound
<1>4. c \in ReturnCall => returns[c.key] = NoFile
  BY <1>1, <1>3 DEF ReturnSound
<1>5. c \in IngestCall => returns[c.key] \in Return /\ returns[c.key].decision = Undecided
  BY <1>1, <1>3 DEF IngestSound, IngestCall, Return
<1>. HIDE DEF c
<1>6. PICK k \in Key : c.key = k
  BY <1>2
<1>7. returns'[k] = Torn /\ \A q \in Key : q # k => returns'[q] = returns[q]
  BY <1>1, <1>6 DEF Inv, TypeInv, TypeOK
<1>8. Closed' = Closed
  <2>1. {q \in Key : returns'[q] \in Return /\ returns'[q].decision # Undecided}
        = {q \in Key : returns[q] \in Return /\ returns[q].decision # Undecided}
    BY <1>2, <1>4, <1>5, <1>6, <1>7, Distinct
  <2>2. \A q \in Key : returns[q] \in Return /\ returns[q].decision # Undecided => returns'[q] = returns[q]
    BY <1>2, <1>4, <1>5, <1>6, <1>7, Distinct
  <2>. QED BY <2>1, <2>2 DEF Closed
<1>9. Opened' = Opened \cup {k}
  BY <1>7 DEF Opened, Standing
<1>10. CASE c \in IngestCall
  <2>1. Opened' = Opened
    BY <1>5, <1>6, <1>9, <1>10 DEF Opened, Standing
  <2>. QED BY <1>1, <1>8, <2>1, SameQuestions DEF Inv
<1>11. CASE c \in ReturnCall
  <2>1. k \notin Opened /\ \A d \in Decisions : <<k, d>> \notin Closed
    BY <1>4, <1>6, <1>11, ClosedPairs, Distinct DEF Opened, Standing, Settled
  <2>. QED BY <1>1, <1>8, <1>9, <2>1, Raising DEF Inv
<1>. QED BY <1>2, <1>10, <1>11

LEMMA FillReturnFlows ==
    ASSUME OneVerb, Inv, TypeInv', NEW a \in Agents, fill_return(a)
    PROVE  Flow!Next \/ UNCHANGED Flow!flow
<1>. DEFINE c == call[a]
<1>1. /\ c # NoCall /\ c.at = "fill_return" /\ handed' = handed
      /\ returns' = [returns EXCEPT ![c.key] = c.return]
  BY DEF fill_return, At, bounds
<1>2. c \in ReturnCall \cup IngestCall /\ c.key \in Key /\ c.return \in Return
  BY <1>1, Whose DEF Inv, TypeInv, ReturnCall, IngestCall, Return
<1>3. (c \in ReturnCall => ReturnSound(a)) /\ (c \in IngestCall => IngestSound(a))
  BY DEF Inv, CallsSound, CallSound
<1>4. returns[c.key] = Torn
  BY <1>1, <1>2, <1>3 DEF ReturnSound, IngestSound
<1>5. c \in ReturnCall => c.return.decision = Undecided
  BY <1>3 DEF ReturnSound
<1>6. c \in IngestCall => c.return.decision \in Decisions
  BY DEF IngestCall
<1>. HIDE DEF c
<1>7. PICK k \in Key, r \in Return : c.key = k /\ c.return = r
  BY <1>2
<1>8. returns[k] = Torn /\ returns'[k] = r /\ \A q \in Key : q # k => returns'[q] = returns[q]
  BY <1>1, <1>4, <1>7 DEF Inv, TypeInv, TypeOK
<1>9. CASE c \in ReturnCall
  <2>1. Opened' = Opened
    BY <1>5, <1>7, <1>8, <1>9 DEF Opened, Standing
  <2>2. {q \in Key : returns'[q] \in Return /\ returns'[q].decision # Undecided}
        = {q \in Key : returns[q] \in Return /\ returns[q].decision # Undecided}
    BY <1>5, <1>7, <1>8, <1>9, Distinct
  <2>3. \A q \in Key : returns[q] \in Return /\ returns[q].decision # Undecided => returns'[q] = returns[q]
    BY <1>8, Distinct
  <2>4. Closed' = Closed
    BY <2>2, <2>3 DEF Closed
  <2>. QED BY <1>1, <2>1, <2>4, SameQuestions DEF Inv
<1>10. CASE c \in IngestCall
  <2>1. PICK d \in Decisions : r.decision = d
    BY <1>6, <1>7, <1>10
  <2>2. d # Undecided
    BY SpineAssumption
  <2>3. Opened' = Opened \ {k} /\ k \in Opened
    BY <1>7, <1>8, <2>1, <2>2, Distinct DEF Opened, Standing
  <2>4. {q \in Key : returns'[q] \in Return /\ returns'[q].decision # Undecided}
        = {q \in Key : returns[q] \in Return /\ returns[q].decision # Undecided} \cup {k}
    BY <1>7, <1>8, <2>1, <2>2, Distinct
  <2>5. \A q \in Key : returns[q] \in Return /\ returns[q].decision # Undecided => returns'[q] = returns[q]
    BY <1>8, Distinct
  <2>6. Closed' = Closed \cup {<<k, d>>}
    BY <1>8, <2>1, <2>4, <2>5 DEF Closed
  <2>. QED BY <1>1, <2>3, <2>6, Deciding DEF Inv
<1>. QED BY <1>2, <1>9, <1>10

LEMMA FlowNext ==
    OneVerb /\ Inv /\ [Next]_vars => [Flow!Next]_(Flow!flow)
<1>. SUFFICES ASSUME OneVerb, Inv, [Next]_vars
              PROVE  Flow!Next \/ UNCHANGED Flow!flow
  OBVIOUS
<1>1. TypeInv'
  BY NextTyped DEF Inv
<1>2. ASSUME NEW a \in Agents, Begin(a) \/ number(a) \/ open_packet(a) \/ append_log(a) \/ crash(a)
      PROVE  UNCHANGED Flow!flow
  <2>1. UNCHANGED <<returns, handed>>
    BY <1>2 DEF Begin, Decide, c00_orchestration_tick, dispatch_work_packet, return_to_c00, ingest,
                number, open_packet, append_log, crash, files
  <2>. QED BY <2>1, Unseen
<1>3. ASSUME NEW a \in Agents, open_return(a) \/ fill_return(a) \/ fill_packet(a)
      PROVE  Flow!Next \/ UNCHANGED Flow!flow
  BY <1>1, <1>3, OpenReturnFlows, FillReturnFlows, FillPacketFlows
<1>4. ASSUME NEW s \in Sections, answer(s) \/ reopen(s)
      PROVE  UNCHANGED Flow!flow
  BY <1>4, Unseen DEF answer, reopen, files
<1>5. CASE add_refs \/ UNCHANGED vars
  BY <1>5, Unseen DEF add_refs, vars, files
<1>. QED BY <1>2, <1>3, <1>4, <1>5 DEF Next, Write

(* Run one at a time, the verbs keep the promise: the loop hands a layer   *)
(* its work once, after the layers it builds on and never past an open     *)
(* blocker, and a question gets one decision, whatever verb is killed      *)
(* between two of its writes.                                              *)
THEOREM SpineImplementsFlow == OneVerb /\ Spec => ImplementsFlow
<1>. SUFFICES ASSUME OneVerb PROVE Spec => Flow!Spec
  BY DEF ImplementsFlow
<1>. QED BY Invariant, FlowInit, FlowNext, PTL DEF Spec, Flow!Spec

----------------------------------------------------------------------------
(* Any number of verbs at once.  Two verbs may count the same files, take  *)
(* one number and overwrite each other; but a file that is there stays, so *)
(* numbers have no gaps, what the log or a return names can be found, and  *)
(* what C04 builds on was handed out before the loop came to C04.          *)

UpstreamHanded(l) == \A u \in Upstream(l) : \E h \in handed : h[1] = u
UpstreamFirst == \A h \in handed : h[2] = "loop" => UpstreamHanded(h[1])
Found(e) == IF e.event = "dispatch" THEN packets[e.id] # NoFile ELSE returns[e.id] # NoFile
LogIsFound == \A e \in log : Found(e)

(* What a verb may rely on whatever others write meanwhile.                *)
DispatchStands(a) ==
    LET c == call[a] IN
    /\ c.packet.origin = "loop" => UpstreamHanded(c.packet.layer)
    /\ c.at # "number" => \A j \in PacketId : j < c.id => packets[j] # NoFile
    /\ c.at \in {"fill_packet", "append"} => packets[c.id] # NoFile
ReturnStands(a) ==
    LET c == call[a] IN
    /\ c.return.packet = c.id /\ packets[c.id] # NoFile
    /\ <<c.packet.layer, c.packet.origin>> \in handed
    /\ Follows(c.key) /\ (c.at # "open_return" => returns[c.key] # NoFile)
IngestStands(a) ==
    LET c == call[a] IN returns[c.key] # NoFile /\ packets[c.return.packet] # NoFile
Stands(a) ==
    /\ call[a] \in DispatchCall => DispatchStands(a)
    /\ call[a] \in ReturnCall => ReturnStands(a)
    /\ call[a] \in IngestCall => IngestStands(a)

Shared ==
    /\ TypeInv /\ FilesSound /\ PacketsHanded /\ LogIsFound /\ UpstreamFirst
    /\ \A a \in Agents : Stands(a)

FilesStay ==
    /\ \A i \in PacketId : packets[i] # NoFile => packets'[i] # NoFile
    /\ \A k \in Key : returns[k] # NoFile => returns'[k] # NoFile
    /\ handed \subseteq handed'

LEMMA FollowsStays ==
    ASSUME FilesStay, NEW k, Follows(k) PROVE Follows(k)'
BY DEF FilesStay, Follows, Series

LEMMA HandedStays ==
    ASSUME FilesStay, NEW l, UpstreamHanded(l) PROVE UpstreamHanded(l)'
BY DEF FilesStay, UpstreamHanded

LEMMA InitShared == Init => Shared
<1>. SUFFICES ASSUME Init PROVE Shared
  OBVIOUS
<1>1. TypeInv /\ FilesSound /\ PacketsHanded
  BY InitSound DEF Inv, FlowSound
<1>2. LogIsFound /\ UpstreamFirst
  BY DEF Init, LogIsFound, UpstreamFirst
<1>3. \A a \in Agents : Stands(a)
  BY Distinct DEF Init, Stands
<1>. QED BY <1>1, <1>2, <1>3 DEF Shared

(* Another verb's writes leave a verb its footing.                         *)
LEMMA StandsStays ==
    ASSUME Shared, FilesStay, NEW b \in Agents, call'[b] = call[b] PROVE Stands(b)'
<1>. DEFINE c == call[b]
<1>1. Stands(b) /\ InStep(c) /\ \A l : UpstreamHanded(l) => UpstreamHanded(l)'
  BY HandedStays DEF Shared, TypeInv
<1>2. CASE c \in DispatchCall
  <2>1. DispatchStands(b) /\ c.packet.layer \in DOWNSTREAM_CODES
    BY <1>1, <1>2 DEF Stands, DispatchCall, WorkPacket
  <2>2. c.at # "number" => c.id \in PacketId
    BY <1>1, <1>2 DEF InStep, NoCall, DispatchCall, ReturnCall, IngestCall
  <2>3. DispatchStands(b)'
    BY <1>1, <2>1, <2>2 DEF DispatchStands, FilesStay
  <2>. QED BY <1>2, <2>3 DEF Stands, DispatchCall, ReturnCall, IngestCall
<1>3. CASE c \in ReturnCall
  <2>1. ReturnStands(b) /\ c.id \in PacketId /\ c.key \in Key
    BY <1>1, <1>3 DEF Stands, ReturnCall
  <2>2. Follows(c.key)'
    BY <2>1, FollowsStays DEF ReturnStands
  <2>3. ReturnStands(b)'
    BY <2>1, <2>2 DEF ReturnStands, FilesStay
  <2>. QED BY <1>3, <2>3 DEF Stands, DispatchCall, ReturnCall, IngestCall
<1>4. CASE c \in IngestCall
  <2>1. IngestStands(b) /\ c.key \in Key /\ c.return.packet \in PacketId
    BY <1>1, <1>4 DEF Stands, IngestCall
  <2>2. IngestStands(b)'
    BY <2>1 DEF IngestStands, FilesStay
  <2>. QED BY <1>4, <2>2 DEF Stands, DispatchCall, ReturnCall, IngestCall
<1>. QED BY <1>2, <1>3, <1>4 DEF Stands

(* A step of one verb that loses no file.                                  *)
LEMMA VerbShares ==
    ASSUME Shared, TypeInv', FilesStay, NEW a \in Agents, \A b \in Agents \ {a} : call'[b] = call[b],
           Stands(a)', FilesSound', PacketsHanded', UpstreamFirst', \A e \in log' \ log : Found(e)'
    PROVE  Shared'
<1>1. \A b \in Agents : Stands(b)'
  BY StandsStays
<1>2. LogIsFound'
  <2>. SUFFICES ASSUME NEW e \in log PROVE Found(e)'
    BY DEF LogIsFound
  <2>1. Found(e) /\ (IF e.event = "dispatch" THEN e.id \in PacketId ELSE e.id \in Key)
    BY DEF Shared, LogIsFound, TypeInv, TypeOK, Entry
  <2>. QED BY <2>1 DEF Found, FilesStay
<1>. QED BY <1>1, <1>2 DEF Shared

LEMMA CallShares ==
    ASSUME Shared, TypeInv', NEW a \in Agents, UNCHANGED <<packets, returns, log, handed>>,
           \A b \in Agents \ {a} : call'[b] = call[b], Stands(a)'
    PROVE  Shared'
<1>1. FilesStay
  BY DEF FilesStay
<1>2. FilesSound' /\ PacketsHanded' /\ UpstreamFirst'
  BY DEF Shared, FilesSound, PacketsCounted, ReturnsCounted, Follows, Referred, PacketsHanded,
         UpstreamFirst, UpstreamHanded
<1>. QED BY <1>1, <1>2, VerbShares

LEMMA Others ==
    ASSUME TypeInv, NEW a \in Agents, NEW c, call' = [call EXCEPT ![a] = c]
    PROVE  call'[a] = c /\ \A b \in Agents \ {a} : call'[b] = call[b]
BY DEF TypeInv, TypeOK

LEMMA BeginShares ==
    ASSUME Shared, TypeInv', NEW a \in Agents, Begin(a) PROVE Shared'
<1>1. UNCHANGED <<packets, returns, log, handed>> /\ \A b \in Agents \ {a} : call'[b] = call[b]
  BY DEF Begin, Decide, c00_orchestration_tick, dispatch_work_packet, return_to_c00, ingest, Start,
         files, bounds, Shared, TypeInv, TypeOK
<1>2. ASSUME NEW i \in PacketId, packets[i] \in WorkPacket
      PROVE  <<packets[i].layer, packets[i].origin>> \in handed
  BY <1>2 DEF Shared, PacketsHanded
<1>3. Stands(a)'
  <2>1. CASE c00_orchestration_tick(a)
    <3>1. PICK l \in DOWNSTREAM_CODES : Chosen(l) /\ Start(a, NewPacket(l, "loop", "ready"))
      BY <2>1 DEF c00_orchestration_tick
    <3>2. call'[a] = NewPacket(l, "loop", "ready")
      BY <3>1, Others DEF Start, Shared
    <3>3. Upstream(l) \subseteq Assigned
      BY <3>1, SpineAssumption DEF Chosen, Dispatchable
    <3>4. ASSUME NEW u \in Assigned PROVE \E h \in handed : h[1] = u
      <4>1. PICK i \in PacketId : packets[i] \in WorkPacket /\ u = packets[i].layer
        BY Files DEF Assigned, Legible, Written, Shared
      <4>2. <<packets[i].layer, packets[i].origin>> \in handed
        BY <1>2, <4>1
      <4>. QED BY <4>1, <4>2
    <3>5. UpstreamHanded(l)'
      BY <1>1, <3>3, <3>4 DEF UpstreamHanded
    <3>. QED BY <3>2, <3>5 DEF Stands, DispatchStands, ReturnCall, IngestCall, NewPacket
  <2>2. ASSUME NEW p \in HandPackets, dispatch_work_packet(a, p[1], p[2]) PROVE Stands(a)'
    <3>1. call'[a] = NewPacket(p[1], "hand", p[2])
      BY <2>2, Others DEF dispatch_work_packet, Start, Shared
    <3>. QED BY <3>1 DEF Stands, DispatchStands, ReturnCall, IngestCall, NewPacket
  <2>3. ASSUME NEW kind \in Kind, NEW i \in PacketId, return_to_c00(a, kind, i) PROVE Stands(a)'
    <3>. DEFINE key == <<kind, packets[i].layer, Cardinality(Returned(kind, packets[i].layer)) + 1>>
                pk == [packets[i] EXCEPT !.status = "blocked"]
    <3>1. /\ packets[i] \in WorkPacket /\ key \in Key
          /\ call'[a] = [verb |-> "return", at |-> "open_return", id |-> i, key |-> key, packet |-> pk,
                         return |-> [packet |-> i, decision |-> Undecided]]
      <4>1. i \in Legible(packets) /\ packets[i] \in WorkPacket
        BY <2>3, Files DEF return_to_c00, Legible, Written, Shared
      <4>. QED BY <2>3, <4>1, Others DEF return_to_c00, Start, Shared
    <3>2. Follows(key)
      <4>. DEFINE l == packets[i].layer
      <4>. HIDE DEF l
      <4>1. key = <<kind, l, Cardinality(Returned(kind, l)) + 1>>
        BY DEF l
      <4>. HIDE DEF key
      <4>. QED BY <3>1, <4>1, NextReturnId DEF Shared, FilesSound
    <3>3. pk.layer = packets[i].layer /\ pk.origin = packets[i].origin
      BY <3>1 DEF WorkPacket
    <3>4. packets[i] # NoFile /\ <<pk.layer, pk.origin>> \in handed
      BY <1>2, <3>1, <3>3, Distinct
    <3>. HIDE DEF key, pk
    <3>5. PICK k : k = key
      OBVIOUS
    <3>6. ReturnStands(a)'
      <4>1. \A j \in Series(k) : j[3] < k[3] => returns'[j] # NoFile
        BY <1>1, <3>2, <3>5 DEF Follows
      <4>2. call'[a].key = k /\ call'[a].id = i /\ call'[a].packet = pk /\ call'[a].at = "open_return"
            /\ call'[a].return.packet = i
        BY <3>1, <3>5
      <4>. QED BY <1>1, <3>4, <4>1, <4>2 DEF ReturnStands, Follows
    <3>. QED BY <3>1, <3>6 DEF Stands, DispatchCall, IngestCall
  <2>4. ASSUME NEW k \in Key, NEW decision \in Decisions, ingest(a, k, decision) PROVE Stands(a)'
    <3>. DEFINE new == [returns[k] EXCEPT !.decision = decision]
    <3>1. /\ returns[k] \in Return
          /\ call'[a] = [verb |-> "ingest", at |-> "open_return", key |-> k, return |-> new]
      <4>1. returns[k] \in Return
        BY <2>4, Files DEF ingest, Legible, Written, Shared
      <4>. QED BY <2>4, <4>1, Others DEF ingest, Start, Shared
    <3>2. new.packet = returns[k].packet
      BY <3>1 DEF Return
    <3>3. returns[k] # NoFile /\ packets[new.packet] # NoFile
      BY <3>1, <3>2, Distinct DEF Shared, FilesSound, Referred
    <3>. HIDE DEF new
    <3>4. IngestStands(a)'
      BY <1>1, <3>1, <3>3 DEF IngestStands
    <3>. QED BY <3>1, <3>4 DEF Stands, DispatchCall, ReturnCall
  <2>. QED BY <2>1, <2>2, <2>3, <2>4 DEF Begin, Decide
<1>. QED BY <1>1, <1>3, CallShares

LEMMA NumberShares ==
    ASSUME Shared, TypeInv', NEW a \in Agents, number(a) PROVE Shared'
<1>1. UNCHANGED <<packets, returns, log, handed>>
  BY DEF number, files
<1>2. PICK i \in PacketId : /\ i = Cardinality(Written(packets)) + 1
                            /\ call' = [call EXCEPT ![a].at = "open_packet", ![a].id = i]
  BY DEF number
<1>3. \A j \in PacketId : j < i => packets[j] # NoFile
  BY <1>2, NextPacketId DEF Shared, FilesSound
<1>4. call[a] \in DispatchCall
  BY Whose DEF number, At, Shared, TypeInv
<1>5. /\ call'[a] \in DispatchCall /\ call'[a].at = "open_packet" /\ call'[a].id = i
      /\ call'[a].packet = call[a].packet /\ \A b \in Agents \ {a} : call'[b] = call[b]
  BY <1>2, <1>4 DEF DispatchCall, DispatchStep, Shared, TypeInv, TypeOK
<1>6. call[a].packet.origin = "loop" => UpstreamHanded(call[a].packet.layer)
  BY <1>4 DEF Shared, Stands, DispatchStands
<1>7. DispatchStands(a)'
  BY <1>1, <1>3, <1>5, <1>6 DEF DispatchStands, UpstreamHanded
<1>8. Stands(a)'
  BY <1>5, <1>7 DEF Stands, DispatchCall, ReturnCall, IngestCall
<1>. QED BY <1>1, <1>5, <1>8, CallShares

(* What goes on of the verb that steps.                                    *)
LEMMA GoesOn ==
    ASSUME TypeInv, TypeInv', NEW a \in Agents, NEW step, Goto(a, step), call[a] # NoCall
    PROVE  /\ call'[a].at = step /\ call'[a] # NoCall
           /\ call[a] \in DispatchCall => /\ call'[a].id = call[a].id /\ call'[a].packet = call[a].packet
           /\ call[a] \in ReturnCall =>
                 /\ call'[a].id = call[a].id /\ call'[a].packet = call[a].packet
                 /\ call'[a].key = call[a].key /\ call'[a].return = call[a].return
           /\ call[a] \in IngestCall => /\ call'[a].key = call[a].key /\ call'[a].return = call[a].return
           /\ call'[a] \in DispatchCall <=> call[a] \in DispatchCall
           /\ call'[a] \in ReturnCall <=> call[a] \in ReturnCall
           /\ call'[a] \in IngestCall <=> call[a] \in IngestCall
           /\ \A b \in Agents \ {a} : call'[b] = call[b]
<1>1. \A b \in Agents \ {a} : call'[b] = call[b]
  BY Went, Others
<1>2. call'[a].at = step /\ call'[a] # NoCall /\ call'[a].verb = call[a].verb
  BY Onward
<1>3. /\ call[a] \in DispatchCall => /\ call'[a].id = call[a].id /\ call'[a].packet = call[a].packet
      /\ call[a] \in ReturnCall =>
            /\ call'[a].id = call[a].id /\ call'[a].packet = call[a].packet
            /\ call'[a].key = call[a].key /\ call'[a].return = call[a].return
      /\ call[a] \in IngestCall => /\ call'[a].key = call[a].key /\ call'[a].return = call[a].return
  BY Onward
<1>4. /\ call'[a] \in DispatchCall <=> call[a] \in DispatchCall
      /\ call'[a] \in ReturnCall <=> call[a] \in ReturnCall
      /\ call'[a] \in IngestCall <=> call[a] \in IngestCall
  BY <1>2, SameVerb
<1>. QED BY <1>1, <1>2, <1>3, <1>4

(* A torn or rewritten return stays a return; what follows it stays.       *)
LEMMA OpenReturnShares ==
    ASSUME Shared, TypeInv', NEW a \in Agents, open_return(a) PROVE Shared'
<1>. DEFINE c == call[a]
            d == call'[a]
<1>1. /\ UNCHANGED <<packets, log, handed>> /\ returns' = [returns EXCEPT ![c.key] = Torn]
      /\ c # NoCall /\ c.at = "open_return" /\ Goto(a, "fill_return")
  BY DEF open_return, At, bounds
<1>2. c \in ReturnCall \cup IngestCall /\ c.key \in Key /\ (c \in IngestCall => c.return.packet \in PacketId)
  BY <1>1, Whose DEF Shared, TypeInv, ReturnCall, IngestCall
<1>3. /\ d.at = "fill_return" /\ d.key = c.key /\ d.return = c.return /\ \A b \in Agents \ {a} : call'[b] = call[b]
      /\ c \in ReturnCall => d.id = c.id /\ d.packet = c.packet
      /\ (d \in ReturnCall <=> c \in ReturnCall) /\ (d \in IngestCall <=> c \in IngestCall)
      /\ (d \in DispatchCall <=> c \in DispatchCall)
  BY <1>1, <1>2, GoesOn DEF Shared
<1>4. (c \in ReturnCall => ReturnStands(a)) /\ (c \in IngestCall => IngestStands(a))
  BY DEF Shared, Stands
<1>5. c \notin DispatchCall
  BY <1>2 DEF DispatchCall, ReturnCall, IngestCall
<1>6. Follows(c.key)
  BY <1>2, <1>4 DEF ReturnStands, IngestStands, Shared, FilesSound, ReturnsCounted
<1>. HIDE DEF c, d
<1>7. returns'[c.key] = Torn /\ \A k \in Key : k # c.key => returns'[k] = returns[k]
  BY <1>1, <1>2 DEF Shared, TypeInv, TypeOK
<1>8. FilesStay
  BY <1>1, <1>7, Distinct DEF FilesStay
<1>9. FilesSound'
  <2>1. ReturnsCounted'
    <3>. SUFFICES ASSUME NEW k \in Key, returns'[k] # NoFile PROVE Follows(k)'
      BY DEF ReturnsCounted
    <3>1. Follows(k)
      BY <1>6, <1>7 DEF Shared, FilesSound, ReturnsCounted
    <3>. QED BY <1>8, <3>1, FollowsStays
  <2>2. Referred' /\ PacketsCounted'
    BY <1>1, <1>7, Distinct DEF Shared, FilesSound, Referred, PacketsCounted
  <2>. QED BY <2>1, <2>2 DEF FilesSound
<1>10. PacketsHanded' /\ UpstreamFirst'
  BY <1>1 DEF Shared, PacketsHanded, UpstreamFirst, UpstreamHanded
<1>11. Stands(a)'
  <2>1. PICK k \in Key : k = c.key
    BY <1>2
  <2>2. Follows(k)'
    BY <1>6, <1>8, <2>1, FollowsStays
  <2>3. c \in ReturnCall => ReturnStands(a)'
    BY <1>1, <1>3, <1>4, <1>7, <2>1, <2>2, Distinct DEF ReturnStands, c, d
  <2>4. c \in IngestCall => IngestStands(a)'
    BY <1>1, <1>3, <1>4, <1>7, Distinct DEF IngestStands, c, d
  <2>. QED BY <1>3, <1>5, <2>3, <2>4 DEF Stands, d
<1>. QED BY <1>1, <1>3, <1>8, <1>9, <1>10, <1>11, VerbShares

LEMMA FillReturnShares ==
    ASSUME Shared, TypeInv', NEW a \in Agents, fill_return(a) PROVE Shared'
<1>. DEFINE c == call[a]
            d == call'[a]
<1>1. /\ UNCHANGED <<packets, log, handed>> /\ returns' = [returns EXCEPT ![c.key] = c.return]
      /\ c # NoCall /\ c.at = "fill_return" /\ Goto(a, AfterReturn(c))
  BY DEF fill_return, At, bounds
<1>2. /\ c \in ReturnCall \cup IngestCall /\ c.key \in Key /\ c.return \in Return
      /\ c.return.packet \in PacketId
  BY <1>1, Whose DEF Shared, TypeInv, ReturnCall, IngestCall, Return
<1>3. PICK step : step = AfterReturn(c)
  OBVIOUS
<1>4. /\ d.at = step /\ d.key = c.key /\ d.return = c.return /\ \A b \in Agents \ {a} : call'[b] = call[b]
      /\ c \in ReturnCall => d.id = c.id /\ d.packet = c.packet
      /\ (d \in ReturnCall <=> c \in ReturnCall) /\ (d \in IngestCall <=> c \in IngestCall)
      /\ (d \in DispatchCall <=> c \in DispatchCall)
  BY <1>1, <1>2, <1>3, GoesOn DEF Shared
<1>5. (c \in ReturnCall => ReturnStands(a)) /\ (c \in IngestCall => IngestStands(a))
  BY DEF Shared, Stands
<1>6. c \notin DispatchCall
  BY <1>2 DEF DispatchCall, ReturnCall, IngestCall
<1>7. /\ returns[c.key] # NoFile /\ packets[c.return.packet] # NoFile /\ Follows(c.key)
  <2>1. returns[c.key] # NoFile /\ packets[c.return.packet] # NoFile
    BY <1>1, <1>2, <1>5 DEF ReturnStands, IngestStands
  <2>. QED BY <1>2, <2>1 DEF Shared, FilesSound, ReturnsCounted
<1>. HIDE DEF c, d
<1>8. returns'[c.key] = c.return /\ \A k \in Key : k # c.key => returns'[k] = returns[k]
  BY <1>1, <1>2 DEF Shared, TypeInv, TypeOK
<1>9. FilesStay
  BY <1>1, <1>2, <1>8, Distinct DEF FilesStay
<1>10. FilesSound'
  <2>1. ReturnsCounted'
    <3>. SUFFICES ASSUME NEW k \in Key, returns'[k] # NoFile PROVE Follows(k)'
      BY DEF ReturnsCounted
    <3>1. Follows(k)
      BY <1>7, <1>8 DEF Shared, FilesSound, ReturnsCounted
    <3>. QED BY <1>9, <3>1, FollowsStays
  <2>2. Referred' /\ PacketsCounted'
    BY <1>1, <1>7, <1>8 DEF Shared, FilesSound, Referred, PacketsCounted
  <2>. QED BY <2>1, <2>2 DEF FilesSound
<1>11. PacketsHanded' /\ UpstreamFirst'
  BY <1>1 DEF Shared, PacketsHanded, UpstreamFirst, UpstreamHanded
<1>12. Stands(a)'
  <2>1. PICK k \in Key : k = c.key
    BY <1>2
  <2>2. Follows(k)'
    BY <1>7, <1>9, <2>1, FollowsStays
  <2>3. returns'[k] # NoFile
    BY <1>7, <1>9, <2>1 DEF FilesStay
  <2>4. c \in ReturnCall => ReturnStands(a)'
    BY <1>1, <1>4, <1>5, <2>1, <2>2, <2>3 DEF ReturnStands, c, d
  <2>5. c \in IngestCall => IngestStands(a)'
    BY <1>1, <1>4, <1>7, <2>1, <2>3 DEF IngestStands, c, d
  <2>. QED BY <1>4, <1>6, <2>4, <2>5 DEF Stands, d
<1>. QED BY <1>1, <1>4, <1>9, <1>10, <1>11, <1>12, VerbShares

(* A number's predecessors are there when its file is made, whoever makes  *)
(* it first.                                                               *)
LEMMA OpenPacketShares ==
    ASSUME Shared, TypeInv', NEW a \in Agents, open_packet(a) PROVE Shared'
<1>. DEFINE c == call[a]
            d == call'[a]
<1>1. /\ UNCHANGED <<returns, log, handed>> /\ packets' = [packets EXCEPT ![c.id] = Torn]
      /\ c # NoCall /\ c.at = "open_packet" /\ Goto(a, "fill_packet")
  BY DEF open_packet, At, bounds
<1>2. c \in DispatchCall \cup ReturnCall /\ c.id \in PacketId /\ (c \in ReturnCall => c.key \in Key)
  BY <1>1, Whose DEF Shared, TypeInv, ReturnCall
<1>3. /\ d.at = "fill_packet" /\ d.id = c.id /\ d.packet = c.packet /\ \A b \in Agents \ {a} : call'[b] = call[b]
      /\ c \in ReturnCall => d.key = c.key /\ d.return = c.return
      /\ (d \in ReturnCall <=> c \in ReturnCall) /\ (d \in IngestCall <=> c \in IngestCall)
      /\ (d \in DispatchCall <=> c \in DispatchCall)
  BY <1>1, <1>2, GoesOn DEF Shared
<1>4. (c \in ReturnCall => ReturnStands(a)) /\ (c \in DispatchCall => DispatchStands(a))
  BY DEF Shared, Stands
<1>5. c \notin IngestCall
  BY <1>2 DEF DispatchCall, ReturnCall, IngestCall
<1>6. \A j \in PacketId : j < c.id => packets[j] # NoFile
  <2>1. CASE c \in DispatchCall
    BY <1>1, <1>4, <2>1 DEF DispatchStands
  <2>2. CASE c \in ReturnCall
    BY <1>2, <1>4, <2>2 DEF ReturnStands, Shared, FilesSound, PacketsCounted
  <2>. QED BY <1>2, <2>1, <2>2
<1>. HIDE DEF c, d
<1>7. packets'[c.id] = Torn /\ \A i \in PacketId : i # c.id => packets'[i] = packets[i]
  BY <1>1, <1>2 DEF Shared, TypeInv, TypeOK
<1>8. FilesStay
  BY <1>1, <1>7, Distinct DEF FilesStay
<1>9. FilesSound'
  <2>1. PacketsCounted'
    <3>. SUFFICES ASSUME NEW i \in PacketId, NEW j \in PacketId, j < i, packets'[i] # NoFile
                  PROVE  packets'[j] # NoFile
      BY DEF PacketsCounted
    <3>1. packets[j] # NoFile
      BY <1>6, <1>7 DEF Shared, FilesSound, PacketsCounted
    <3>. QED BY <1>8, <3>1 DEF FilesStay
  <2>2. Referred'
    <3>1. \A k \in Key : returns[k] \in Return => returns[k].packet \in PacketId
      BY DEF Return
    <3>. QED BY <1>1, <1>8, <3>1 DEF Shared, FilesSound, Referred, FilesStay
  <2>3. ReturnsCounted'
    BY <1>1 DEF Shared, FilesSound, ReturnsCounted, Follows
  <2>. QED BY <2>1, <2>2, <2>3 DEF FilesSound
<1>10. PacketsHanded' /\ UpstreamFirst'
  BY <1>1, <1>7, Distinct DEF Shared, PacketsHanded, UpstreamFirst, UpstreamHanded
<1>11. Stands(a)'
  <2>1. PICK i \in PacketId : i = c.id
    BY <1>2
  <2>2. packets'[i] # NoFile /\ \A j \in PacketId : j < i => packets'[j] # NoFile
    BY <1>6, <1>7, <1>8, <2>1, Distinct DEF FilesStay
  <2>3. c \in DispatchCall => DispatchStands(a)'
    BY <1>1, <1>3, <1>4, <2>1, <2>2 DEF DispatchStands, UpstreamHanded, c, d
  <2>4. c \in ReturnCall => ReturnStands(a)'
    BY <1>1, <1>2, <1>3, <1>4, <2>1, <2>2 DEF ReturnStands, Follows, c, d
  <2>. QED BY <1>3, <1>5, <2>3, <2>4 DEF Stands, d
<1>. QED BY <1>1, <1>3, <1>8, <1>9, <1>10, <1>11, VerbShares

LEMMA FillPacketShares ==
    ASSUME Shared, TypeInv', NEW a \in Agents, fill_packet(a) PROVE Shared'
<1>. DEFINE c == call[a]
            d == call'[a]
            new == <<c.packet.layer, c.packet.origin>>
<1>1. /\ UNCHANGED <<returns, log>> /\ packets' = [packets EXCEPT ![c.id] = c.packet]
      /\ handed' = handed \cup {new}
      /\ c # NoCall /\ c.at = "fill_packet" /\ Goto(a, "append")
  BY DEF fill_packet, At, bounds
<1>2. /\ c \in DispatchCall \cup ReturnCall /\ c.id \in PacketId /\ c.packet \in WorkPacket
      /\ c \in ReturnCall => c.key \in Key
  BY <1>1, Whose DEF Shared, TypeInv, ReturnCall, DispatchCall
<1>3. /\ d.at = "append" /\ d.id = c.id /\ d.packet = c.packet /\ \A b \in Agents \ {a} : call'[b] = call[b]
      /\ c \in ReturnCall => d.key = c.key /\ d.return = c.return
      /\ (d \in ReturnCall <=> c \in ReturnCall) /\ (d \in IngestCall <=> c \in IngestCall)
      /\ (d \in DispatchCall <=> c \in DispatchCall)
  BY <1>1, <1>2, GoesOn DEF Shared
<1>4. (c \in ReturnCall => ReturnStands(a)) /\ (c \in DispatchCall => DispatchStands(a))
  BY DEF Shared, Stands
<1>5. c \notin IngestCall
  BY <1>2 DEF DispatchCall, ReturnCall, IngestCall
<1>6. packets[c.id] # NoFile
  BY <1>1, <1>2, <1>4 DEF DispatchStands, ReturnStands
<1>7. c.packet.origin = "loop" => UpstreamHanded(c.packet.layer)
  <2>1. CASE c \in DispatchCall
    BY <1>4, <2>1 DEF DispatchStands
  <2>2. CASE c \in ReturnCall
    BY <1>4, <2>2 DEF ReturnStands, Shared, UpstreamFirst
  <2>. QED BY <1>2, <2>1, <2>2
<1>. HIDE DEF c, d
<1>8. packets'[c.id] = c.packet /\ \A i \in PacketId : i # c.id => packets'[i] = packets[i]
  BY <1>1, <1>2 DEF Shared, TypeInv, TypeOK
<1>9. FilesStay
  BY <1>1, <1>2, <1>8, Distinct DEF FilesStay
<1>10. \A i \in PacketId : packets'[i] # NoFile => packets[i] # NoFile
  BY <1>6, <1>8
<1>11. FilesSound'
  <2>1. PacketsCounted'
    BY <1>9, <1>10 DEF Shared, FilesSound, PacketsCounted, FilesStay
  <2>2. Referred'
    <3>1. \A k \in Key : returns[k] \in Return => returns[k].packet \in PacketId
      BY DEF Return
    <3>. QED BY <1>1, <1>9, <3>1 DEF Shared, FilesSound, Referred, FilesStay
  <2>3. ReturnsCounted'
    BY <1>1 DEF Shared, FilesSound, ReturnsCounted, Follows
  <2>. QED BY <2>1, <2>2, <2>3 DEF FilesSound
<1>12. PacketsHanded'
  <2>. SUFFICES ASSUME NEW i \in PacketId, packets'[i] \in WorkPacket
                PROVE  <<packets'[i].layer, packets'[i].origin>> \in handed'
    BY DEF PacketsHanded
  <2>1. CASE i = c.id
    BY <1>1, <1>8, <2>1 DEF c
  <2>2. CASE i # c.id
    BY <1>1, <1>8, <2>2 DEF Shared, PacketsHanded
  <2>. QED BY <2>1, <2>2
<1>13. UpstreamFirst'
  <2>. SUFFICES ASSUME NEW h \in handed', h[2] = "loop" PROVE UpstreamHanded(h[1])'
    BY DEF UpstreamFirst
  <2>1. UpstreamHanded(h[1])
    BY <1>1, <1>7 DEF Shared, UpstreamFirst
  <2>. QED BY <1>9, <2>1, HandedStays
<1>14. Stands(a)'
  <2>1. PICK i \in PacketId : i = c.id
    BY <1>2
  <2>2. PICK l : l = c.packet.layer
    OBVIOUS
  <2>3. packets'[i] # NoFile /\ (c.packet.origin = "loop" => UpstreamHanded(l)')
    BY <1>6, <1>7, <1>9, <2>1, <2>2, HandedStays DEF FilesStay
  <2>4. \A j \in PacketId : j < i => packets'[j] # NoFile
    BY <1>6, <1>9, <2>1 DEF Shared, FilesSound, PacketsCounted, FilesStay
  <2>5. c \in DispatchCall => DispatchStands(a)'
    BY <1>3, <2>1, <2>2, <2>3, <2>4 DEF DispatchStands, c, d
  <2>6. c \in ReturnCall => ReturnStands(a)'
    BY <1>1, <1>2, <1>3, <1>4, <2>1, <2>3 DEF ReturnStands, Follows, c, d
  <2>. QED BY <1>3, <1>5, <2>5, <2>6 DEF Stands, d
<1>. QED BY <1>1, <1>3, <1>9, <1>11, <1>12, <1>13, <1>14, VerbShares

LEMMA EndShares ==
    ASSUME Shared, TypeInv', NEW a \in Agents, append_log(a) \/ crash(a) PROVE Shared'
<1>. DEFINE c == call[a]
<1>1. /\ UNCHANGED <<packets, returns, handed>> /\ c # NoCall
      /\ call' = [call EXCEPT ![a] = NoCall]
      /\ log' = log \/ (c.at = "append" /\ log' = log \cup {EntryOf(c)})
  BY DEF append_log, crash, At, bounds, files
<1>2. call'[a] = NoCall /\ \A b \in Agents \ {a} : call'[b] = call[b]
  BY <1>1, Others DEF Shared
<1>3. FilesStay
  BY <1>1 DEF FilesStay
<1>4. FilesSound' /\ PacketsHanded' /\ UpstreamFirst'
  BY <1>1 DEF Shared, FilesSound, PacketsCounted, ReturnsCounted, Follows, Referred, PacketsHanded,
              UpstreamFirst, UpstreamHanded
<1>5. Stands(a)'
  BY <1>2, Distinct DEF Stands
<1>6. ASSUME NEW e \in log' \ log PROVE Found(e)'
  <2>1. c.at = "append" /\ e = EntryOf(c)
    BY <1>1, <1>6
  <2>2. c \in DispatchCall \/ c \in ReturnCall \/ c \in IngestCall
    BY <1>1 DEF Shared, TypeInv, InStep
  <2>3. Stands(a)
    BY DEF Shared
  <2>4. CASE c \in DispatchCall
    <3>1. e = [event |-> "dispatch", id |-> c.id, layer |-> c.packet.layer] /\ packets[c.id] # NoFile
      BY <2>1, <2>3, <2>4 DEF EntryOf, DispatchCall, Stands, DispatchStands
    <3>2. e.event = "dispatch" /\ packets'[e.id] # NoFile
      BY <1>1, <3>1
    <3>. QED BY <3>2 DEF Found
  <2>5. CASE c \in ReturnCall
    <3>1. e = [event |-> "return", id |-> c.key, packet |-> c.id] /\ returns[c.key] # NoFile
      BY <2>1, <2>3, <2>5 DEF EntryOf, ReturnCall, Stands, ReturnStands
    <3>2. e.event # "dispatch" /\ returns'[e.id] # NoFile
      BY <1>1, <3>1
    <3>. QED BY <3>2 DEF Found
  <2>6. CASE c \in IngestCall
    <3>1. e = [event |-> "ingest", id |-> c.key, decision |-> c.return.decision] /\ returns[c.key] # NoFile
      BY <2>1, <2>3, <2>6 DEF EntryOf, IngestCall, Stands, IngestStands
    <3>2. e.event # "dispatch" /\ returns'[e.id] # NoFile
      BY <1>1, <3>1
    <3>. QED BY <3>2 DEF Found
  <2>. QED BY <2>2, <2>4, <2>5, <2>6
<1>. QED BY <1>2, <1>3, <1>4, <1>5, <1>6, VerbShares

LEMMA OwnerShares ==
    ASSUME Shared, TypeInv', UNCHANGED <<files, call, handed>> PROVE Shared'
<1>1. UNCHANGED <<packets, returns, log, call, handed>>
  BY DEF files
<1>2. FilesStay
  BY <1>1 DEF FilesStay
<1>3. \A b \in Agents : Stands(b)'
  BY <1>1, <1>2, StandsStays
<1>4. FilesSound' /\ PacketsHanded' /\ UpstreamFirst' /\ LogIsFound'
  BY <1>1 DEF Shared, FilesSound, PacketsCounted, ReturnsCounted, Follows, Referred, PacketsHanded,
              UpstreamFirst, UpstreamHanded, LogIsFound, Found
<1>. QED BY <1>3, <1>4 DEF Shared

LEMMA NextShared == Shared /\ [Next]_vars => Shared'
<1>. SUFFICES ASSUME Shared, [Next]_vars PROVE Shared'
  OBVIOUS
<1>1. TypeInv'
  BY NextTyped DEF Shared
<1>2. ASSUME NEW a \in Agents, Begin(a) \/ Write(a) \/ crash(a) PROVE Shared'
  BY <1>1, <1>2, BeginShares, NumberShares, OpenReturnShares, FillReturnShares, OpenPacketShares,
     FillPacketShares, EndShares DEF Write
<1>3. ASSUME NEW s \in Sections, answer(s) \/ reopen(s) PROVE Shared'
  BY <1>1, <1>3, OwnerShares DEF answer, reopen
<1>4. CASE add_refs \/ UNCHANGED vars
  BY <1>1, <1>4, OwnerShares DEF add_refs, vars
<1>. QED BY <1>2, <1>3, <1>4 DEF Next

(* However many verbs overlap, and wherever one is killed, packets and     *)
(* returns are numbered without gaps, what the log names or a return is    *)
(* about is there, and the loop has not driven C04 before C01 and C03 had  *)
(* their work.                                                             *)
THEOREM OverlapLosesNoFile == Spec => [](FilesSound /\ LogIsFound /\ UpstreamFirst)
<1>1. Shared => FilesSound /\ LogIsFound /\ UpstreamFirst
  BY DEF Shared
<1>. QED BY <1>1, InitShared, NextShared, PTL DEF Spec

=============================================================================
