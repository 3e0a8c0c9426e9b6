----------------------------- MODULE BlockerHub -----------------------------
(***************************************************************************)
(* The blocker hub of packages/workflow-core/.../blocker_hub.py and the    *)
(* landing verb blocker_record that is its only caller in the program.     *)
(*                                                                         *)
(* A hub keeps its records in memory and copies each to BLK-nnn.json when  *)
(* it changes; it never reads a file back.  A hub lives as long as its     *)
(* process: NewHub starts another one over the same directory, with empty  *)
(* memory and the counter at 1, which is also how blocker_record begins.   *)
(*                                                                         *)
(* `issue' stands for what a record says of the failure (step, error code, *)
(* summary, evidence).  `logged' and `orders' are history variables.  The  *)
(* names SubstateMachine has too carry `Hub' here, so that a module can    *)
(* extend both.                                                            *)
(***************************************************************************)
EXTENDS Naturals

CONSTANTS
    Issues,         \* the failures agents may report
    MaxBlockers,    \* bound: records one hub creates
    MaxDispatches,  \* bound: repair orders asked for one record
    MaxHubs         \* bound: hubs started over the directory

ASSUME BoundsAssumption == MaxBlockers \in Nat /\ MaxDispatches \in Nat /\ MaxHubs \in Nat

VARIABLES
    blockers,   \* _blockers: records of the live hub, by number
    disk,       \* BLK-nnn.json files, by number
    counter,    \* _counter
    hubs,       \* hubs started so far
    logged,     \* every issue a caller was told is recorded
    orders      \* per record of the live hub: repair orders it was handed

hubVars == <<blockers, disk, counter, hubs, logged, orders>>

Ids == 1 .. MaxBlockers
Status == {"OPEN", "ROUTED", "RESOLVED", "ESCALATED"}
MaxRetries == 0 .. 2        \* values of max_retries callers pass; 2 is the default

Record == [issue: Issues, retry_count: Nat, max_retries: MaxRetries, status: Status]
None == [issue |-> "none"]

HubInit ==
    /\ blockers = [i \in Ids |-> None]
    /\ disk = [i \in Ids |-> None]
    /\ counter = 1
    /\ hubs = 1
    /\ logged = {}
    /\ orders = [i \in Ids |-> 0]

(* _persist writes the record the hub has just changed. *)
Persist(i, record) ==
    /\ blockers' = [blockers EXCEPT ![i] = record]
    /\ disk' = [disk EXCEPT ![i] = record]

create_blocker(issue, max) ==
    /\ counter \in Ids
    /\ Persist(counter, [issue |-> issue, retry_count |-> 0, max_retries |-> max,
                         status |-> "OPEN"])
    /\ counter' = counter + 1
    /\ logged' = logged \cup {issue}
    /\ UNCHANGED <<hubs, orders>>

MutantExhausted(record) == record.retry_count > record.max_retries

(* dispatch_repair counts the retry first and compares afterwards. *)
Exhausted(record) == record.retry_count + 1 > record.max_retries

MutantDispatch(i) ==
    /\ blockers[i] # None
    /\ blockers[i].status # "RESOLVED"
    /\ orders[i] < MaxDispatches
    /\ LET exhausted == Exhausted(blockers[i])
       IN /\ Persist(i, [blockers[i] EXCEPT
                             !.retry_count = IF exhausted THEN 0 ELSE @ + 1,
                             !.status = IF exhausted THEN "ESCALATED" ELSE "ROUTED"])
          /\ orders' = [orders EXCEPT ![i] = IF exhausted THEN @ ELSE @ + 1]
    /\ UNCHANGED <<counter, hubs, logged>>

dispatch_repair(i) ==
    /\ blockers[i] # None
    /\ blockers[i].status # "RESOLVED"
    /\ blockers[i].retry_count < MaxDispatches
    /\ LET exhausted == Exhausted(blockers[i])
       IN /\ Persist(i, [blockers[i] EXCEPT
                             !.retry_count = @ + 1,
                             !.status = IF exhausted THEN "ESCALATED" ELSE "ROUTED"])
          /\ orders' = [orders EXCEPT ![i] = IF exhausted THEN @ ELSE @ + 1]
    /\ UNCHANGED <<counter, hubs, logged>>

MutantResolve(i) ==
    /\ blockers[i] # None
    /\ blockers' = [blockers EXCEPT ![i].status = "RESOLVED"]
    /\ UNCHANGED <<disk, counter, hubs, logged, orders>>

resolve_blocker(i) ==
    /\ blockers[i] # None
    /\ Persist(i, [blockers[i] EXCEPT !.status = "RESOLVED"])
    /\ UNCHANGED <<counter, hubs, logged, orders>>

(* BlockerHub(storage_dir) in a new process. *)
NewHub ==
    /\ hubs < MaxHubs
    /\ hubs' = hubs + 1
    /\ blockers' = [i \in Ids |-> None]
    /\ counter' = 1
    /\ orders' = [i \in Ids |-> 0]
    /\ UNCHANGED <<disk, logged>>

(* gate.py blocker_record: a hub of its own for a single create_blocker. *)
blocker_record(issue, max) ==
    /\ hubs < MaxHubs
    /\ hubs' = hubs + 1
    /\ disk' = [disk EXCEPT ![1] = [issue |-> issue, retry_count |-> 0,
                                    max_retries |-> max, status |-> "OPEN"]]
    /\ logged' = logged \cup {issue}
    /\ UNCHANGED <<blockers, counter, orders>>

----------------------------------------------------------------------------
Live ==
    \/ \E issue \in Issues, max \in MaxRetries : create_blocker(issue, max)
    \/ \E i \in Ids : dispatch_repair(i) \/ resolve_blocker(i)

HubNext ==
    \/ Live
    \/ NewHub
    \/ \E issue \in Issues, max \in MaxRetries : blocker_record(issue, max)

HubSpec == HubInit /\ [][HubNext]_hubVars

----------------------------------------------------------------------------
(* Properties *)

(* The variables keep to their types. *)
HubTypeOK ==
    /\ blockers \in [Ids -> Record \cup {None}]
    /\ disk \in [Ids -> Record \cup {None}]
    /\ counter \in 1 .. MaxBlockers + 1
    /\ hubs \in Nat \ {0}
    /\ logged \subseteq Issues
    /\ orders \in [Ids -> Nat]

(* A hub hands out at most max_retries repair orders for one record, and a *)
(* record it still routes has not used them up unnoticed: the loop between *)
(* a failing gate and its repairer is cut.                                 *)
RetryBound ==
    \A i \in Ids : blockers[i] # None =>
        /\ orders[i] <= blockers[i].max_retries
        /\ blockers[i].status = "ROUTED" => orders[i] = blockers[i].retry_count

(* An escalated record is never sent back to a repairer: until it is       *)
(* resolved it stays with the orchestrator, however often it is dispatched.*)
EscalationSticks ==
    [][\A i \in Ids :
          hubs' = hubs /\ blockers[i] # None /\ blockers[i].status = "ESCALATED"
              => blockers'[i].status \in {"ESCALATED", "RESOLVED"}]_hubVars

(* As long as one hub owns the directory, the files say what its memory    *)
(* says and every reported issue has a file.                               *)
FilesFollowMemory ==
    hubs = 1 => /\ disk = blockers
                /\ \A issue \in logged : \E i \in Ids : disk[i] # None /\ disk[i].issue = issue

(* The verb promises a structured BLK-nnn.json for each blocker: what a    *)
(* caller was told is recorded can be found in the directory.              *)
NothingForgotten == \A issue \in logged : \E i \in Ids : disk[i] # None /\ disk[i].issue = issue

=============================================================================
