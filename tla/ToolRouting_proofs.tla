-------------------------- MODULE ToolRouting_proofs --------------------------
(***************************************************************************)
(* Proofs about ToolRouting for any calls, tools, groups and bounds.  A    *)
(* call may leave several jobs behind at its worker, one for each time the *)
(* core gave up on it; the worker takes them in the order they came, and   *)
(* only the last can still be answered (LastIsLive).  So when the answer   *)
(* comes nothing of the call is left.                                      *)
(***************************************************************************)
EXTENDS ToolRouting, TLAPS

(* What the core runs itself is the call's own and unanswered.             *)
LocalRuns ==
    \A c \in Calls : run[c] # Nothing => run[c].call = c /\ run[c].live /\ call[c] = "running"

RunningIsLocal == \A c \in Calls : call[c] = "running" => Route(c) = "local"

(* What a worker runs or keeps waiting was sent to it.                     *)
SentToWorker(c, g) == Route(c) = "forward" /\ GroupOf(c) = g
WorkerRuns ==
    \A g \in Groups :
        /\ run[g] # Nothing => SentToWorker(run[g].call, g)
        /\ \A i \in DOMAIN queue[g] : SentToWorker(queue[g][i].call, g)

(* The core waits for what is live.                                        *)
LiveIsForwarded ==
    \A g \in Groups :
        /\ run[g] # Nothing /\ run[g].live => call[run[g].call] = "forwarded"
        /\ \A i \in DOMAIN queue[g] : queue[g][i].live => call[queue[g][i].call] = "forwarded"

(* Nothing of a call comes after its live job.                             *)
LastIsLive ==
    \A g \in Groups :
        /\ run[g] # Nothing /\ run[g].live => \A i \in DOMAIN queue[g] : queue[g][i].call # run[g].call
        /\ \A i, j \in DOMAIN queue[g] : i < j /\ queue[g][i].live => queue[g][j].call # queue[g][i].call

Answers == LocalRuns /\ RunningIsLocal /\ WorkerRuns /\ LiveIsForwarded /\ LastIsLive /\ AnsweredIsSettled

(* While clients call one after another one call is under way, and so is   *)
(* at most one run: what changes, that run wrote itself.                   *)
Idle == Over \cup {"new"}
NewIsUnknown ==
    \A c \in Calls : call[c] = "new" =>
        /\ \A e \in Executors : run[e] # Nothing => run[e].call # c
        /\ \A g \in Groups : \A i \in DOMAIN queue[g] : queue[g][i].call # c
OneByOne == \A c, d \in Calls : call[c] \notin Idle /\ call[d] \notin Idle => c = d
OwnChanges == \A e \in Executors : run[e] # Nothing => run[e].changed \subseteq run[e].wrote
Owned == NewIsUnknown /\ (~ overlap => OneByOne /\ OwnChanges) /\ ReadyIsOwn

----------------------------------------------------------------------------
(* Types *)

LEMMA NothingRuns == Nothing \notin Run
BY DEF Nothing, Run

LEMMA StartedRun ==
    ASSUME NEW c \in Calls, NEW live \in BOOLEAN, NEW todo \in SUBSET Files
    PROVE  /\ Started(c, live, todo) \in Run
           /\ Started(c, live, todo).call = c /\ Started(c, live, todo).live = live
BY DEF Started, Run

(* A write changes files only.                                             *)
LEMMA WritingKeeps ==
    ASSUME TypeOK, NEW f \in Files, NEW e, run' = Written(f, e)
    PROVE  /\ run' \in [Executors -> Run \cup {Nothing}]
           /\ \A x \in Executors : /\ run'[x] = Nothing <=> run[x] = Nothing
                                   /\ run[x] # Nothing => run'[x].call = run[x].call /\ run'[x].live = run[x].live
<1> SUFFICES ASSUME NEW x \in Executors
             PROVE /\ Written(f, e)[x] \in Run \cup {Nothing}
                   /\ Written(f, e)[x] = Nothing <=> run[x] = Nothing
                   /\ run[x] # Nothing => Written(f, e)[x].call = run[x].call /\ Written(f, e)[x].live = run[x].live
  BY DEF Written
<1>1. CASE run[x] = Nothing
  BY <1>1 DEF Written
<1>2. CASE run[x] # Nothing
  <2> DEFINE r == run[x]
             wrote == IF x = e THEN r.wrote \cup {f} ELSE r.wrote
             todo == IF x = e THEN r.todo \ {f} ELSE r.todo
             new == [r EXCEPT !.changed = r.changed \cup {f}, !.wrote = wrote, !.todo = todo]
  <2>1. r \in Run
    BY <1>2 DEF TypeOK
  <2>2. wrote \in SUBSET Files /\ todo \in SUBSET Files /\ r.changed \cup {f} \in SUBSET Files
    BY <2>1 DEF Run
  <2>3. Written(f, e)[x] = new
    BY <1>2 DEF Written
  <2> HIDE DEF wrote, todo
  <2>4. new \in Run /\ new.call = r.call /\ new.live = r.live
    BY <2>1, <2>2 DEF Run
  <2>5. QED
    BY <1>2, <2>3, <2>4, NothingRuns
<1>3. QED
  BY <1>1, <1>2

(* Orphaning makes the jobs and runs of some calls dead, and ends what the *)
(* core runs for them.                                                     *)
LEMMA Orphaning ==
    ASSUME TypeOK, NEW C, Orphaned(C)
    PROVE  /\ run' \in [Executors -> Run \cup {Nothing}]
           /\ \A x \in Executors : run'[x] # Nothing =>
                 /\ run[x] # Nothing /\ x \notin C /\ run'[x].call = run[x].call
                 /\ run'[x].live <=> run[x].live /\ run[x].call \notin C
                 /\ run'[x].wrote = run[x].wrote /\ run'[x].changed = run[x].changed
           /\ queue' \in [Groups -> Seq(Job)]
           /\ \A g \in Groups : DOMAIN queue'[g] = DOMAIN queue[g] /\ Len(queue'[g]) = Len(queue[g])
           /\ \A g \in Groups : \A i \in DOMAIN queue[g] :
                 /\ queue'[g][i].call = queue[g][i].call
                 /\ queue'[g][i].live <=> queue[g][i].live /\ queue[g][i].call \notin C
<1>1. ASSUME NEW x \in Executors
      PROVE /\ run'[x] \in Run \cup {Nothing}
            /\ run'[x] # Nothing =>
                 /\ run[x] # Nothing /\ x \notin C /\ run'[x].call = run[x].call
                 /\ run'[x].live <=> run[x].live /\ run[x].call \notin C
                 /\ run'[x].wrote = run[x].wrote /\ run'[x].changed = run[x].changed
  <2>1. CASE run[x] = Nothing \/ x \in C
    BY <2>1 DEF Orphaned
  <2>2. CASE ~ (run[x] = Nothing \/ x \in C)
    <3> DEFINE r == run[x]
               live == (r.live /\ r.call \notin C)
               new == [r EXCEPT !.live = live]
    <3>1. r \in Run
      BY <2>2 DEF TypeOK
    <3>2. live \in BOOLEAN /\ run'[x] = new
      BY <2>2, <3>1 DEF Orphaned, Run
    <3> HIDE DEF live
    <3>3. /\ new \in Run /\ new.call = r.call /\ new.live = live
          /\ new.wrote = r.wrote /\ new.changed = r.changed
      BY <3>1, <3>2 DEF Run
    <3>4. QED
      BY <2>2, <3>2, <3>3 DEF live
  <2>3. QED
    BY <2>1, <2>2
<1>2. run' \in [Executors -> Run \cup {Nothing}]
  BY <1>1 DEF Orphaned
<1>3. ASSUME NEW g \in Groups
      PROVE /\ queue'[g] \in Seq(Job) /\ DOMAIN queue'[g] = DOMAIN queue[g] /\ Len(queue'[g]) = Len(queue[g])
            /\ \A i \in DOMAIN queue[g] :
                 /\ queue'[g][i].call = queue[g][i].call
                 /\ queue'[g][i].live <=> queue[g][i].live /\ queue[g][i].call \notin C
  <2> DEFINE q == queue[g]
             dead == [i \in DOMAIN q |-> [q[i] EXCEPT !.live = q[i].live /\ q[i].call \notin C]]
  <2>1. q \in Seq(Job) /\ queue'[g] = dead
    BY DEF TypeOK, Orphaned
  <2>2. ASSUME NEW i \in DOMAIN q
        PROVE /\ dead[i] \in Job /\ dead[i].call = q[i].call
              /\ dead[i].live <=> q[i].live /\ q[i].call \notin C
    <3> DEFINE live == (q[i].live /\ q[i].call \notin C)
    <3>1. q[i] \in Job
      BY <2>1, <2>2
    <3>2. live \in BOOLEAN /\ dead[i] = [q[i] EXCEPT !.live = live]
      BY <2>2, <3>1 DEF Job
    <3> HIDE DEF live, dead
    <3>3. dead[i] \in Job /\ dead[i].call = q[i].call /\ dead[i].live = live
      BY <3>1, <3>2 DEF Job
    <3>4. QED
      BY <3>3 DEF live
  <2>3. DOMAIN q = 1..Len(q) /\ Len(q) \in Nat /\ DOMAIN dead = DOMAIN q
    BY <2>1
  <2> HIDE DEF dead, q
  <2>4. dead \in [1..Len(q) -> Job]
    <3>1. dead = [i \in DOMAIN q |-> dead[i]]
      BY DEF dead
    <3>2. QED
      BY <2>2, <2>3, <3>1
  <2>5. dead \in Seq(Job) /\ Len(dead) = Len(q)
    BY <2>3, <2>4
  <2>6. QED
    BY <2>1, <2>2, <2>3, <2>5 DEF q
<1>4. queue' \in [Groups -> Seq(Job)]
  BY <1>3 DEF Orphaned
<1>5. QED
  BY <1>1, <1>2, <1>3, <1>4

(* A worker takes the first of the calls that wait.                        *)
LEMMA TakingTheFirst ==
    ASSUME NEW q \in Seq(Job), q # <<>>
    PROVE  /\ RemoveAt(q, 1) \in Seq(Job) /\ Len(RemoveAt(q, 1)) = Len(q) - 1 /\ Len(q) \in Nat \ {0}
           /\ 1 \in DOMAIN q /\ q[1] \in Job
           /\ \A i \in DOMAIN RemoveAt(q, 1) : i + 1 \in DOMAIN q /\ RemoveAt(q, 1)[i] = q[i + 1]
<1>1. Len(q) \in Nat \ {0} /\ DOMAIN q = 1..Len(q) /\ 1 \in DOMAIN q /\ q[1] \in Job
  <2>1. Len(q) \in Nat /\ DOMAIN q = 1..Len(q) /\ Len(q) # 0
    OBVIOUS
  <2>2. 1 \in DOMAIN q
    BY <2>1
  <2>3. QED
    BY <2>1, <2>2
<1>2. SubSeq(q, 1, 0) = <<>>
  BY <1>1
<1>3. SubSeq(q, 2, Len(q)) \in Seq(Job) /\ Len(SubSeq(q, 2, Len(q))) = Len(q) - 1
      /\ \A i \in 1..(Len(q) - 1) : SubSeq(q, 2, Len(q))[i] = q[i + 1]
  BY <1>1
<1>4. RemoveAt(q, 1) = SubSeq(q, 2, Len(q))
  BY <1>2, <1>3 DEF RemoveAt
<1>5. DOMAIN RemoveAt(q, 1) = 1..(Len(q) - 1)
  BY <1>1, <1>3, <1>4
<1> DEFINE rest == RemoveAt(q, 1)
<1>6. rest \in Seq(Job) /\ Len(rest) = Len(q) - 1
  BY <1>3, <1>4
<1>7. \A i \in DOMAIN rest : i + 1 \in DOMAIN q /\ rest[i] = q[i + 1]
  <2> SUFFICES ASSUME NEW i \in 1..(Len(q) - 1) PROVE i + 1 \in DOMAIN q /\ rest[i] = q[i + 1]
    BY <1>5
  <2>1. i + 1 \in 1..Len(q)
    BY <1>1
  <2>2. rest[i] = q[i + 1]
    BY <1>3, <1>4
  <2>3. QED
    BY <1>1, <2>1, <2>2
<1> HIDE DEF rest
<1>8. QED
  BY <1>1, <1>6, <1>7 DEF rest

(* A run ends with one of two answers, or the core takes its exception for *)
(* a worker that is starting.                                              *)
Ends == {"ok", "error", "worker_starting"}

LEMMA Finishing ==
    ASSUME TypeOK, NEW e \in Executors, finish(e) \/ fail(e)
    PROVE  /\ run[e] \in Run /\ run[e] # Nothing
           /\ run' = [run EXCEPT ![e] = Nothing]
           /\ run[e].live => \E answer \in Ends : call' = [call EXCEPT ![run[e].call] = answer]
           /\ ~ run[e].live => call' = call
           /\ own' \in [Calls -> SUBSET Files]
           /\ crashes' \in 0..MaxCrashes
           /\ UNCHANGED <<deployment, queue, up>>
<1>1. run[e] \in Run /\ run[e] # Nothing
  BY DEF finish, fail, TypeOK
<1>2. run[e].call \in Calls /\ run[e].wrote \in SUBSET Files /\ run[e].live \in BOOLEAN
  BY <1>1 DEF Run
<1>3. CASE finish(e)
  <2>1. PICK answer \in {"error"} \cup IF run[e].todo = {} /\ run[e].call \notin broken THEN {Verdict(run[e])} ELSE {} :
            /\ call' = IF run[e].live THEN [call EXCEPT ![run[e].call] = answer] ELSE call
            /\ own' = IF run[e].live THEN [own EXCEPT ![run[e].call] = run[e].wrote] ELSE own
    BY <1>3 DEF finish
  <2>2. answer \in Ends
    BY <2>1 DEF Verdict, Ends
  <2>3. own' \in [Calls -> SUBSET Files] /\ crashes' = crashes /\ crashes \in 0..MaxCrashes
    BY <1>2, <1>3, <2>1 DEF TypeOK, finish
  <2>4. QED
    BY <1>1, <1>3, <2>1, <2>2, <2>3 DEF finish
<1>4. CASE fail(e)
  <2>1. PICK answer \in Ends : call' = IF run[e].live THEN [call EXCEPT ![run[e].call] = answer] ELSE call
    BY <1>4 DEF fail, Ends
  <2>2. crashes' \in 0..MaxCrashes
    BY <1>4, RoutingAssumption DEF fail, TypeOK
  <2>3. own' \in [Calls -> SUBSET Files]
    BY <1>4 DEF fail, TypeOK
  <2>4. QED
    BY <1>1, <1>4, <2>1, <2>2, <2>3 DEF fail
<1>5. QED
  BY <1>3, <1>4

(* Calls, runs and waiting calls keep their shape.                         *)
LEMMA TypeKept == TypeOK /\ [Next]_vars => TypeOK'
<1> SUFFICES ASSUME TypeOK, [Next]_vars PROVE TypeOK'
  OBVIOUS
<1> USE DEF deployment
<1>1. ASSUME NEW c \in Calls, request(c) \/ retry(c) \/ report_unavailable(c) PROVE TypeOK'
  BY <1>1 DEF request, retry, report_unavailable, Now, TypeOK, Asked
<1>2. ASSUME NEW c \in Calls, run_locally(c) PROVE TypeOK'
  <2>1. PICK todo \in {{}, Outputs[tool[c]]} : run' = [run EXCEPT ![c] = Started(c, TRUE, todo)]
    BY <1>2 DEF run_locally
  <2>2. todo \in SUBSET Files
    BY <2>1, RoutingAssumption
  <2>3. run' \in [Executors -> Run \cup {Nothing}]
    BY <2>1, <2>2, StartedRun DEF TypeOK, Executors
  <2>4. QED
    BY <1>2, <2>3 DEF run_locally, Now, TypeOK, Asked
<1>3. ASSUME NEW c \in Calls, forward_to_worker(c) PROVE TypeOK'
  <2>1. CASE Now(c, "worker_starting") /\ UNCHANGED queue
    BY <1>3, <2>1 DEF forward_to_worker, Now, TypeOK, Asked
  <2>2. CASE /\ GroupOf(c) \in url /\ Len(queue[GroupOf(c)]) < MaxQueue /\ Now(c, "forwarded")
             /\ queue' = [queue EXCEPT ![GroupOf(c)] = Append(@, [call |-> c, live |-> TRUE])]
    <3> DEFINE g == GroupOf(c)
               q == Append(queue[g], [call |-> c, live |-> TRUE])
    <3>1. g \in Groups /\ queue[g] \in Seq(Job) /\ MaxQueue \in Nat
      BY <2>2, RoutingAssumption DEF TypeOK
    <3>2. [call |-> c, live |-> TRUE] \in Job
      BY DEF Job
    <3>3. q \in Seq(Job) /\ Len(q) = Len(queue[g]) + 1
      BY <3>1, <3>2
    <3>4. Len(q) <= MaxQueue
      BY <2>2, <3>1, <3>3
    <3>5. queue' \in [Groups -> Seq(Job)] /\ \A h \in Groups : Len(queue'[h]) <= MaxQueue
      <4>1. queue' = [queue EXCEPT ![g] = q] /\ queue \in [Groups -> Seq(Job)]
            /\ \A h \in Groups : Len(queue[h]) <= MaxQueue
        BY <2>2 DEF TypeOK
      <4> HIDE DEF g, q
      <4>2. QED
        BY <3>1, <3>3, <3>4, <4>1
    <3>6. QED
      BY <1>3, <2>2, <3>5 DEF forward_to_worker, Now, TypeOK, Asked
  <2>3. QED
    BY <1>3, <2>1, <2>2 DEF forward_to_worker
<1>4. ASSUME NEW c \in Calls, time_out(c) PROVE TypeOK'
  BY <1>4, Orphaning DEF time_out, Now, TypeOK, Asked
<1>5. ASSUME NEW f \in Files, upload(f) PROVE TypeOK'
  BY <1>5, WritingKeeps DEF upload, TypeOK
<1>6. ASSUME NEW e \in Executors, write(e) PROVE TypeOK'
  <2>1. PICK f \in run[e].todo : run' = Written(f, e)
    BY <1>6 DEF write
  <2>2. f \in Files
    BY <1>6, <2>1 DEF write, TypeOK, Run
  <2>3. run' \in [Executors -> Run \cup {Nothing}]
    BY <2>1, <2>2, WritingKeeps
  <2>4. QED
    BY <1>6, <2>3 DEF write, TypeOK
<1>7. ASSUME NEW e \in Executors, finish(e) \/ fail(e) PROVE TypeOK'
  <2>1. call' \in [Calls -> Asked]
    BY <1>7, Finishing DEF TypeOK, Asked, Run, Ends
  <2>2. run' \in [Executors -> Run \cup {Nothing}] /\ own' \in [Calls -> SUBSET Files]
        /\ crashes' \in 0..MaxCrashes /\ UNCHANGED <<deployment, queue, up>>
    BY <1>7, Finishing DEF TypeOK
  <2>3. QED
    BY <2>1, <2>2 DEF TypeOK
<1>8. ASSUME NEW g \in Groups, invoke(g) PROVE TypeOK'
  <2> DEFINE q == queue[g]
  <2>1. q \in Seq(Job) /\ q # <<>> /\ Len(q) <= MaxQueue /\ MaxQueue \in Nat
    BY <1>8, RoutingAssumption DEF invoke, TypeOK
  <2>2. q[1] \in Job /\ RemoveAt(q, 1) \in Seq(Job) /\ Len(RemoveAt(q, 1)) <= MaxQueue
    BY <2>1, TakingTheFirst
  <2>3. PICK todo \in {{}, Outputs[tool[q[1].call]]} : run' = [run EXCEPT ![g] = Started(q[1].call, q[1].live, todo)]
    BY <1>8 DEF invoke, Turn
  <2>4. q[1].call \in Calls /\ q[1].live \in BOOLEAN /\ todo \in SUBSET Files
    BY <2>2, <2>3, RoutingAssumption DEF Job
  <2>5. run' \in [Executors -> Run \cup {Nothing}]
    BY <2>3, <2>4, StartedRun DEF TypeOK, Executors
  <2>6. queue' \in [Groups -> Seq(Job)] /\ \A h \in Groups : Len(queue'[h]) <= MaxQueue
    BY <1>8, <2>2 DEF invoke, Turn, TypeOK
  <2>7. QED
    BY <1>8, <2>5, <2>6 DEF invoke, TypeOK
<1>9. ASSUME NEW g \in Groups, crash_worker(g) PROVE TypeOK'
  <2>1. queue' \in [Groups -> Seq(Job)] /\ \A h \in Groups : Len(queue'[h]) <= MaxQueue
    <3>1. Len(<<>>) = 0 /\ <<>> \in Seq(Job) /\ MaxQueue \in Nat
      BY RoutingAssumption
    <3>2. QED
      BY <1>9, <3>1 DEF crash_worker, TypeOK
  <2>2. crashes' \in 0..MaxCrashes
    BY <1>9, RoutingAssumption DEF crash_worker, TypeOK
  <2>3. call' \in [Calls -> Asked]
    BY <1>9 DEF crash_worker, TypeOK, Asked
  <2>4. run' \in [Executors -> Run \cup {Nothing}] /\ up' \in [Groups -> BOOLEAN] /\ own' = own
    BY <1>9 DEF crash_worker, TypeOK
  <2>5. UNCHANGED deployment
    BY <1>9 DEF crash_worker
  <2>6. QED
    BY <2>1, <2>2, <2>3, <2>4, <2>5 DEF TypeOK
<1>10. ASSUME NEW g \in Groups, boot_worker(g) PROVE TypeOK'
  BY <1>10 DEF boot_worker, TypeOK
<1>11. CASE crash_core
  <2>1. call' \in [Calls -> Asked]
    BY <1>11 DEF crash_core, TypeOK, Asked
  <2>2. crashes' \in 0..MaxCrashes
    BY <1>11, RoutingAssumption DEF crash_core, TypeOK
  <2>3. QED
    BY <1>11, <2>1, <2>2, Orphaning DEF crash_core, TypeOK
<1>12. CASE UNCHANGED vars
  BY <1>12 DEF vars, TypeOK
<1>13. QED
  BY <1>1, <1>2, <1>3, <1>4, <1>5, <1>6, <1>7, <1>8, <1>9, <1>10, <1>11, <1>12 DEF Next, Serve

LEMMA TypeAtFirst == Init => TypeOK
<1> SUFFICES ASSUME Init PROVE TypeOK
  OBVIOUS
<1>1. queue \in [Groups -> Seq(Job)] /\ \A g \in Groups : Len(queue[g]) <= MaxQueue
  BY RoutingAssumption DEF Init
<1>2. QED
  BY <1>1, RoutingAssumption DEF Init, TypeOK, Asked
----------------------------------------------------------------------------
(* The inductive invariant *)

LEMMA AnswersAtFirst == Init => Answers
<1> SUFFICES ASSUME Init PROVE Answers
  OBVIOUS
<1>1. /\ \A e \in Executors : run[e] = Nothing
      /\ \A g \in Groups : DOMAIN queue[g] = {}
      /\ \A c \in Calls : call[c] = "new"
  BY DEF Init
<1>2. Calls \subseteq Executors /\ Groups \subseteq Executors
  BY DEF Executors
<1>3. QED
  BY <1>1, <1>2 DEF Answers, LocalRuns, RunningIsLocal, WorkerRuns, LiveIsForwarded, LastIsLive,
                    AnsweredIsSettled, Over

LEMMA NamedCalls ==
    ASSUME TypeOK
    PROVE  /\ Calls \subseteq Executors /\ Groups \subseteq Executors /\ Executors = Calls \cup Groups
           /\ \A e \in Executors : run[e] # Nothing => run[e].call \in Calls /\ run[e].live \in BOOLEAN
           /\ \A g \in Groups : \A i \in DOMAIN queue[g] : queue[g][i].call \in Calls /\ queue[g][i].live \in BOOLEAN
<1>1. ASSUME NEW e \in Executors, run[e] # Nothing PROVE run[e].call \in Calls /\ run[e].live \in BOOLEAN
  BY <1>1 DEF TypeOK, Run
<1>2. ASSUME NEW g \in Groups, NEW i \in DOMAIN queue[g] PROVE queue[g][i].call \in Calls /\ queue[g][i].live \in BOOLEAN
  <2>1. queue[g] \in Seq(Job)
    BY DEF TypeOK
  <2>2. queue[g][i] \in Job
    BY <1>2, <2>1
  <2>3. QED
    BY <2>2 DEF Job
<1>3. QED
  BY <1>1, <1>2 DEF Executors

(* Steps that answer and start nothing: runs and jobs may end or die, and  *)
(* what stays live is waited for.                                          *)
LEMMA NothingNew ==
    ASSUME TypeOK, TypeOK', Answers, UNCHANGED deployment,
           \A x \in Executors : run'[x] # Nothing =>
               run[x] # Nothing /\ run'[x].call = run[x].call /\ (run'[x].live => run[x].live),
           \A g \in Groups : \A i \in DOMAIN queue'[g] :
               i \in DOMAIN queue[g] /\ queue'[g][i].call = queue[g][i].call /\ (queue'[g][i].live => queue[g][i].live),
           \A c \in Calls : call'[c] # call[c] => call'[c] \notin Over \cup {"running"},
           \A c \in Calls : run'[c] # Nothing => run'[c].live /\ call'[c] = "running",
           LiveIsForwarded'
    PROVE  Answers'
<1> USE DEF deployment
<1>1. \A d \in Calls : Route(d)' = Route(d) /\ GroupOf(d)' = GroupOf(d)
  BY DEF Route, GroupOf
<1>2. LocalRuns' /\ RunningIsLocal'
  BY <1>1, NamedCalls DEF Answers, LocalRuns, RunningIsLocal
<1>3. WorkerRuns'
  BY <1>1, NamedCalls DEF Answers, WorkerRuns, SentToWorker
<1>4. LastIsLive'
  <2>1. ASSUME NEW g \in Groups, run'[g] # Nothing, run'[g].live, NEW i \in DOMAIN queue'[g]
        PROVE queue'[g][i].call # run'[g].call
    BY <2>1, NamedCalls DEF Answers, LastIsLive
  <2>2. ASSUME NEW g \in Groups, NEW i \in DOMAIN queue'[g], NEW j \in DOMAIN queue'[g], i < j, queue'[g][i].live
        PROVE queue'[g][j].call # queue'[g][i].call
    BY <2>2 DEF Answers, LastIsLive
  <2>3. QED
    BY <2>1, <2>2 DEF LastIsLive
<1>5. AnsweredIsSettled'
  <2> SUFFICES ASSUME NEW c \in Calls, call'[c] \in Over
               PROVE /\ \A e \in Executors : run'[e] # Nothing => run'[e].call # c
                     /\ \A g \in Groups : \A i \in DOMAIN queue'[g] : queue'[g][i].call # c
    BY DEF AnsweredIsSettled
  <2>1. call[c] \in Over
    OBVIOUS
  <2>2. QED
    BY <2>1 DEF Answers, AnsweredIsSettled
<1>6. QED
  BY <1>2, <1>3, <1>4, <1>5 DEF Answers

(* A call that is answered leaves nothing behind.                          *)
LEMMA AnswersKept == TypeOK /\ Answers /\ [Next]_vars => Answers'
<1> SUFFICES ASSUME TypeOK, Answers, [Next]_vars PROVE Answers'
  OBVIOUS
<1> USE DEF deployment
<1>1. TypeOK'
  BY TypeKept
<1>2. Calls \cap Groups = {} /\ Calls \subseteq Executors /\ Groups \subseteq Executors
  BY NamedCalls, RoutingAssumption
<1>3. \A c \in Calls : run[c] # Nothing => run[c].call = c /\ run[c].live /\ call[c] = "running"
  BY DEF Answers, LocalRuns
<1>4. LiveIsForwarded
  BY DEF Answers
<1>5. ASSUME NEW c \in Calls, NEW state \in Asked, Now(c, state), call[c] \notin {"running", "forwarded"},
             state \notin Over \cup {"running"}, UNCHANGED <<deployment, run, queue>>
      PROVE Answers'
  <2>1. call'[c] = state /\ \A d \in Calls \ {c} : call'[d] = call[d]
    BY <1>5 DEF Now, TypeOK
  <2>2. LiveIsForwarded'
    BY <1>4, <1>5, <2>1, NamedCalls DEF LiveIsForwarded
  <2>3. \A x \in Calls : run'[x] # Nothing => run'[x].live /\ call'[x] = "running"
    BY <1>3, <1>5, <2>1
  <2>4. \A x \in Calls : call'[x] # call[x] => call'[x] \notin Over \cup {"running"}
    BY <1>5, <2>1
  <2>5. QED
    BY <1>1, <1>5, <2>2, <2>3, <2>4, NothingNew
<1>6. ASSUME NEW c \in Calls, request(c) \/ retry(c) PROVE Answers'
  BY <1>5, <1>6 DEF request, retry, Asked, Over
<1>7. ASSUME NEW c \in Calls, report_unavailable(c) PROVE Answers'
  <2>1. Route(c) = "unavailable" /\ call[c] = "sent" /\ UNCHANGED <<deployment, run, queue>>
    BY <1>7 DEF report_unavailable
  <2>2. call'[c] = "worker_unavailable" /\ \A d \in Calls \ {c} : call'[d] = call[d]
    BY <1>7 DEF report_unavailable, Now, TypeOK
  <2>3. \A d \in Calls : Route(d)' = Route(d) /\ GroupOf(d)' = GroupOf(d)
    BY <2>1 DEF Route, GroupOf
  <2>4. \A e \in Executors : run[e] # Nothing => run[e].call # c
    BY <1>3, <2>1, NamedCalls DEF Answers, WorkerRuns, SentToWorker
  <2>5. \A g \in Groups : \A i \in DOMAIN queue[g] : queue[g][i].call # c
    BY <2>1 DEF Answers, WorkerRuns, SentToWorker
  <2>6. LocalRuns' /\ RunningIsLocal' /\ WorkerRuns'
    BY <2>1, <2>2, <2>3, NamedCalls DEF Answers, LocalRuns, RunningIsLocal, WorkerRuns, SentToWorker
  <2>7. LiveIsForwarded' /\ LastIsLive'
    BY <2>1, <2>2, <2>4, <2>5, NamedCalls DEF Answers, LiveIsForwarded, LastIsLive
  <2>8. AnsweredIsSettled'
    BY <2>1, <2>2, <2>4, <2>5 DEF Answers, AnsweredIsSettled
  <2>9. QED
    BY <2>6, <2>7, <2>8 DEF Answers
<1>8. ASSUME NEW c \in Calls, run_locally(c) PROVE Answers'
  <2>1. PICK todo : run' = [run EXCEPT ![c] = Started(c, TRUE, todo)]
    BY <1>8 DEF run_locally
  <2>2. Route(c) = "local" /\ call[c] = "sent" /\ UNCHANGED <<deployment, queue>>
    BY <1>8 DEF run_locally
  <2>3. call'[c] = "running" /\ \A d \in Calls \ {c} : call'[d] = call[d]
    BY <1>8 DEF run_locally, Now, TypeOK
  <2>4. run'[c].call = c /\ run'[c].live = TRUE /\ \A e \in Executors \ {c} : run'[e] = run[e]
    BY <1>2, <2>1 DEF TypeOK, Started
  <2>5. \A d \in Calls : Route(d)' = Route(d) /\ GroupOf(d)' = GroupOf(d)
    BY <2>2 DEF Route, GroupOf
  <2>6. \A g \in Groups : run'[g] = run[g]
    BY <1>2, <2>4
  <2>7. LocalRuns' /\ RunningIsLocal'
    BY <1>2, <1>3, <2>2, <2>3, <2>4, <2>5 DEF Answers, LocalRuns, RunningIsLocal
  <2>8. WorkerRuns'
    BY <2>2, <2>5, <2>6, NamedCalls DEF Answers, WorkerRuns, SentToWorker
  <2>9. LiveIsForwarded' /\ LastIsLive'
    BY <2>2, <2>3, <2>6, NamedCalls DEF Answers, LiveIsForwarded, LastIsLive
  <2>10. AnsweredIsSettled'
    BY <2>2, <2>3, <2>4 DEF Answers, AnsweredIsSettled, Over
  <2>11. QED
    BY <2>7, <2>8, <2>9, <2>10 DEF Answers
<1>9. ASSUME NEW c \in Calls, forward_to_worker(c) PROVE Answers'
  <2>1. CASE Now(c, "worker_starting") /\ UNCHANGED queue
    BY <1>5, <1>9, <2>1 DEF forward_to_worker, Asked, Over
  <2>2. CASE /\ GroupOf(c) \in url /\ Now(c, "forwarded")
             /\ queue' = [queue EXCEPT ![GroupOf(c)] = Append(@, [call |-> c, live |-> TRUE])]
    <3> DEFINE g == GroupOf(c)
               q == queue[g]
               job == [call |-> c, live |-> TRUE]
    <3>1. g \in Groups /\ q \in Seq(Job) /\ job \in Job
      BY <2>2 DEF TypeOK, Job
    <3>2. queue'[g] = Append(q, job) /\ \A h \in Groups \ {g} : queue'[h] = queue[h]
      BY <2>2, <3>1 DEF TypeOK
    <3>3. job.call = c /\ job.live
      OBVIOUS
    <3>4. Route(c) = "forward" /\ call[c] = "sent" /\ UNCHANGED <<deployment, run>>
      BY <1>9 DEF forward_to_worker
    <3>5. call'[c] = "forwarded" /\ \A d \in Calls \ {c} : call'[d] = call[d]
      BY <2>2 DEF Now, TypeOK
    <3>6. \A d \in Calls : Route(d)' = Route(d) /\ GroupOf(d)' = GroupOf(d)
      BY <3>4 DEF Route, GroupOf
    <3> HIDE DEF g, job, q
    <3>7. /\ Len(q) \in Nat /\ DOMAIN q = 1..Len(q) /\ DOMAIN queue'[g] = 1..(Len(q) + 1)
          /\ queue'[g][Len(q) + 1] = job
          /\ \A i \in DOMAIN q : queue'[g][i] = q[i]
      BY <3>1, <3>2
    <3>8. /\ \A i \in DOMAIN q : i < Len(q) + 1
          /\ \A i \in DOMAIN queue'[g] : i \in DOMAIN q \/ i = Len(q) + 1
      BY <3>7
    <3>9. /\ \A h \in Groups : run[h] # Nothing /\ run[h].live => run[h].call # c
          /\ \A h \in Groups : \A i \in DOMAIN queue[h] : queue[h][i].live => queue[h][i].call # c
      BY <1>4, <3>4 DEF LiveIsForwarded
    <3>10. LocalRuns' /\ RunningIsLocal'
      BY <1>3, <3>4, <3>5, <3>6 DEF Answers, LocalRuns, RunningIsLocal
    <3>11. WorkerRuns'
      <4>1. SentToWorker(c, g)
        BY <3>4 DEF SentToWorker, g
      <4>2. \A i \in DOMAIN queue'[g] : queue'[g][i].call \in Calls /\ SentToWorker(queue'[g][i].call, g)
        <5>1. \A i \in DOMAIN q : q[i].call \in Calls /\ SentToWorker(q[i].call, g)
          BY <3>1, NamedCalls DEF Answers, WorkerRuns, q
        <5>2. QED
          BY <3>3, <3>7, <3>8, <4>1, <5>1
      <4>3. \A h \in Groups : \A i \in DOMAIN queue'[h] : queue'[h][i].call \in Calls /\ SentToWorker(queue'[h][i].call, h)
        BY <3>2, <4>2, NamedCalls DEF Answers, WorkerRuns
      <4>4. \A h \in Groups : run'[h] # Nothing => run'[h].call \in Calls /\ SentToWorker(run'[h].call, h)
        BY <1>2, <3>4, NamedCalls DEF Answers, WorkerRuns
      <4>5. QED
        BY <3>6, <4>3, <4>4 DEF WorkerRuns, SentToWorker
    <3>12. LiveIsForwarded'
      <4>1. \A i \in DOMAIN queue'[g] : queue'[g][i].live => call'[queue'[g][i].call] = "forwarded"
        BY <1>4, <3>1, <3>3, <3>5, <3>7, <3>8, NamedCalls DEF LiveIsForwarded, q
      <4>2. QED
        BY <1>4, <3>2, <3>4, <3>5, <4>1, NamedCalls DEF LiveIsForwarded
    <3>13. LastIsLive'
      <4>1. ASSUME NEW h \in Groups, run[h] # Nothing, run[h].live, NEW i \in DOMAIN queue'[h]
            PROVE queue'[h][i].call # run[h].call
        <5>1. \A k \in DOMAIN queue[h] : queue[h][k].call # run[h].call
          BY <4>1 DEF Answers, LastIsLive
        <5>2. CASE h # g
          BY <3>2, <4>1, <5>1, <5>2
        <5>3. CASE h = g /\ i \in DOMAIN q
          BY <3>7, <5>1, <5>3 DEF q
        <5>4. CASE h = g /\ i = Len(q) + 1
          BY <3>3, <3>7, <3>9, <4>1, <5>4
        <5>5. QED
          BY <3>8, <4>1, <5>2, <5>3, <5>4
      <4>2. ASSUME NEW h \in Groups, NEW i \in DOMAIN queue'[h], NEW j \in DOMAIN queue'[h], i < j, queue'[h][i].live
            PROVE queue'[h][j].call # queue'[h][i].call
        <5>1. CASE h # g
          BY <3>2, <4>2, <5>1 DEF Answers, LastIsLive
        <5>2. CASE h = g
          <6>1. i \in DOMAIN q
            BY <3>7, <4>2, <5>2
          <6>2. CASE j \in DOMAIN q
            BY <3>1, <3>7, <4>2, <5>2, <6>1, <6>2 DEF Answers, LastIsLive, q
          <6>3. CASE j = Len(q) + 1
            BY <3>1, <3>3, <3>7, <3>9, <4>2, <5>2, <6>1, <6>3 DEF q
          <6>4. QED
            BY <3>8, <4>2, <5>2, <6>2, <6>3
        <5>3. QED
          BY <5>1, <5>2
      <4>3. QED
        BY <3>4, <4>1, <4>2 DEF LastIsLive
    <3>14. AnsweredIsSettled'
      <4> SUFFICES ASSUME NEW d \in Calls, call'[d] \in Over
                   PROVE /\ \A e \in Executors : run'[e] # Nothing => run'[e].call # d
                         /\ \A h \in Groups : \A i \in DOMAIN queue'[h] : queue'[h][i].call # d
        BY DEF AnsweredIsSettled
      <4>1. d # c /\ call[d] \in Over
        BY <3>5 DEF Over
      <4>2. \A i \in DOMAIN queue'[g] : queue'[g][i].call # d
        BY <3>1, <3>3, <3>7, <3>8, <4>1 DEF Answers, AnsweredIsSettled, q
      <4>3. QED
        BY <3>2, <3>4, <4>1, <4>2 DEF Answers, AnsweredIsSettled
    <3>15. QED
      BY <3>10, <3>11, <3>12, <3>13, <3>14 DEF Answers
  <2>3. QED
    BY <1>9, <2>1, <2>2 DEF forward_to_worker
<1>10. ASSUME NEW c \in Calls, time_out(c) PROVE Answers'
  <2>1. Orphaned({c}) /\ UNCHANGED deployment /\ call[c] = "forwarded"
    BY <1>10 DEF time_out
  <2>2. call'[c] = "worker_starting" /\ \A d \in Calls \ {c} : call'[d] = call[d]
    BY <1>10 DEF time_out, Now, TypeOK
  <2>3. \A x \in Executors : run'[x] # Nothing =>
           run[x] # Nothing /\ run'[x].call = run[x].call /\ (run'[x].live <=> run[x].live /\ run[x].call # c)
    BY <2>1, Orphaning
  <2>4. \A g \in Groups : \A i \in DOMAIN queue'[g] :
           i \in DOMAIN queue[g] /\ queue'[g][i].call = queue[g][i].call
           /\ (queue'[g][i].live <=> queue[g][i].live /\ queue[g][i].call # c)
    BY <2>1, Orphaning
  <2>5. LiveIsForwarded'
    BY <1>2, <1>4, <2>2, <2>3, <2>4, NamedCalls DEF LiveIsForwarded
  <2>6. \A x \in Calls : run'[x] # Nothing => run'[x].live /\ call'[x] = "running"
    BY <1>2, <1>3, <2>1, <2>2, <2>3
  <2>7. \A x \in Calls : call'[x] # call[x] => call'[x] \notin Over \cup {"running"}
    BY <2>2 DEF Over
  <2>8. QED
    BY <1>1, <2>1, <2>3, <2>4, <2>5, <2>6, <2>7, NothingNew
<1>11. ASSUME NEW f \in Files, NEW e, run' = Written(f, e), UNCHANGED <<deployment, call, queue>> PROVE Answers'
  <2>1. \A x \in Executors : /\ run'[x] = Nothing <=> run[x] = Nothing
                             /\ run[x] # Nothing => run'[x].call = run[x].call /\ run'[x].live = run[x].live
    BY <1>11, WritingKeeps
  <2>2. LiveIsForwarded'
    BY <1>2, <1>4, <1>11, <2>1 DEF LiveIsForwarded
  <2>3. \A x \in Calls : run'[x] # Nothing => run'[x].live /\ call'[x] = "running"
    BY <1>2, <1>3, <1>11, <2>1
  <2>4. QED
    BY <1>1, <1>11, <2>1, <2>2, <2>3, NothingNew
<1>12. ASSUME NEW e \in Executors, finish(e) \/ fail(e) PROVE Answers'
  <2> DEFINE r == run[e]
             c == r.call
  <2>1. /\ r # Nothing /\ c \in Calls /\ run' = [run EXCEPT ![e] = Nothing]
        /\ UNCHANGED <<deployment, queue>>
    BY <1>12, Finishing, NamedCalls
  <2>2. run'[e] = Nothing /\ \A x \in Executors \ {e} : run'[x] = run[x]
    BY <2>1 DEF TypeOK
  <2>3. CASE ~ r.live
    <3>1. call' = call
      BY <1>12, <2>3, Finishing
    <3>2. LiveIsForwarded'
      BY <1>2, <1>4, <2>1, <2>2, <3>1 DEF LiveIsForwarded
    <3>3. \A x \in Calls : run'[x] # Nothing => run'[x].live /\ call'[x] = "running"
      BY <1>2, <1>3, <2>2, <3>1
    <3>4. QED
      BY <1>1, <2>1, <2>2, <3>1, <3>2, <3>3, NothingNew
  <2>4. CASE r.live
    <3>1. PICK answer \in Ends : call' = [call EXCEPT ![c] = answer]
      BY <1>12, <2>4, Finishing
    <3>2. call'[c] = answer /\ \A d \in Calls \ {c} : call'[d] = call[d]
      BY <2>1, <3>1 DEF TypeOK
    <3>3. \A d \in Calls : Route(d)' = Route(d) /\ GroupOf(d)' = GroupOf(d)
      BY <2>1 DEF Route, GroupOf
    <3> HIDE DEF c, r
    (* nothing else of the call is there *)
    <3>4. /\ \A x \in Executors \ {e} : run[x] # Nothing => run[x].call # c
          /\ \A g \in Groups : \A i \in DOMAIN queue[g] : queue[g][i].call # c
      <4>1. CASE e \in Calls
        <5>1. c = e /\ call[c] = "running"
          BY <1>3, <2>1, <4>1 DEF c, r
        <5>2. Route(c) = "local"
          BY <2>1, <5>1 DEF Answers, RunningIsLocal
        <5>3. \A x \in Executors \ {e} : run[x] # Nothing => run[x].call # c
          BY <1>3, <5>1, <5>2, NamedCalls DEF Answers, WorkerRuns, SentToWorker
        <5>4. \A g \in Groups : \A i \in DOMAIN queue[g] : queue[g][i].call # c
          BY <5>2 DEF Answers, WorkerRuns, SentToWorker
        <5>5. QED
          BY <5>3, <5>4
      <4>2. CASE e \in Groups
        <5>1. call[c] = "forwarded" /\ GroupOf(c) = e /\ \A i \in DOMAIN queue[e] : queue[e][i].call # c
          BY <1>4, <2>1, <2>4, <4>2 DEF Answers, WorkerRuns, SentToWorker, LiveIsForwarded, LastIsLive, c, r
        <5>2. \A x \in Executors \ {e} : run[x] # Nothing => run[x].call # c
          BY <1>3, <5>1, NamedCalls DEF Answers, WorkerRuns, SentToWorker
        <5>3. \A g \in Groups : \A i \in DOMAIN queue[g] : queue[g][i].call # c
          BY <5>1 DEF Answers, WorkerRuns, SentToWorker
        <5>4. QED
          BY <5>2, <5>3
      <4>3. QED
        BY <4>1, <4>2, NamedCalls
    <3>5. LocalRuns' /\ RunningIsLocal'
      <4>1. answer # "running"
        BY DEF Ends
      <4>2. RunningIsLocal'
        BY <3>2, <3>3, <4>1 DEF Answers, RunningIsLocal
      <4>3. LocalRuns'
        BY <1>2, <1>3, <2>2, <3>2, <3>4 DEF LocalRuns
      <4>4. QED
        BY <4>2, <4>3
    <3>6. WorkerRuns'
      BY <1>2, <2>1, <2>2, <3>3, NamedCalls DEF Answers, WorkerRuns, SentToWorker
    <3>7. LiveIsForwarded' /\ LastIsLive'
      BY <1>2, <2>1, <2>2, <3>2, <3>4, NamedCalls DEF Answers, LiveIsForwarded, LastIsLive
    <3>8. AnsweredIsSettled'
      BY <2>1, <2>2, <3>2, <3>4 DEF Answers, AnsweredIsSettled
    <3>9. QED
      BY <3>5, <3>6, <3>7, <3>8 DEF Answers
  <2>5. QED
    BY <2>3, <2>4
<1>13. ASSUME NEW g \in Groups, invoke(g) PROVE Answers'
  <2> DEFINE q == queue[g]
             j == q[1]
             rest == RemoveAt(q, 1)
  <2>1. q \in Seq(Job) /\ q # <<>> /\ run[g] = Nothing /\ UNCHANGED <<deployment, call>>
    BY <1>13 DEF invoke, TypeOK
  <2>2. PICK todo : run' = [run EXCEPT ![g] = Started(j.call, j.live, todo)]
    BY <1>13 DEF invoke, Turn
  <2>3. queue' = [queue EXCEPT ![g] = rest]
    BY <1>13 DEF invoke, Turn
  <2>4. /\ run'[g].call = j.call /\ run'[g].live = j.live
        /\ \A x \in Executors \ {g} : run'[x] = run[x]
        /\ queue'[g] = rest /\ \A h \in Groups \ {g} : queue'[h] = queue[h]
    <3> DEFINE new == Started(j.call, j.live, todo)
    <3>1. new.call = j.call /\ new.live = j.live
      BY DEF Started
    <3>2. run' = [run EXCEPT ![g] = new] /\ DOMAIN run = Executors /\ g \in Executors
      BY <1>2, <2>2 DEF TypeOK
    <3>3. DOMAIN queue = Groups
      BY DEF TypeOK
    <3> HIDE DEF new, rest
    <3>4. QED
      BY <2>3, <3>1, <3>2, <3>3
  <2>5. /\ 1 \in DOMAIN q /\ DOMAIN q \subseteq Nat
        /\ \A i \in DOMAIN rest : i \in Nat \ {0} /\ i + 1 \in DOMAIN q /\ rest[i] = q[i + 1]
    <3>1. /\ rest \in Seq(Job) /\ 1 \in DOMAIN q
          /\ \A i \in DOMAIN rest : i + 1 \in DOMAIN q /\ rest[i] = q[i + 1]
      BY <2>1, TakingTheFirst
    <3> HIDE DEF rest, q
    <3>2. Len(rest) \in Nat /\ DOMAIN rest = 1..Len(rest) /\ DOMAIN q = 1..Len(q) /\ Len(q) \in Nat
      BY <2>1, <3>1
    <3>3. \A i \in DOMAIN rest : i \in Nat \ {0}
      BY <3>2
    <3>4. QED
      BY <3>1, <3>2, <3>3
  <2>6. \A d \in Calls : Route(d)' = Route(d) /\ GroupOf(d)' = GroupOf(d)
    BY <2>1 DEF Route, GroupOf
  <2> HIDE DEF rest
  <2>7. LocalRuns' /\ RunningIsLocal'
    BY <1>2, <1>3, <2>1, <2>4, <2>6 DEF Answers, LocalRuns, RunningIsLocal
  <2>8. WorkerRuns'
    <3>1. \A h \in Groups : \A i \in DOMAIN queue'[h] : queue'[h][i].call \in Calls /\ SentToWorker(queue'[h][i].call, h)
      BY <2>4, <2>5, NamedCalls DEF Answers, WorkerRuns
    <3>2. \A h \in Groups : run'[h] # Nothing => run'[h].call \in Calls /\ SentToWorker(run'[h].call, h)
      BY <1>2, <2>4, <2>5, NamedCalls DEF Answers, WorkerRuns
    <3>3. QED
      BY <2>6, <3>1, <3>2 DEF WorkerRuns, SentToWorker
  <2>9. LiveIsForwarded'
    <3>1. \A h \in Groups : \A i \in DOMAIN queue[h] : queue[h][i].live => call[queue[h][i].call] = "forwarded"
      BY <1>4 DEF LiveIsForwarded
    <3>2. \A h \in Groups : \A i \in DOMAIN queue'[h] : queue'[h][i].live => call[queue'[h][i].call] = "forwarded"
      BY <2>4, <2>5, <3>1
    <3>3. \A h \in Groups : run'[h] # Nothing /\ run'[h].live => call[run'[h].call] = "forwarded"
      <4>1. run'[g].live => call[run'[g].call] = "forwarded"
        <5>1. j.live => call[j.call] = "forwarded"
          BY <2>5, <3>1
        <5> HIDE DEF j
        <5>2. QED
          BY <2>4, <5>1
      <4>2. \A h \in Groups \ {g} : run'[h] # Nothing /\ run'[h].live => call[run'[h].call] = "forwarded"
        <5> SUFFICES ASSUME NEW h \in Groups, h # g, run'[h] # Nothing, run'[h].live
                     PROVE  call[run'[h].call] = "forwarded"
          OBVIOUS
        <5>1. run'[h] = run[h]
          BY <1>2, <2>4
        <5>2. run[h] # Nothing /\ run[h].live => call[run[h].call] = "forwarded"
          BY <1>4 DEF LiveIsForwarded
        <5>3. QED
          BY <5>1, <5>2
      <4>3. QED
        BY <4>1, <4>2
    <3>4. QED
      BY <2>1, <3>2, <3>3 DEF LiveIsForwarded
  <2>10. LastIsLive'
    <3>1. ASSUME run'[g].live, NEW i \in DOMAIN rest PROVE rest[i].call # run'[g].call
      <4>1. j.live /\ i + 1 \in DOMAIN q /\ 1 < i + 1 /\ rest[i] = q[i + 1]
        BY <2>4, <2>5, <3>1
      <4>2. QED
        BY <2>4, <2>5, <4>1 DEF Answers, LastIsLive
    <3>2. ASSUME NEW i \in DOMAIN rest, NEW k \in DOMAIN rest, i < k, rest[i].live PROVE rest[k].call # rest[i].call
      <4>1. i + 1 < k + 1 /\ i + 1 \in DOMAIN q /\ k + 1 \in DOMAIN q /\ rest[i] = q[i + 1] /\ rest[k] = q[k + 1]
        BY <2>5, <3>2
      <4>2. QED
        BY <3>2, <4>1 DEF Answers, LastIsLive
    <3>3. QED
      BY <1>2, <2>4, <3>1, <3>2 DEF Answers, LastIsLive
  <2>11. AnsweredIsSettled'
    BY <1>2, <2>1, <2>4, <2>5 DEF Answers, AnsweredIsSettled
  <2>12. QED
    BY <2>7, <2>8, <2>9, <2>10, <2>11 DEF Answers
<1>14. ASSUME NEW g \in Groups, crash_worker(g) PROVE Answers'
  <2> HIDE DEF deployment
  <2>1. /\ run'[g] = Nothing /\ \A x \in Executors \ {g} : run'[x] = run[x]
        /\ DOMAIN queue'[g] = {} /\ \A h \in Groups \ {g} : queue'[h] = queue[h]
        /\ \A c \in Calls : call'[c] = IF c \in WaitingAt(g) THEN "worker_starting" ELSE call[c]
        /\ UNCHANGED deployment
    <3>1. run' = [run EXCEPT ![g] = Nothing] /\ queue' = [queue EXCEPT ![g] = <<>>]
          /\ call' = [c \in Calls |-> IF c \in WaitingAt(g) THEN "worker_starting" ELSE call[c]]
          /\ UNCHANGED deployment
      BY <1>14 DEF crash_worker
    <3>2. DOMAIN run = Executors /\ DOMAIN queue = Groups
      BY DEF TypeOK
    <3>3. DOMAIN <<>> = {}
      OBVIOUS
    <3>4. queue'[g] = <<>> /\ \A h \in Groups \ {g} : queue'[h] = queue[h]
      BY <3>1, <3>2
    <3>5. QED
      BY <1>2, <3>1, <3>2, <3>3, <3>4
  <2>2. \A c \in Calls : GroupOf(c) # g \/ call[c] = "running" => call'[c] = call[c]
    BY <2>1 DEF WaitingAt
  <2>3. LiveIsForwarded'
    BY <1>2, <1>4, <2>1, <2>2, NamedCalls DEF Answers, WorkerRuns, SentToWorker, LiveIsForwarded
  <2>4. \A x \in Calls : run'[x] # Nothing => run'[x].live /\ call'[x] = "running"
    BY <1>2, <1>3, <2>1, <2>2
  <2>5. \A x \in Calls : call'[x] # call[x] => call'[x] \notin Over \cup {"running"}
    BY <2>1 DEF Over
  <2>6. QED
    BY <1>1, <1>2, <2>1, <2>3, <2>4, <2>5, NothingNew
<1>15. ASSUME UNCHANGED <<deployment, call, run, queue>> PROVE Answers'
  <2>1. LiveIsForwarded'
    BY <1>4, <1>15 DEF LiveIsForwarded
  <2>2. QED
    BY <1>1, <1>3, <1>15, <2>1, NothingNew
<1>16. CASE crash_core
  <2>1. Orphaned(AtCore) /\ UNCHANGED deployment
        /\ \A c \in Calls : call'[c] = IF c \in AtCore THEN "sent" ELSE call[c]
    BY <1>16 DEF crash_core
  <2>2. \A x \in Executors : run'[x] # Nothing =>
           /\ run[x] # Nothing /\ x \notin AtCore /\ run'[x].call = run[x].call
           /\ run'[x].live <=> run[x].live /\ run[x].call \notin AtCore
    BY <2>1, Orphaning
  <2>3. \A g \in Groups : \A i \in DOMAIN queue'[g] :
           i \in DOMAIN queue[g] /\ queue'[g][i].call = queue[g][i].call
           /\ (queue'[g][i].live <=> queue[g][i].live /\ queue[g][i].call \notin AtCore)
    BY <2>1, Orphaning
  <2>4. \A c \in Calls : call[c] \in {"forwarded", "running"} => c \in AtCore
    BY DEF AtCore
  <2>5. LiveIsForwarded'
    BY <1>2, <1>4, <2>2, <2>3, <2>4, NamedCalls DEF LiveIsForwarded
  <2>6. \A x \in Calls : run'[x] # Nothing => run'[x].live /\ call'[x] = "running"
    BY <1>2, <1>3, <2>2, <2>4
  <2>7. \A x \in Calls : call'[x] # call[x] => call'[x] \notin Over \cup {"running"}
    BY <2>1 DEF Over
  <2>8. QED
    BY <1>1, <2>1, <2>2, <2>3, <2>5, <2>6, <2>7, NothingNew
<1>17. ASSUME NEW e \in Executors, write(e) PROVE Answers'
  <2>1. PICK f \in run[e].todo : run' = Written(f, e)
    BY <1>17 DEF write
  <2>2. f \in Files
    BY <1>17, <2>1 DEF write, TypeOK, Run
  <2>3. QED
    BY <1>11, <1>17, <2>1, <2>2 DEF write
<1>18. ASSUME NEW f \in Files, upload(f) PROVE Answers'
  BY <1>11, <1>18 DEF upload
<1>19. ASSUME NEW g \in Groups, boot_worker(g) PROVE Answers'
  BY <1>15, <1>19 DEF boot_worker
<1>20. CASE UNCHANGED vars
  BY <1>15, <1>20 DEF vars
<1>21. QED
  BY <1>6, <1>7, <1>8, <1>9, <1>10, <1>12, <1>13, <1>14, <1>16, <1>17, <1>18, <1>19, <1>20 DEF Next, Serve

----------------------------------------------------------------------------
(* Whose files they are *)

LEMMA OwnedAtFirst == Init => Owned
<1> SUFFICES ASSUME Init PROVE Owned
  OBVIOUS
<1>1. /\ \A e \in Executors : run[e] = Nothing
      /\ \A g \in Groups : DOMAIN queue[g] = {}
      /\ \A c \in Calls : call[c] = "new"
  BY DEF Init
<1>2. QED
  BY <1>1 DEF Owned, NewIsUnknown, OneByOne, OwnChanges, ReadyIsOwn, Idle

(* With one call under way there is one run: a call is served by the core  *)
(* or by one worker, and each of them runs one tool at a time.             *)
LEMMA OneRun ==
    ASSUME TypeOK, Answers, Owned, ~ overlap,
           NEW x \in Executors, run[x] # Nothing, NEW y \in Executors, run[y] # Nothing
    PROVE  x = y
<1>1. PICK c \in Calls, d \in Calls : run[x].call = c /\ run[y].call = d
  BY NamedCalls
<1>2. call[c] \notin Idle /\ call[d] \notin Idle
  BY <1>1 DEF Answers, AnsweredIsSettled, Owned, NewIsUnknown, Idle
<1>3. c = d
  BY <1>2 DEF Owned, OneByOne
<1>4. ASSUME NEW e \in Calls, run[e] # Nothing, run[e].call = c PROVE e = c /\ Route(c) = "local"
  BY <1>4 DEF Answers, LocalRuns, RunningIsLocal
<1>5. ASSUME NEW e \in Groups, run[e] # Nothing, run[e].call = c PROVE Route(c) = "forward" /\ GroupOf(c) = e
  BY <1>5 DEF Answers, WorkerRuns, SentToWorker
<1>6. QED
  BY <1>1, <1>3, <1>4, <1>5 DEF Executors

(* What a step owes: a call moves on only when it is under way, nothing of *)
(* a new call appears, and a call becomes ready with files of its own.     *)
LEMMA GoingOn ==
    ASSUME TypeOK, TypeOK', Owned, UNCHANGED deployment,
           \A c \in Calls : call'[c] # call[c] => call[c] \notin Idle /\ call'[c] # "new",
           \A e \in Executors : run'[e] # Nothing => call[run'[e].call] # "new",
           \A g \in Groups : \A i \in DOMAIN queue'[g] : call[queue'[g][i].call] # "new",
           ~ overlap => \A e \in Executors : run'[e] # Nothing => run'[e].changed \subseteq run'[e].wrote,
           ~ overlap => \A c \in Calls : call'[c] = "ok" => Outputs[tool[c]] \subseteq own'[c]
    PROVE  Owned'
<1>1. overlap' = overlap
  BY DEF deployment
<1>2. \A c \in Calls : call'[c] = "new" => call[c] = "new"
  OBVIOUS
<1>3. NewIsUnknown'
  BY <1>2 DEF NewIsUnknown
<1>4. ~ overlap => OneByOne'
  BY DEF Owned, OneByOne, Idle
<1>5. QED
  BY <1>1, <1>3, <1>4 DEF Owned, OwnChanges, ReadyIsOwn

LEMMA FinishingOwned ==
    ASSUME TypeOK, TypeOK', Answers, Owned, NEW e \in Executors, finish(e)
    PROVE  Owned'
<1> DEFINE r == run[e]
<1>1. /\ r \in Run /\ r # Nothing /\ r.call \in Calls /\ r.live \in BOOLEAN
      /\ run' = [run EXCEPT ![e] = Nothing] /\ UNCHANGED <<deployment, queue>>
  BY Finishing DEF Run
<1>2. PICK answer \in {"error"} \cup IF r.todo = {} /\ r.call \notin broken THEN {Verdict(r)} ELSE {} :
          /\ call' = IF r.live THEN [call EXCEPT ![r.call] = answer] ELSE call
          /\ own' = IF r.live THEN [own EXCEPT ![r.call] = r.wrote] ELSE own
  BY DEF finish
<1>3. answer = "error" \/ (answer = "ok" /\ Outputs[tool[r.call]] \subseteq r.changed)
  BY <1>2 DEF Verdict
<1>4. ~ overlap => r.changed \subseteq r.wrote
  BY <1>1 DEF Owned, OwnChanges
<1>5. r.live => call[r.call] \notin Idle
  BY <1>1, NamedCalls DEF Answers, LocalRuns, LiveIsForwarded, Idle, Over
<1> HIDE DEF r
<1>6. PICK c \in Calls : r.call = c
  BY <1>1
<1>7. /\ \A d \in Calls : d # c \/ ~ r.live => call'[d] = call[d] /\ own'[d] = own[d]
      /\ r.live => call'[c] = answer /\ own'[c] = r.wrote
  BY <1>2, <1>6 DEF TypeOK
<1>8. \A x \in Executors : run'[x] # Nothing => run[x] # Nothing /\ run'[x] = run[x]
  BY <1>1 DEF TypeOK
<1>9. \A d \in Calls : call'[d] # call[d] => call[d] \notin Idle /\ call'[d] # "new"
  BY <1>3, <1>5, <1>6, <1>7
<1>10. /\ \A x \in Executors : run'[x] # Nothing => call[run'[x].call] # "new"
       /\ \A g \in Groups : \A i \in DOMAIN queue'[g] : call[queue'[g][i].call] # "new"
  BY <1>1, <1>8, NamedCalls DEF Owned, NewIsUnknown
<1>11. ~ overlap => \A x \in Executors : run'[x] # Nothing => run'[x].changed \subseteq run'[x].wrote
  BY <1>8 DEF Owned, OwnChanges
<1>12. ASSUME ~ overlap, NEW d \in Calls, call'[d] = "ok" PROVE Outputs[tool[d]] \subseteq own'[d]
  BY <1>3, <1>4, <1>6, <1>7, <1>12 DEF Owned, ReadyIsOwn
<1>13. QED
  BY <1>1, <1>9, <1>10, <1>11, <1>12, GoingOn

LEMMA WritingOwned ==
    ASSUME TypeOK, TypeOK', Answers, Owned, NEW f \in Files, NEW e,
           overlap \/ (e \in Executors /\ run[e] # Nothing),
           run' = Written(f, e), UNCHANGED <<deployment, call, queue, own>>
    PROVE  Owned'
<1>1. \A x \in Executors : run'[x] # Nothing => run[x] # Nothing /\ run'[x].call = run[x].call
  BY WritingKeeps
<1>2. ASSUME ~ overlap, NEW x \in Executors, run'[x] # Nothing PROVE run'[x].changed \subseteq run'[x].wrote
  <2> DEFINE r == run[x]
             wrote == r.wrote \cup {f}
             changed == r.changed \cup {f}
             todo == r.todo \ {f}
  <2>1. r \in Run /\ x = e
    BY <1>1, <1>2, OneRun DEF TypeOK
  <2>2. r.changed \subseteq r.wrote
    BY <1>1, <1>2 DEF Owned, OwnChanges
  <2>3. run'[x] = [r EXCEPT !.changed = changed, !.wrote = wrote, !.todo = todo]
    BY <1>1, <1>2, <2>1 DEF Written
  <2> HIDE DEF wrote, changed, todo
  <2>4. run'[x].changed = changed /\ run'[x].wrote = wrote
    BY <2>1, <2>3 DEF Run
  <2>5. QED
    BY <2>2, <2>4 DEF wrote, changed
<1>3. /\ \A x \in Executors : run'[x] # Nothing => call[run'[x].call] # "new"
      /\ \A g \in Groups : \A i \in DOMAIN queue'[g] : call[queue'[g][i].call] # "new"
  BY <1>1, NamedCalls DEF Owned, NewIsUnknown
<1>4. ~ overlap => \A c \in Calls : call'[c] = "ok" => Outputs[tool[c]] \subseteq own'[c]
  BY DEF Owned, ReadyIsOwn
<1>5. QED
  BY <1>2, <1>3, <1>4, GoingOn

LEMMA OwnedKept == TypeOK /\ Answers /\ Owned /\ [Next]_vars => Owned'
<1> SUFFICES ASSUME TypeOK, Answers, Owned, [Next]_vars PROVE Owned'
  OBVIOUS
<1>1. TypeOK'
  BY TypeKept
<1>2. /\ Calls \subseteq Executors /\ Groups \subseteq Executors
      /\ \A e \in Executors : run[e] # Nothing => run[e].call \in Calls /\ call[run[e].call] # "new"
      /\ \A g \in Groups : \A i \in DOMAIN queue[g] : queue[g][i].call \in Calls /\ call[queue[g][i].call] # "new"
  BY NamedCalls DEF Owned, NewIsUnknown
<1>3. ~ overlap => \A e \in Executors : run[e] # Nothing => run[e].changed \subseteq run[e].wrote
  BY DEF Owned, OwnChanges
<1>4. ~ overlap => \A c \in Calls : call[c] = "ok" => Outputs[tool[c]] \subseteq own[c]
  BY DEF Owned, ReadyIsOwn
<1>5. ASSUME UNCHANGED <<deployment, own>>,
             \A c \in Calls : call'[c] # call[c] => call[c] \notin Idle /\ call'[c] \notin {"new", "ok"},
             \A e \in Executors : run'[e] # Nothing =>
                 /\ call[run'[e].call] # "new"
                 /\ ~ overlap => run'[e].changed \subseteq run'[e].wrote,
             \A g \in Groups : \A i \in DOMAIN queue'[g] : call[queue'[g][i].call] # "new"
      PROVE  Owned'
  <2>1. ~ overlap => \A c \in Calls : call'[c] = "ok" => Outputs[tool[c]] \subseteq own'[c]
    BY <1>4, <1>5
  <2>2. QED
    BY <1>1, <1>5, <2>1, GoingOn
<1>6. ASSUME NEW c \in Calls, request(c) PROVE Owned'
  <2>1. /\ call[c] = "new" /\ call'[c] = "sent" /\ \A d \in Calls \ {c} : call'[d] = call[d]
        /\ overlap \/ \A d \in Calls \ {c} : call[d] \in Idle
        /\ UNCHANGED <<deployment, run, queue, own>>
    BY <1>6 DEF request, Now, TypeOK, Idle
  <2>2. overlap' = overlap
    BY <2>1 DEF deployment
  <2>3. NewIsUnknown'
    BY <2>1 DEF Owned, NewIsUnknown
  <2>4. ~ overlap => OneByOne'
    BY <2>1 DEF OneByOne, Idle
  <2>5. ~ overlap => OwnChanges' /\ ReadyIsOwn'
    BY <1>3, <1>4, <2>1 DEF OwnChanges, ReadyIsOwn
  <2>6. ReadyIsOwn'
    BY <2>2, <2>5 DEF ReadyIsOwn
  <2>7. QED
    BY <2>2, <2>3, <2>4, <2>5, <2>6 DEF Owned
<1>7. ASSUME NEW c \in Calls, retry(c) \/ report_unavailable(c) PROVE Owned'
  <2>1. \E state \in {"sent", "worker_unavailable"} : Now(c, state)
    BY <1>7 DEF retry, report_unavailable
  <2>2. call[c] \notin Idle /\ UNCHANGED <<deployment, run, queue, own>>
    BY <1>7 DEF retry, report_unavailable, Idle, Over
  <2>3. \A d \in Calls : call'[d] # call[d] => call[d] \notin Idle /\ call'[d] \notin {"new", "ok"}
    BY <2>1, <2>2 DEF Now, TypeOK
  <2>4. QED
    BY <1>2, <1>3, <1>5, <2>2, <2>3
<1>8. ASSUME NEW c \in Calls, run_locally(c) PROVE Owned'
  <2>1. PICK todo : run' = [run EXCEPT ![c] = Started(c, TRUE, todo)]
    BY <1>8 DEF run_locally
  <2>2. call[c] = "sent" /\ Now(c, "running") /\ UNCHANGED <<deployment, queue, own>>
    BY <1>8 DEF run_locally
  <2>3. \A d \in Calls : call'[d] # call[d] => call[d] \notin Idle /\ call'[d] \notin {"new", "ok"}
    BY <2>2 DEF Now, TypeOK, Idle, Over
  <2>4. /\ run'[c].call = c /\ run'[c].changed = {} /\ \A e \in Executors \ {c} : run'[e] = run[e]
    BY <1>2, <2>1 DEF TypeOK, Started
  <2>5. QED
    BY <1>2, <1>3, <1>5, <2>2, <2>3, <2>4
<1>9. ASSUME NEW c \in Calls, forward_to_worker(c) PROVE Owned'
  <2>1. /\ call[c] = "sent" /\ UNCHANGED <<deployment, run, own>>
        /\ \E state \in {"forwarded", "worker_starting"} : Now(c, state)
    BY <1>9 DEF forward_to_worker
  <2>2. \A d \in Calls : call'[d] # call[d] => call[d] \notin Idle /\ call'[d] \notin {"new", "ok"}
    BY <2>1 DEF Now, TypeOK, Idle, Over
  <2>3. \A g \in Groups : \A i \in DOMAIN queue'[g] : call[queue'[g][i].call] # "new"
    <3>1. CASE UNCHANGED queue
      BY <1>2, <3>1
    <3>2. CASE /\ GroupOf(c) \in url
               /\ queue' = [queue EXCEPT ![GroupOf(c)] = Append(@, [call |-> c, live |-> TRUE])]
      <4> DEFINE h == GroupOf(c)
                 q == queue[h]
                 job == [call |-> c, live |-> TRUE]
      <4>1. h \in Groups /\ q \in Seq(Job) /\ job \in Job /\ job.call = c
        BY <3>2 DEF TypeOK, Job
      <4>2. queue'[h] = Append(q, job) /\ \A g \in Groups \ {h} : queue'[g] = queue[g]
        BY <3>2, <4>1 DEF TypeOK
      <4>3. \A i \in DOMAIN q : call[q[i].call] # "new"
        BY <1>2, <4>1
      <4> HIDE DEF h, q, job
      <4>4. \A i \in DOMAIN queue'[h] : queue'[h][i] = job \/ (i \in DOMAIN q /\ queue'[h][i] = q[i])
        BY <4>1, <4>2
      <4>5. QED
        BY <1>2, <2>1, <4>1, <4>2, <4>3, <4>4
    <3>3. QED
      BY <1>9, <3>1, <3>2 DEF forward_to_worker
  <2>4. QED
    BY <1>2, <1>3, <1>5, <2>1, <2>2, <2>3
<1>10. ASSUME NEW C, Orphaned(C), UNCHANGED <<deployment, own>>,
              \A c \in Calls : call'[c] # call[c] => call[c] \notin Idle /\ call'[c] \notin {"new", "ok"}
       PROVE  Owned'
  <2>1. \A e \in Executors : run'[e] # Nothing =>
            /\ run[e] # Nothing /\ run'[e].call = run[e].call
            /\ run'[e].wrote = run[e].wrote /\ run'[e].changed = run[e].changed
    BY <1>10, Orphaning
  <2>2. \A g \in Groups : \A i \in DOMAIN queue'[g] : i \in DOMAIN queue[g] /\ queue'[g][i].call = queue[g][i].call
    BY <1>10, Orphaning
  <2>3. QED
    BY <1>2, <1>3, <1>5, <1>10, <2>1, <2>2
<1>11. ASSUME NEW c \in Calls, time_out(c) PROVE Owned'
  <2>1. /\ call[c] = "forwarded" /\ Now(c, "worker_starting") /\ Orphaned({c})
        /\ UNCHANGED <<deployment, own>>
    BY <1>11 DEF time_out
  <2>2. \A d \in Calls : call'[d] # call[d] => call[d] \notin Idle /\ call'[d] \notin {"new", "ok"}
    BY <2>1 DEF Now, TypeOK, Idle, Over
  <2>3. QED
    BY <1>10, <2>1, <2>2
<1>12. CASE crash_core
  <2>1. /\ Orphaned(AtCore) /\ UNCHANGED <<deployment, own>>
        /\ \A c \in Calls : call'[c] = IF c \in AtCore THEN "sent" ELSE call[c]
    BY <1>12 DEF crash_core
  <2>2. \A d \in Calls : call'[d] # call[d] => call[d] \notin Idle /\ call'[d] \notin {"new", "ok"}
    BY <2>1 DEF AtCore, Idle, Over
  <2>3. QED
    BY <1>10, <2>1, <2>2
<1>13. ASSUME NEW g \in Groups, invoke(g) PROVE Owned'
  <2> DEFINE q == queue[g]
             j == q[1]
             rest == RemoveAt(q, 1)
  <2>1. q \in Seq(Job) /\ q # <<>> /\ UNCHANGED <<deployment, call, own>>
    BY <1>13 DEF invoke, TypeOK
  <2>2. PICK todo : run' = [run EXCEPT ![g] = Started(j.call, j.live, todo)]
    BY <1>13 DEF invoke, Turn
  <2>3. queue' = [queue EXCEPT ![g] = rest]
    BY <1>13 DEF invoke, Turn
  <2>4. 1 \in DOMAIN q /\ \A i \in DOMAIN rest : i + 1 \in DOMAIN q /\ rest[i] = q[i + 1]
    BY <2>1, TakingTheFirst
  <2>5. /\ run'[g].call = j.call /\ run'[g].changed = {} /\ \A x \in Executors \ {g} : run'[x] = run[x]
    BY <1>2, <2>2 DEF TypeOK, Started
  <2>6. queue'[g] = rest /\ \A h \in Groups \ {g} : queue'[h] = queue[h]
    BY <2>3 DEF TypeOK
  <2>7. \A i \in DOMAIN q : call[q[i].call] # "new"
    BY <1>2
  <2> HIDE DEF rest, q
  <2>8. \A h \in Groups : \A i \in DOMAIN queue'[h] : call[queue'[h][i].call] # "new"
    BY <1>2, <2>4, <2>6, <2>7
  <2>9. \A e \in Executors : run'[e] # Nothing =>
            call[run'[e].call] # "new" /\ (~ overlap => run'[e].changed \subseteq run'[e].wrote)
    BY <1>2, <1>3, <2>4, <2>5, <2>7
  <2>10. QED
    BY <1>5, <2>1, <2>8, <2>9
<1>14. ASSUME NEW g \in Groups, crash_worker(g) PROVE Owned'
  <2>1. /\ run' = [run EXCEPT ![g] = Nothing] /\ queue' = [queue EXCEPT ![g] = <<>>]
        /\ call' = [c \in Calls |-> IF c \in WaitingAt(g) THEN "worker_starting" ELSE call[c]]
        /\ UNCHANGED <<deployment, own>>
    BY <1>14 DEF crash_worker
  <2>2. \A d \in Calls : call'[d] # call[d] => call[d] \notin Idle /\ call'[d] \notin {"new", "ok"}
    BY <2>1 DEF WaitingAt, Idle, Over
  <2>3. \A x \in Executors : run'[x] # Nothing => run[x] # Nothing /\ run'[x] = run[x]
    BY <2>1 DEF TypeOK
  <2>4. DOMAIN <<>> = {} /\ DOMAIN queue = Groups
    BY DEF TypeOK
  <2>5. queue'[g] = <<>> /\ \A h \in Groups \ {g} : queue'[h] = queue[h]
    BY <2>1, <2>4
  <2>6. QED
    BY <1>2, <1>3, <1>5, <2>1, <2>2, <2>3, <2>4, <2>5
<1>15. ASSUME UNCHANGED <<deployment, call, run, queue, own>> PROVE Owned'
  BY <1>2, <1>3, <1>5, <1>15
<1>16. ASSUME NEW e \in Executors, write(e) PROVE Owned'
  <2>1. PICK f \in run[e].todo : run' = Written(f, e)
    BY <1>16 DEF write
  <2>2. run[e] # Nothing /\ f \in Files /\ UNCHANGED <<deployment, call, queue, own>>
    BY <1>16, <2>1 DEF write, TypeOK, Run
  <2>3. QED
    BY <1>1, <2>1, <2>2, WritingOwned
<1>17. ASSUME NEW f \in Files, upload(f) PROVE Owned'
  BY <1>1, <1>17, WritingOwned DEF upload
<1>18. ASSUME NEW e \in Executors, finish(e) \/ fail(e) PROVE Owned'
  <2>1. CASE finish(e)
    BY <1>1, <2>1, FinishingOwned
  <2>2. CASE fail(e)
    <3> DEFINE r == run[e]
    <3>1. /\ r # Nothing /\ run' = [run EXCEPT ![e] = Nothing]
          /\ UNCHANGED <<deployment, queue, own>>
          /\ \E answer \in {"worker_starting", "error"} :
                 call' = IF r.live THEN [call EXCEPT ![r.call] = answer] ELSE call
      BY <2>2 DEF fail
    <3>2. r.live => call[r.call] \notin Idle
      BY <3>1, NamedCalls DEF Answers, LocalRuns, LiveIsForwarded, Idle, Over
    <3>3. \A d \in Calls : call'[d] # call[d] => call[d] \notin Idle /\ call'[d] \notin {"new", "ok"}
      BY <3>1, <3>2 DEF TypeOK
    <3>4. \A x \in Executors : run'[x] # Nothing => run[x] # Nothing /\ run'[x] = run[x]
      BY <3>1 DEF TypeOK
    <3>5. QED
      BY <1>2, <1>3, <1>5, <3>1, <3>3, <3>4
  <2>3. QED
    BY <1>18, <2>1, <2>2
<1>19. ASSUME NEW g \in Groups, boot_worker(g) PROVE Owned'
  BY <1>15, <1>19 DEF boot_worker
<1>20. CASE UNCHANGED vars
  BY <1>15, <1>20 DEF vars
<1>21. QED
  BY <1>6, <1>7, <1>8, <1>9, <1>11, <1>12, <1>13, <1>14, <1>16, <1>17, <1>18, <1>19, <1>20 DEF Next, Serve

----------------------------------------------------------------------------
(* Results *)

(* Calls, runs and waiting calls have their shape.                         *)
THEOREM TypeCorrect == Spec => []TypeOK
<1>1. QED
  BY TypeAtFirst, TypeKept, PTL DEF Spec

(* Once a call is answered nothing works on it any more, through any       *)
(* number of timeouts, crashes and retries.                                *)
THEOREM AnswersSettle == Spec => []AnsweredIsSettled
<1>1. TypeOK /\ Answers /\ [Next]_vars => TypeOK' /\ Answers'
  BY TypeKept, AnswersKept
<1>2. Answers => AnsweredIsSettled
  BY DEF Answers
<1>3. QED
  BY <1>1, <1>2, TypeAtFirst, AnswersAtFirst, PTL DEF Spec

(* As long as clients call one after another, a call that is answered      *)
(* ready has made its files itself, whatever runs a timeout or a restart   *)
(* of the core abandoned.                                                  *)
THEOREM ReadyMadeItsFiles == Spec => []ReadyIsOwn
<1>1. TypeOK /\ Answers /\ Owned /\ [Next]_vars => TypeOK' /\ Answers' /\ Owned'
  BY TypeKept, AnswersKept, OwnedKept
<1>2. Owned => ReadyIsOwn
  BY DEF Owned
<1>3. QED
  BY <1>1, <1>2, TypeAtFirst, AnswersAtFirst, OwnedAtFirst, PTL DEF Spec

=============================================================================
