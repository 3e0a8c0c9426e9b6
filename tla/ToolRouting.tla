---------------------------- MODULE ToolRouting ------------------------------
(***************************************************************************)
(* Tool calls (services/mcp/server.py: run_tool, _route_tool,              *)
(* _forward_to_worker, invoke) between clients, the core server and its    *)
(* workers, over one workspace that all of them write.                     *)
(*                                                                         *)
(* The core serves each call in a thread of its own.  A worker's /invoke   *)
(* runs the tool on its event loop: one at a time, and calls that come     *)
(* meanwhile wait in the order they came, whether anybody still waits for  *)
(* their answer or not.  After 180 seconds the core stops waiting; it then *)
(* tells the client worker_starting, as it does when no worker answers,    *)
(* and the client calls again.  Calls of tools that are short never wait   *)
(* that long, unless behind a long one.                                    *)
(*                                                                         *)
(* A call names the workspace and asserts the files its tool makes         *)
(* (expected_files).  The tool may fail, or find its toolchain missing and *)
(* end well without a file.  Files are compared by the snapshot a run took *)
(* at its start, so the state keeps per run what was written since.        *)
(*                                                                         *)
(* run_tool catches what the tool raises, and nothing else: an exception   *)
(* while files are compared or assertions evaluated, or over a result that *)
(* JSON cannot hold, makes the worker answer 500.  The core takes that for *)
(* a worker that does not answer, and the client calls again.              *)
(***************************************************************************)
EXTENDS Naturals, SequencesExt

CONSTANTS
    Calls,          \* what clients ask for, each asked until it is answered
    Tools, Groups,  \* tools, and the groups whose tools are not the core's
    LongTools,      \* tools that may run for more than 180 seconds
    Files,
    tool,           \* the tool of a call
    group,          \* the group of a tool
    Outputs,        \* the files a tool makes
    Malformed,      \* calls that may have been written such that they raise outside their tool
    MaxQueue, MaxCrashes    \* bounds: calls waiting at a worker, crashes and stray exceptions

ASSUME RoutingAssumption ==
    /\ tool \in [Calls -> Tools]
    /\ "core" \notin Groups /\ group \in [Tools -> Groups \cup {"core"}]
    /\ Outputs \in [Tools -> SUBSET Files]
    /\ LongTools \subseteq Tools /\ Malformed \subseteq Calls
    /\ MaxQueue \in Nat \ {0} /\ MaxCrashes \in Nat
    /\ Calls \cap Groups = {}

VARIABLES
    overlap,    \* whether clients may call beside one another and upload
    slow,       \* whether long tools take long this time
    broken,     \* calls that raise outside the tool whenever they are run (a malformed assert)
    monolith,   \* whether the core serves every group itself (--tools)
    url,        \* groups whose worker the core knows
    call,       \* per call, how far the client is
    run,        \* per thread of the core and per worker, the tool it runs
    queue,      \* per worker, the calls that wait
    up,         \* per worker, whether it answers
    own,        \* history: per call, what the run that answered it wrote itself
    crashes

deployment == <<overlap, slow, broken, monolith, url>>
vars == <<deployment, call, run, queue, up, own, crashes>>

Executors == Calls \cup Groups
Nothing == [is |-> "nothing"]
Asked == {"new", "sent", "running", "forwarded", "worker_starting", "worker_unavailable", "ok", "error"}
Over == {"worker_unavailable", "ok", "error"}

\* live: whether the core waits for the answer
Job == [call : Calls, live : BOOLEAN]
Run == [call : Calls, live : BOOLEAN, todo : SUBSET Files, wrote : SUBSET Files, changed : SUBSET Files]

Init ==
    /\ overlap \in BOOLEAN /\ slow \in BOOLEAN /\ broken \in SUBSET Malformed
    /\ monolith \in BOOLEAN /\ url \in IF monolith THEN {{}} ELSE SUBSET Groups   \* a monolith asks no worker
    /\ call = [c \in Calls |-> "new"]
    /\ run = [e \in Executors |-> Nothing]
    /\ queue = [g \in Groups |-> <<>>]
    /\ up = [g \in Groups |-> FALSE]
    /\ own = [c \in Calls |-> {}]
    /\ crashes = 0

Now(c, state) == call' = [call EXCEPT ![c] = state]
GroupOf(c) == group[tool[c]]

----------------------------------------------------------------------------
(* Clients *)

request(c) ==
    /\ call[c] = "new"
    /\ overlap \/ \A d \in Calls \ {c} : call[d] \in Over \cup {"new"}
    /\ Now(c, "sent")
    /\ UNCHANGED <<deployment, run, queue, up, own, crashes>>

retry(c) ==
    /\ call[c] = "worker_starting"
    /\ Now(c, "sent")
    /\ UNCHANGED <<deployment, run, queue, up, own, crashes>>

\* every run under way finds the file changed; the one that wrote it knows
Written(f, e) ==
    [x \in Executors |-> IF run[x] = Nothing THEN Nothing
                         ELSE [run[x] EXCEPT !.changed = @ \cup {f},
                                             !.wrote = IF x = e THEN @ \cup {f} ELSE @,
                                             !.todo = IF x = e THEN @ \ {f} ELSE @]]

upload(f) ==
    /\ overlap
    /\ run' = Written(f, "client")
    /\ UNCHANGED <<deployment, call, queue, up, own, crashes>>

----------------------------------------------------------------------------
(* Routing *)

\* an unconfigured worker is taken for one that is starting
MutantRoute(c) ==
    IF monolith \/ GroupOf(c) = "core" THEN "local" ELSE "forward"

Route(c) ==
    IF monolith \/ GroupOf(c) = "core" THEN "local"
    ELSE IF GroupOf(c) \in url THEN "forward" ELSE "unavailable"

\* a tool that finds no toolchain makes no file
Started(c, live, todo) ==
    [call |-> c, live |-> live, todo |-> todo, wrote |-> {}, changed |-> {}]

run_locally(c) ==
    /\ call[c] = "sent" /\ Route(c) = "local"
    /\ \E todo \in {{}, Outputs[tool[c]]} : run' = [run EXCEPT ![c] = Started(c, TRUE, todo)]
    /\ Now(c, "running")
    /\ UNCHANGED <<deployment, queue, up, own, crashes>>

\* a worker that is busy still accepts the connection
forward_to_worker(c) ==
    LET g == GroupOf(c) IN
    /\ call[c] = "sent" /\ Route(c) = "forward"
    /\ IF g \in url /\ up[g]
       THEN /\ Len(queue[g]) < MaxQueue
            /\ queue' = [queue EXCEPT ![g] = Append(@, [call |-> c, live |-> TRUE])]
            /\ Now(c, "forwarded")
       ELSE Now(c, "worker_starting") /\ UNCHANGED queue
    /\ UNCHANGED <<deployment, run, up, own, crashes>>

report_unavailable(c) ==
    /\ call[c] = "sent" /\ Route(c) = "unavailable"
    /\ Now(c, "worker_unavailable")
    /\ UNCHANGED <<deployment, run, queue, up, own, crashes>>

----------------------------------------------------------------------------
(* Running a tool *)

\* serves a call beside those that wait, the last first
MutantTurn(g) == Len(queue[g])
Turn(g) == 1

\* the worker of a group serves the tools of the group itself
invoke(g) ==
    /\ up[g] /\ run[g] = Nothing /\ queue[g] # <<>>
    /\ LET j == queue[g][Turn(g)] IN
          /\ \E todo \in {{}, Outputs[tool[j.call]]} : run' = [run EXCEPT ![g] = Started(j.call, j.live, todo)]
          /\ queue' = [queue EXCEPT ![g] = RemoveAt(@, Turn(g))]
    /\ UNCHANGED <<deployment, call, up, own, crashes>>

write(e) ==
    /\ run[e] # Nothing
    /\ \E f \in run[e].todo : run' = Written(f, e)
    /\ UNCHANGED <<deployment, call, queue, up, own, crashes>>

\* asks for the transport only
MutantVerdict(r) == "ok"

\* assert_content over what _produced finds
Verdict(r) == IF Outputs[tool[r.call]] \subseteq r.changed THEN "ok" ELSE "error"

\* a tool that raises ends with what it wrote so far, and one of a broken call cannot end well
finish(e) ==
    LET r == run[e] IN
    /\ r # Nothing
    /\ \E answer \in {"error"} \cup IF r.todo = {} /\ r.call \notin broken THEN {Verdict(r)} ELSE {} :
          /\ call' = IF r.live THEN [call EXCEPT ![r.call] = answer] ELSE call
          /\ own' = IF r.live THEN [own EXCEPT ![r.call] = r.wrote] ELSE own
    /\ run' = [run EXCEPT ![e] = Nothing]
    /\ UNCHANGED <<deployment, queue, up, crashes>>

\* an exception outside the tool: a worker's 500 is reported as worker_starting, the core's own as an error
fail(e) ==
    LET r == run[e] IN
    /\ r # Nothing
    /\ \/ r.call \in broken /\ UNCHANGED crashes
       \/ r.call \notin broken /\ crashes < MaxCrashes /\ crashes' = crashes + 1
    /\ call' = IF r.live THEN [call EXCEPT ![r.call] = IF e \in Groups THEN "worker_starting" ELSE "error"] ELSE call
    /\ run' = [run EXCEPT ![e] = Nothing]
    /\ UNCHANGED <<deployment, queue, up, own>>

----------------------------------------------------------------------------
(* Timeouts and crashes *)

\* no answer will be taken
Orphaned(C) ==
    /\ queue' = [g \in Groups |-> [i \in DOMAIN queue[g] |->
                    [queue[g][i] EXCEPT !.live = @ /\ queue[g][i].call \notin C]]]
    /\ run' = [e \in Executors |->
                  IF run[e] = Nothing \/ e \in C THEN Nothing
                  ELSE [run[e] EXCEPT !.live = @ /\ run[e].call \notin C]]

Late(c) ==
    LET r == run[GroupOf(c)] IN
    slow /\ r # Nothing /\ tool[r.call] \in LongTools

time_out(c) ==
    /\ call[c] = "forwarded" /\ Late(c)
    /\ Orphaned({c})
    /\ Now(c, "worker_starting")
    /\ UNCHANGED <<deployment, up, own, crashes>>

WaitingAt(g) == {c \in Calls : call[c] = "forwarded" /\ GroupOf(c) = g}

\* connections break, and the core reports a worker that is not reachable yet
crash_worker(g) ==
    /\ up[g] /\ crashes < MaxCrashes
    /\ up' = [up EXCEPT ![g] = FALSE]
    /\ queue' = [queue EXCEPT ![g] = <<>>]
    /\ run' = [run EXCEPT ![g] = Nothing]
    /\ call' = [c \in Calls |-> IF c \in WaitingAt(g) THEN "worker_starting" ELSE call[c]]
    /\ crashes' = crashes + 1
    /\ UNCHANGED <<deployment, own>>

boot_worker(g) ==
    /\ ~ up[g]
    /\ up' = [up EXCEPT ![g] = TRUE]
    /\ UNCHANGED <<deployment, call, run, queue, own, crashes>>

AtCore == {c \in Calls : call[c] \in {"sent", "running", "forwarded"}}

\* clients lose their connection and call again; workers go on
crash_core ==
    /\ crashes < MaxCrashes /\ AtCore # {}
    /\ Orphaned(AtCore)
    /\ call' = [c \in Calls |-> IF c \in AtCore THEN "sent" ELSE call[c]]
    /\ crashes' = crashes + 1
    /\ UNCHANGED <<deployment, up, own>>

----------------------------------------------------------------------------
Serve(c) == run_locally(c) \/ forward_to_worker(c) \/ report_unavailable(c)

Next ==
    \/ \E c \in Calls : request(c) \/ retry(c) \/ Serve(c) \/ time_out(c)
    \/ \E f \in Files : upload(f)
    \/ \E e \in Executors : write(e) \/ finish(e) \/ fail(e)
    \/ \E g \in Groups : invoke(g) \/ crash_worker(g) \/ boot_worker(g)
    \/ crash_core

\* processes that run go on running, containers are restarted, clients call again when told to
Fairness ==
    /\ \A c \in Calls : WF_vars(retry(c)) /\ WF_vars(Serve(c))
    /\ \A e \in Executors : WF_vars(finish(e) \/ fail(e))
    /\ \A g \in Groups : WF_vars(invoke(g)) /\ WF_vars(boot_worker(g))

Spec == Init /\ [][Next]_vars /\ Fairness

----------------------------------------------------------------------------
(* Properties *)

(* Calls, runs and waiting calls have the shape the code gives them.       *)
TypeOK ==
    /\ overlap \in BOOLEAN /\ slow \in BOOLEAN /\ broken \subseteq Malformed
    /\ monolith \in BOOLEAN /\ url \subseteq Groups
    /\ call \in [Calls -> Asked]
    /\ run \in [Executors -> Run \cup {Nothing}]
    /\ queue \in [Groups -> Seq(Job)] /\ \A g \in Groups : Len(queue[g]) <= MaxQueue
    /\ up \in [Groups -> BOOLEAN]
    /\ own \in [Calls -> SUBSET Files]
    /\ crashes \in 0..MaxCrashes

(* Once a call is answered nothing works on it any more: what a retry or a *)
(* restart of the core left behind at a worker came before the run that    *)
(* answered, so files a client was told of are not rewritten under it.     *)
AnsweredIsSettled ==
    \A c \in Calls : call[c] \in Over =>
        /\ \A e \in Executors : run[e] # Nothing => run[e].call # c
        /\ \A g \in Groups : \A i \in DOMAIN queue[g] : queue[g][i].call # c

(* A call that is delivery-ready made its files itself, although they are  *)
(* told by comparing the whole workspace and abandoned runs may go on, as  *)
(* long as clients call one after another.                                 *)
ReadyIsOwn ==
    ~ overlap => \A c \in Calls : call[c] = "ok" => Outputs[tool[c]] \subseteq own[c]

(* A call that does not raise outside its tool each time it is run is      *)
(* answered in the end, unless a tool outlives the timeout: through        *)
(* crashes, restarts and retries, in any deployment, and beside calls that *)
(* are told to retry for ever, since the worker takes all in their order.  *)
SoundCallsAreAnswered ==
    \A c \in Calls : (~ slow /\ c \notin broken /\ call[c] = "sent") ~> call[c] \in Over

=============================================================================
