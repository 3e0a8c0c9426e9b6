# Verification of bodesign

bodesign is an MCP server that takes an AI agent and its owner through the design of
a printed circuit board: a product requirement document (layer C00), six downstream
layers (C01 to C06) conducted from it, a governed schematic and layout flow, KiCad
engines that do the work, and the plumbing that carries deliverables and feedback in
and out. This directory holds TLA+ models of the parts of it whose correctness depends
on order, failure and overlap, the TLC runs that check them, and TLAPS proofs.

`PROJECT.json` lists components, runs, mutations each property must notice, the source
lines of every definition, findings, hazards and theorems.

## 1. Inventory

| Component | Code | State it keeps | Operations |
|---|---|---|---|
| Governance state machine | `workflow-core/.../substate_machine.py` | C03 state, C04 state, receipts by state | `advance_c03`, `advance_c04`, `to_dict`, `from_dict` |
| Governance verbs | `skills/bodesign/scripts/gate.py` 1021-1091 | none: a machine per call | `c03_substate_advance`, `c04_substate_advance` |
| Blocker hub | `workflow-core/.../blocker_hub.py`, `gate.py` 1144-1157 | records in memory, `BLK-nnn.json` files, a counter | create, dispatch, resolve; `blocker_record` |
| Fleet telemetry outbox | `services/mcp/feedback_drafts.py`, `deploy/fleet-outbox-adapter.py`, `scripts/fleet-outbox-reconcile.py` | SQLite draft rows, outbox and `dead-letter/` files, a wake socket | submit, wake, drain, push, requeue |
| Deliverable caches | `services/mcp/token_store.py`, `services/mcp/server.py` | a directory and a sidecar per cache | WebDAV PUT, DELETE, MOVE, COPY; export, close, provision; reaping |
| Orchestration spine | `workflow-core/.../orchestration.py`, `c00_orchestration.py` | work packets, blockers, evidence returns, log | dispatch, return, ingest, tick |
| C00 PRD | `c00_prd_template.py` | answer state | answer, assess, emit |
| Mode contracts, refs gate, DoD gates | `mode_contracts.py`, `refs_gate.py`, `decision_gate.py`, `dod_traceback.py` | none | enter a mode, require sources |
| C01 to C06 generators | `c01_id_package.py` ... `c06_test_plan.py`, `check_c03.py` | none | emit and lint documents |
| Rebuild contracts | `workflow-core` `rebuild_contracts.py`, `rebuild_compat.py`; `design-ir` `rebuild_contracts.py` | verification records, approvals; CAD job registry | wrap a result, judge freshness, decide on a release; register, cancel |
| WebDAV locks | `services/mcp/_webdav.py` | locks by path, per process | acquire, check, release |
| WebDAV credentials | `services/mcp/_auth_provider.py` | hashes in memory and in a file | issue, verify, revoke |
| Tool dispatch | `services/mcp/server.py` 1829-1900, 2162-2340, 3386-3400 | worker URLs, calls under way, files of the workspace | run locally, forward, refuse, invoke at a worker, tell what was produced |
| Component vault | `component-kb`, `services/mcp/vault_api.py` | SQLite tables, blobs | open and migrate, ingest, import, alias, scan |
| EDA bridge | `eda-bridge` (`occupancy.py`, `kicad_emit.py`, composer) | ledger of rectangles, registry of segments, labels of one drawing | reserve, query, route, name, emit |
| Importers, shared data classes, analysis engines, shipping, shell scripts | the other packages | little or none | parse, analyse, pack |

How they interact:

* The **agent** calls landing verbs. Each runs as a process of its own (`gate.py`) over the
  client's folder; nothing locks the folder. Governance, the blocker hub and the spine are
  reached this way and meet only in files.
* The **server** (`server.py`) handles WebDAV and tool requests in worker threads
  (`asyncio.to_thread`). Caches are shared by the threads and guarded by no lock; a request
  is a sequence of file-system calls.
* `submit_retrospective` commits a draft and pokes the **sidecar**, a separate process, by a
  datagram that may be dropped. Sidecar, submitter and operator share the database and the
  outbox directory.
* The core server and one worker process per tool group share the workspace; the core forwards
  a call over HTTP and gives up after 180 seconds, the worker does not.
* `vault_ingest` calls and imports open a connection each to one SQLite file and write blobs
  beside it. The emitter asks the occupancy ledger before it draws, and the release gates read
  records that were made of runs long past.

What is hard here: (1) chains of evidence that have to hold over many calls and resumed
snapshots; (2) check-then-act over files by processes or threads that overlap; (3) kills
between two writes that belong together; (4) lost wake-ups and answers, and answers that come after somebody stopped waiting; (5) loops
that must end in a release, a delivery or a dispatched layer; (6) greedy routing, where each net
sees only what was drawn before it.

What makes each modelled component correct:

* *Governance*: no stage without all receipts before it, in the order they were minted; no
  role verifies its own work; a release is backed by everything down to S0; the flow can be
  completed.
* *Hub*: repair loops are bounded, escalation sticks, no reported issue is forgotten.
* *Outbox*: delivered means delivered and is final; nothing is stranded or unreachable.
* *Caches*: an acknowledged upload is not lost without its owner's will; "clean" means
  exported; one cache per subject.
* *Spine*: the log is true; one dispatch per layer, in order, and never past an open
  blocker; everything gets its work in the end.
* *Tool dispatch*: an answered call is over everywhere; "ready" means made by this call; calls
  are answered.
* *Vault*: the schema version tells the tables; a row has its blob; searches find chunks of the last
  extractors; a repeated import adds nothing.
* *Release evidence*: a release rests on good runs of what is released, with the tools that are
  installed; the two gates agree.
* *Sheet routing*: no two nets are joined; what is not drawn is named.

## 2. Modules

| Module | Models | Composed from |
|---|---|---|
| `Governance` | the rules of `substate_machine.py`: sequences, roles, gates, receipts | |
| `SubstateMachine` | the object with its calls and snapshots | extends `Governance`; implements `ReleasePipeline` |
| `ReleasePipeline` | abstract: stages signed one after the other, gates by verifiers only | |
| `SubstateVerbs` | the verbs that build a throw-away object per call | extends `Governance` |
| `BlockerHub` | the hub, hubs started over the same directory, the verb | |
| `FleetOutbox` | submitter, adapters, mother system, operator | implements `FleetDelivery` |
| `FleetDelivery` | abstract: queued, delivered once confirmed, parked, requeued | |
| `DeliverableCache` | requests over cache directories, step by step | |
| `Spine` | the verbs over `_orchestration/` and the C00 loop | implements `DesignFlow` |
| `DesignFlow` | abstract: work once and in order, questions decided once | |
| `ToolRouting` | clients, core, workers, timeouts, restarts, the files a run produced | |
| `ComponentVault` | connections over the database and the blob directory, step by step | |
| `ReleaseEvidence` | designs, tools, records, approvals, freshness and both release gates | |
| `Occupancy` | the ledger: reserve, query, path check, overlaps | |
| `SheetRouting` | the routing phase of `emit_kicad_schematic` | extends `Occupancy` |
| `Governance_proofs` | theorems | extends `SubstateMachine`, `SubstateVerbs`, `BlockerHub` |
| `..._proofs` (seven others) | theorems | extend the modules they are named after |
| `MC...` | constants of the runs | extend the modules they instantiate |

Operators whose names begin with `Mutant` stand right before the definition they imitate and
change it the way a plausible slip in the code would; no specification uses them. Each is
named in `PROJECT.json` with the property that must fail once it is put in place.

### Governance, SubstateMachine, SubstateVerbs

A stage is its place in the line S0..S5, P0..P7 (1 to 14). A call is a role, a set of gate
verdicts and the approval flag; what a call may do is decided by `MayEnterC03` and
`MayEnterC04`, whose conjuncts are the code's checks: authority, sequence, verdicts, the
stage's own rule. `advance_c03` and `advance_c04` mint a receipt with a token (its place in
the order of minting) and the author; `reaffirm` is the call that returns an existing receipt
and changes nothing; `to_dict` and `from_dict` keep a snapshot and come back to it. Digest,
time stamp and free text of a receipt are left out.

In `SubstateVerbs` the same rules are asked of a machine without receipts, built from the
states the caller claims; the state is what the verbs have returned and the last call. `AsDocumented` says
which calls the verbs' documentation has succeed.

### BlockerHub

`blockers` is the hub's memory, `disk` the directory. `create_blocker`, `dispatch_repair`
and `resolve_blocker` change the first and persist to the second. `NewHub` starts a hub with
an empty memory and counter 1 over the directory there is; `blocker_record` is a hub that
lives for one call. `logged` and `orders` are history.

### FleetOutbox

One action per write of each process: the submitter's commit and its poke; the server's
start (which re-binds the socket and drains), `claim`, and for each draft `push`, `post` with
each answer the mother or the network may give, `finish_delivered`, `unlink`, `bury`,
`finish_dead`; the operator's copy, removal and row update. `crash` kills an adapter anywhere.
A delivered answer can be lost after the mother took the draft. Outbox records are abstracted
to their existence, because nothing the program decides depends on their content. `Oneshots`
are runs with `--once` beside the server. The operator may run a command at any moment, with or without
`FLEET_DRAFTS_DB`; `skipped` is history, the drafts whose file a command moved without marking the row.

### DeliverableCache

A request is a record that says at which file-system step it is; several threads each have
one. `load` is chosen at the start: which threads and subjects there are, and how many requests,
silences and kills. A file is a version number and an mtime; a sidecar is a record, absent, or torn (the
truncated file between the two halves of `write_text`). The door touches the directory and
the request works on what it finds later. Every stamp is later than the one before: the
granularity of file-system time is not modelled. Left out are directories inside a cache,
`Overwrite: F`, requests that only read or that are refused at the door, and the lock table,
whose locks never refuse their owner. MOVE and COPY are asked of every pair of paths, a path and itself
among them: `clear_dest` then removes the source, and `Overwritten` counts its upload as taken away by the
client's request, which the properties about uploads name among their exceptions.

### Spine, DesignFlow

The files of `_orchestration/` are functions from numbers to contents, with `Torn` for a file
that was truncated and not filled. A verb runs as: decide what to do (guards of the code),
`number` its file by counting, open, fill, and `append_log`; `return_to_c00` of a blocker also
rewrites its packet. The PRD is the status of each section, an owner answers, approves and
reopens sections. `c00_orchestration_tick` is the tick that dispatches; a tick that only tells
the owner something changes nothing and is not an action. Objectives, severities, the contents
of evidence and of 01_refs/ and the package C01 emits are left out. `handed` is history: which
layers got a packet from the loop or by hand.

### ToolRouting

`call` is how far each client is, `run` the tool that a thread of the core or a worker executes,
`queue` what waits at a worker. `forward_to_worker`, `invoke`, `time_out`, `crash_worker` and
`crash_core` say what `_forward_to_worker` and the worker's `/invoke` do: after a timeout or a
restart the job stays where it is and its `live` flag falls, that is, nobody takes its answer.
`write` adds a file to the writing run's `wrote` and to `changed` of every run under way, which is
what `_produced` sees by comparing snapshots; `Verdict` is the content assertion over it. `overlap`
lets clients call beside one another and upload; `slow` lets long tools outlive the timeout. `fail` is an
exception that `run_tool` does not catch (while it compares files, evaluates a malformed assert, or the answer
is turned into JSON): the core's own call ends in an error, a worker's in an HTTP 500, which the core reports as
`worker_starting`. `broken` are the calls to which that happens every time; for others it is a stray event,
bounded like the kills. Token errors, calls without a token, the asset preflight, aliases, tools answered in process, and the
delegate to external servers (`mcp_delegate.py`, whose 330-second timeout means the same) are left out.

### ComponentVault

Each transaction is one step, as `BEGIN IMMEDIATE` makes it; reading the version, looking for the
blob, each file operation of `write_blob` and the search for a duplicate are steps of their own.
A file is a number with the fact whether it is whole, so that a temporary file that was renamed
under its writer's hands stays the file that writer fills. `locked_out` is a transaction that did
not get the lock in time. Identities, aliases, curated facts, assets and completeness are left out.

### ReleaseEvidence

A manifest is the content of each artifact, a dependency has a version and a digest of which a
reference may leave one out. `begin_check` notes the design and the installed tools as they are;
`wrap_raw_verification_result` may come any time later, with any raw result, and makes a record or
none. `release` is a caller who picks records, approvals and an environment and passes
`check_release_preconditions`. Callers describe the environment truthfully, in full or in part, and
a record lists what its own run used; a record that lists another check's tool would satisfy that
check too, as the code looks for nothing else. `Forms` says which parts of a dependency references may name;
the run has those that name both.

### Occupancy, SheetRouting

Lengths are integers. `Occupancy` is the ledger as a set of rectangles and the questions asked of
it. In `SheetRouting` a page is placed parts and a net list; `mirror_rect` books what the placer
placed, in any order; then nets are taken in any order: `route_pair` draws two pins, `begin_chain`,
`hop` and `end_chain` a longer net, splitting it where no hop is accepted, and the rest is named by
`label_piece`, `place_label` and `place_port`. `GuardRoute` is a search: base route, jogs, detours,
first accepted. The code has a fixed order of tries, where the model takes any escape, any of
`Jogs` and any detour. The base routes along an outer corridor (`kicad_emit.py` 4104-4119) are not among
them; they pass the same guard. `place_label` pushes a pin's label out along the pin's edge as the code does:
by `Separation`, always, from a facing name of its column, and by `Avoidance`, on pages with `l6_avoidance`,
from texts, ports, labels and bodies. The page is at scale 1 and every name has one length. Only `finish` looks
at the whole sheet. The orthogonal engine, motifs, other pages, `power_ports=False`, wire styles, the staircase
of right-hand labels (DD-19), which is switched off, and text output are left out.

## 3. Runs

| Run | Expect | What it shows |
|---|---|---|
| `substate_machine` | pass | Chain, order, separation of roles and backing of the release, through refused calls and a resumption; the release is reached; implements `ReleasePipeline` |
| `verbs_stop` | violation | A caller who does what the documentation asks gets the receipt of S3 and is refused S4 |
| `blocker_hub` | pass | Repair orders are bounded, escalation sticks, one hub keeps its files |
| `blocker_hub_lost` | violation | The verb called twice leaves one file |
| `fleet_outbox` | pass | No false delivery, nothing stranded, dead letters recoverable, no lost wake-up, every submission settles; implements `FleetDelivery` |
| `cache` | pass | One request at a time, with a kill and a week of silence: uploads survive, clean is exported, one cache per subject; two threads: an upload is lost only by a request for its path or with its cache |
| `cache_race` | violation | An upload acknowledged during a close is removed without force |
| `spine` | pass | One verb at a time with a kill: the log is true, blocked packets are marked, every layer gets its work; implements `DesignFlow` |
| `routing` | pass | Answered calls are over everywhere, a client alone is told of its own files only, every call is answered unless a tool outlives the timeout or the call raises outside its tool each time |
| `vault` | pass | From any schema version, with overlapping calls and a kill: version and tables agree, rows have blobs, active chunks are by the last batch's extractors, all of them, an import repeated adds nothing |
| `release` | pass | A release rests on good runs of exactly what is released; the bundle gate is at least as strict as the gate over each approval |
| `sheet` | pass | In every order of nets: no two nets are joined while routing, and an emitted sheet keeps every net whole by wire or by name but for labels pushed off their pins |

### Bounds, and why they are enough

* `substate_machine`: all 14 stages; seven roles; every verdict that matters and ones that must
  be refused; one resumption (`MaxLoads`), which can come from a snapshot of any age; the
  theorems remove this bound.
* `verbs_stop`: every pair of claimed states; C03 claims S4 and S5; two receipts are enough to hold one
  and be refused the next.
* `blocker_hub*`: two issues, two identifiers, two hubs, four dispatches against limits up to
  two, hence one past the limit for one record.
* `fleet_outbox`: two drafts, two attempts (first and last), a socket of one datagram (so that
  the second poke is dropped), two kills anywhere and one requeue at any time. The safety theorems hold for
  all values.
* `cache`: two loads, each with every pair of paths for MOVE and COPY. One thread: five requests (provision, put, export, rename or put, close), two
  subjects, two paths, two tokens, one silence longer than the safety net, one kill. Two threads: four
  requests over one subject, so that any two overlap after a put was answered. The TTLs (40 and 60 time stamps)
  only have to be longer than any run without silence, as days are longer than requests.
* `cache_race`: the two threads over one path.
* `spine`: two sections stand for the PRD: one that gates C01 and C02, one that gates C03 and C05,
  both gate C06; C04 waits for packets. One packet by hand, two returns from two layers, one
  reopened section, one kill; one decision value.
* `routing`: two calls of one worker over one file, so that a job waits behind another and a run sees
  another's file; a third of the core's own; three jobs waiting, one kill of core or worker or one stray
  exception; a worker's call that may be malformed. Timeouts, retries and writes are not bounded. `MaxQueue` is where
  a third retry would come to wait. `OneTrouble` leaves out behaviours in which tools are slow and a call is
  malformed as well (neither changes along the way), only to keep the run short; the safety theorems have both.
* `vault`: two connections, four calls, three migrations, one document with two extractors, two values,
  one kill; `MaxFiles` is never in the way with four calls.
* `release`: two checks, one edit, one update (there is a way back neither to the old design nor the old
  tool; the theorem covers those), two runs, one approval; the library one check uses has the other's name.
* `sheet`: three pages of an IC, a part and a connector. `Crossed` has two pairs that cross, a chain of
  three and a ground pin, `Rail` a supply of four pins across the page with two pairs in its way and `l6_avoidance` on, `Facing` two
  columns of pins whose names run into each other, so that labels are pushed off. Two jogs, one on each side, one detour.

The `spine` run also checks `TypeOK`; the other type invariants are theorems and in no run. Deadlock is checked for
`substate_machine` only, where `to_dict` is always possible; in the others the bounds, or the end of the
work, rightly stop the system.

### Fairness

* `SubstateMachine`: `WF(Advance)`, the crew goes on asking for the next stage. Nothing is
  asked of snapshots. Liveness then says that the rules never lock the crew out.
* `FleetOutbox`: `WF(start(Server))` because compose restarts the sidecar
  (`src/deploy/dockerlab/docker-compose.yml:48`, `restart: unless-stopped`); a running adapter, a command and a committed
  submitter go on. Kills, requeues and the mother's answers owe nothing: attempts are bounded,
  so a mother that never answers still leads to the dead-letter box.
* `Spine`: `WF(Progress)`, somebody goes on as long as a verb can write, a tick can dispatch
  or the owner can answer, decide or provide sources. This is weaker than fairness of each.
  `EverythingAssigned` is stated for runs in which no verb is killed: see below for the torn file.
* `ToolRouting`: the core serves a call it has (`Serve`), a tool that runs comes to an end (`finish` or
  `fail`; which of them is not promised), a
  worker takes the next job (`invoke`) and is restarted (`boot_worker`; compose has `restart:
  unless-stopped`), a client told to retry does (`retry`). That the first of the waiting is served is
  the event loop's order. Requests, uploads, crashes and timeouts owe nothing.

## 4. Proofs

`Governance_proofs` is about three modules. Of `SubstateMachine` it proves, for every set of calls and number of resumptions, type
correctness, `NoGaps`, `MintOrder`, `ZeroSelfApproval`, `FabRelease`, `LedgerAppendOnly` and
that the machine implements `ReleasePipeline`. None of these is inductive alone. The
invariant is `Inv`: the live machine and the snapshot are both `Sound`, which says that a
machine holds receipts for exactly the stages entered, in minting order, each `Earned`: signed
by a role its stage allows, clean, cleared by its own gate where it is one, approved for P7,
and older than the next token. The snapshot must be included since it may come back. Lemma
`Enter` says once that an earned receipt for the next stage keeps a machine sound; `AdvanceC03`
and `AdvanceC04` show that the rules of `Governance` let in only earned receipts. Role
separation follows from `Earned` and `VerifierSignsGates`, a fact about the role table.

`FleetOutbox_proofs` proves `TypeOK`, `NoFalseDelivery` (from `Backed`: an adapter that is about to
write "delivered" holds a draft the mother has) and `NoLostWakeup` (from `Covered`: a pending
draft is in somebody's future) for any number of adapters, drafts, kills and requeues. `NothingStranded`,
`DeliveredIsFinal`, `DeadLetterRecoverable` and `ImplementsDelivery` need one adapter (`Oneshots = {}`):
then `Owned` and `InFlight` say that a row is in flight just when the server has it in its hands or
in its queue, or is not running. `DeadLetterRecoverable` adds `Buried`, which says that a letter moved to `dead-letter/`
whose row is about to be marked is there still, or a command has it, or had it and is in `skipped`. Nothing is assumed
of the operator.

Of `SubstateVerbs` it proves `FailClosed`, for any calls and claims: no receipt for S4, S5, P4 or P7 is ever returned.
The verbs keep nothing, so it is inductive; the work is in what the rules of `Governance` say of a machine without receipts.

Of `BlockerHub` it proves the hub's types (`HubTypeOK`), `RetryBound`, `FilesFollowMemory`, `EscalationSticks`. `RetryBound` is not
inductive: `Unused` says a hub has not used the number it writes next, `Counted` ties a record's retries to the
orders handed out, and an escalated record is past its limit, which is why it never goes back.

`ReleaseEvidence_proofs`: `TypeOK`, `ReleaseIsBacked`, `GatesAgree`, and `BundleIsStricter` for the two gates over
any design, records and environment. The invariant adds `RecordsAreTrue`: a good verdict belongs to a run that ended
well on the same design, and the record's references are true of what that run used. The gate then need only find the
check's tool among them and in the environment. That a check's tool is used by no other check is an assumption.

`ComponentVault_proofs`: `TypeOK` and the four properties of the run, each by an invariant of its own: `SeenIsPast` (a version
once read is not ahead), `FilesDiffer`, `RecordsFollowBlobs` and `WriterOwnsTemp` (alone, the writer fills the file that will be renamed),
`InsertsAreNew` (alone, what is being inserted is not there), `IsChunk` (chunks keep their form).
`ActiveIsByTheLast` is about extractors, not batches: see the observation below.

`ToolRouting_proofs`: `TypeOK`, `AnsweredIsSettled` and `ReadyIsOwn`, for any calls, workers, timeouts, exceptions and kills. A call
may leave several jobs at its worker; the invariant is that only the last can be live (`LastIsLive`), that live jobs belong
to calls the core waits for (`LiveIsForwarded`), and that calls are where their route sends them. It needs the worker's
order. `ReadyIsOwn` adds `Owned`: a call nobody asked yet has left nothing anywhere, at most one call is under way when
clients do not overlap, hence (`OneRun`) at most one run works, and what changed under that run it wrote itself.

`Spine_proofs`: `TypeOK` for any number of verbs at once; `LogIsTrue`, `BlockedIsMarked` and `ImplementsFlow` under the
hypothesis `OneVerb`, that verbs run one at a time. The code takes no lock around a verb, and two of them that count the
same files take the same number; one owner driving one agent is how the product is used and what the `spine` run has. Kills between
any two writes are included. The invariant `Inv` says that files are numbered without gaps (`FilesSound`), that log
entries are about files that say the same or were torn (`LogSound`), that a blocker's packet is marked or its verb is about to
mark it and that each layer handed its work has a packet saying so (`FlowSound`), and, step by step, what a running verb may
still rely on of what it read when it started (`CallsSound`). The refinement maps an open of a return to `Raise`, filling a
packet to `Drive` or `Hand`, filling an ingested return to `Decide`, and every other step to a stutter. `SpineAssumption`
says that C00 gates a layer or has it wait for upstream layers, not both (`c00_orchestration.py:42`), and that no
decision is empty (`orchestration.py:487`).

`OverlapLosesNoFile` is what is left without `OneVerb`: for any number of verbs at once, files are numbered without gaps, what the
log or a return names is there, and the loop has not driven C04 before C01 and C03 had their work. Its invariant `Shared` keeps of
what a verb has read only what others cannot take away: a file that is there stays, and a layer handed its work stays handed.
TLC found no violation in the first five million states of two agents over one folder (no slips), which is not all of them; no run
repeats that.

`SheetRouting_proofs`: `RoutedApart` and `WholeButForStrays`, for any placed page, any order of nets and any jogs and detours.
The first rests on a fact about every route that can be
found: it is a polyline of horizontal and vertical pieces from pin to pin (`FoundRuns`). The guard keeps its corners off
foreign pins and its segments a grid away from them, so it covers none (`GuardClearsPins`), and lets no segment end on
another net's end, not even where a junction is excused (`GuardKeepsApart`). The invariant
`Separate` then says that wires of two nets never weld, that no wire is over another net's pin, and that dots are on their own net's
pins: hence a dot is safe from every wire of others, drawn before it or after. `Chained` says what a chain under way
consists of. `SheetAssumption` says that a pin sticks out of one of four edges (`kicad_emit.py:1440`) and that no two nets have a
pin in one place: bodies are kept apart by the placer, and pins a symbol stacks carry one signal. The code does not check
the second, and a page that breaks it is shorted before anything is routed.

`WholeButForStrays` asks what wires reach in any number of steps. The proof replaces it by `Joined`, which is no induction: two
places hang together when no set that wires do not leave has one without the other. A route joins its ends
(`RouteJoins`), a label's seat lies on its wire (`SeatOnWire`), and what is joined or marked stays so, since nothing drawn is
erased and an end is dropped only with its name on the sheet (`MarkedStays`). The invariant `NetsHold` says that a net that has been
taken is joined, or each of its pins waits for its name, has it, or hangs on a wire that bears it; and that the pieces of a split chain
hang together each on their first wire, where the label will sit. `ReachedIsClosed` leads back: every step of `Reached` puts one
more wire inside or adds nothing, so after as many steps as there are wires the set is closed. That the recursive function of
`Reached` exists is `StepByStep`; both go by sets of numbers (`Counting`), as the library's induction cannot be instantiated here.

`DeliverableCache_proofs`: `TypeOK` and the four properties of the `cache` run, for any threads, caches, subjects, paths and loads.
`UploadsAccountedFor` needs `WritesAccounted`: the version of a PUT on its way to its answer is already somewhere. MOVE and COPY may name
any two paths, also one path twice. `UploadsSurviveAlone`,
`CleanIsExported` and `OneCachePerSubject` rest on `AloneInv`, what holds between two steps when there is one thread. The caches
are `Still`: one per subject; clean files exported; nothing in a directory that is gone or has no sidecar; the last use of a cache
is borne by its sidecar or by its directory's mtime, which is why the reaper, which looks at both, is never early; what was removed is
exported or given up. And the request is `AtWork`: at each step the cache is what the request found it to be (`Alive`, `Ready`,
`Copied`, `Empty`, `Searched`). That footing is what a second thread takes away, which `cache_race` shows.

Assumptions are those of the `ASSUME`s of the modules: bounds are naturals, calls are calls, the server is not one of
the one-shot runs, each check has one tool or rule.

Only model-checked: all liveness (`EventuallyReleased`, `EverySubmissionSettles`, `EverythingAssigned`,
`SoundCallsAreAnswered`), which with fairness and `ENABLED` is out of the prover's reach. Every invariant and every action
property of the passing runs is a theorem.

## 5. Findings and observations

Three disagreements between the code and what it says of itself are runs that must fail
(`verbs_stop`, `blocker_hub_lost`, `cache_race`); their text is in `PROJECT.json`. Seen while modelling, and not runs of their own:

Governance and hub

* The landing verbs never verify or lock a schematic, allow routing or release (`verbs_stop`, `FailClosed`): each call
  builds a machine without receipts (`gate.py:1055`, `1070`), and the C03 verb takes no verdicts.
* Re-affirming a stage with another artifact returns the old receipt with the old digest
  (`substate_machine.py:346`).
* `blocker_record` always answers from a hub with an empty memory; `dispatch_repair` and
  `resolve_blocker` of a recorded blocker are out of reach of the verbs.

Fleet outbox

* An operator who requeues between the move to `dead-letter/` and the row's update, or without `FLEET_DRAFTS_DB`,
  leaves a row that is dead while its file is back in the outbox, or, with a kill of the adapter in between, nowhere: another
  requeue then says "not in dead-letter" (`fleet-outbox-reconcile.py:89-103`; its head, lines 7-8, promises a row marked
  `pending`). `DeadLetterRecoverable` says that this is the only way.
* Attempts are counted per push, so a kill starts the count anew (`fleet-outbox-adapter.py:244`). A submitter killed
  between its commit and its wake leaves a row that waits for the next wake (`feedback_drafts.py:186`).
* Beside the server, a `--once` run of the adapter takes up what the server has in flight
  (`fleet-outbox-adapter.py:201`), and the later of the two decides the row: a delivered draft can
  end as `dead_letter`.

Caches

* A kill in the middle of writing a sidecar leaves a file on which `reap_safety_net` raises
  (`token_store.py:143`): until somebody removes it no session of any owner can be started.
* With two threads, `provision_cache` can mint two caches for one subject (`token_store.py:273`),
  and an upload during an export can be stamped clean without having been copied (`server.py:1043`).
* COPY or MOVE of a path onto itself clears the destination first and so destroys an upload that was answered 201;
  the request then fails for want of its source (`token_store.py:371`, `386`). MOVE keeps the mtime: after an export a renamed file counts as
  clean at a path that was never exported.

Spine

* Two ticks that overlap dispatch a layer twice (`c00_orchestration.py:218`), where
  `c00_orchestration_loop.md:93-94` has one packet per layer.
* `_next_question` (`c00_prd_template.py:786`) never is empty, so the tick's `waiting` branch cannot be
  reached, and with only drafted sections the tick asks the text "All C00 fields are complete
  enough for the current rubric."
* A packet or blocker file truncated by a kill makes every tick raise; a packet stays `blocked`
  after its blocker was decided; dispatch by hand is not gated; `enter_c01_mode` writes the packet
  before the package, and the tick never returns to a layer that has a packet.
* Two verbs that overlap may take the same number (`orchestration.py:246`), and the later one
  overwrites the other's packet, blocker or evidence; the log keeps both.

Tool dispatch

* Any exception of the forward, the 180-second read timeout included, is reported as `worker_starting`
  (`server.py:1879`), while the worker runs the call; the docstring (1872-1874) and `toolchain_workers.md:68-69` speak
  of a worker that is not up. A tool that takes longer is executed again by every retry and, if it always does, is
  never answered; other calls of the group queue behind, and `/healthz` does not answer meanwhile.
* A call that raises outside `run_tool`'s inner `try` (`server.py:2269`, `2283`, or `2289` on a malformed assert), or whose
  result JSON cannot hold (3400), makes a worker answer 500. `_forward_to_worker` takes that for a worker that starts
  (1880-1887) and asks for a retry, so a call that fails so each time is retried for ever, where the same call of a core
  tool ends in an error. `SoundCallsAreAnswered` leaves both kinds of calls out.
* Files are credited to a call by comparing snapshots of the workspace, so calls and uploads that overlap are
  credited with each other's files (`server.py:2269`).

Component vault

* Of two first openers the second fails on tables that exist (`storage.py:502`); it does no harm.
* Two overlapping ingests of one document share the temporary name (`storage.py:583`); with a kill between, a partial
  blob may stay for good at its final path, where 568-569 promise a write that is whole or absent.
* `ingest_chunks` marks stale the active chunks of other extractors only (`repository.py:469-485`), so after a second batch by
  the same extractor its earlier chunks are found beside the new ones.
* `vault_ingest` is several transactions: a retry after one failed adds the same chunks again. Two imports
  at once write a value twice. `upgrade_eda_asset` (`repository.py`, about 1062-1105) reads the rung outside its transaction,
  so a stale upgrade can lower it; `add_alias` looks for conflicts outside its own.

Sheet routing

* A port's stub, and the wire to its flag, are drawn after routing over whatever lies there (`kicad_emit.py:2481`, comment
  2412-2413) and are not in the registry the final assertion looks at; `RoutedApart` ends where ports begin.
* `_reserve_wire` books without the exemption for crossings, so a wire that crosses another is drawn but not booked,
  against its docstring (1886-1888). `_place_local_label`'s last resort is a seat it has refused before (docstring 4388-4398).
  Pieces of a net that goes on to another page get no label (2325).
* A label that is pushed off its pin (`kicad_emit.py:3408-3410`, `3415-3421`) has no wire back to it, so the pin is cut off from
  its net. The comment at 2974-2980 knows of it; the one at 3353 still speaks of a stub jog that keeps the electrical
  endpoint. `WholeButForStrays` says that nothing else cuts a pin off.
* DD-20 pushes two facing labels of a column along their own edges (3278-3299), and those edges
  point at each other: names that run into each other are pushed towards each other, where the comment (3255-3260) has
  them separate.
* Labels of pins are drawn also where the ledger refuses their box (`occupancy.py:395`), so two may lie on each other. The
  composer's gate (`composer.py:2694-2703`) looks for overlaps in the ledger, which holds none, and finds nothing.

## 6. Not modelled, and why

Document generators, importers, the composer's placement and the emitters' text compute over documents and
floating-point geometry in one call; there is no order of events for TLC to explore, and the checks that matter are
numerical. Data classes have no behaviour. Analysis engines under `skills/` are vendored scripts over one input, and are
by far most of the repository's lines. Shell scripts wrap docker, whose behaviour no source here describes. The CAD
job registry has states but no executor in this repository. Change proposals, interference records, baselines,
human-presentation ingest and operation outcomes of the rebuild contracts are records checked on construction. WebDAV
locks never refuse their owner, and a cache has one owner. Credentials are read once per process, and the deployment runs one.

## 7. Plan

Done, in this order because governance is what the product promises and the rest is where data can be
lost: 1 `Governance`, `SubstateMachine`, `ReleasePipeline`, `SubstateVerbs` with proofs; 2 `BlockerHub`; 3 `FleetOutbox`,
`FleetDelivery` with proofs; 4 `DeliverableCache`; 5 `Spine`, `DesignFlow`; 6 `Occupancy`, `SheetRouting`; 7 `ReleaseEvidence`
with proofs; 8 `ComponentVault` with proofs; 9 `ToolRouting` with proofs; 10 proofs of `SubstateVerbs`, `BlockerHub` and
`DeliverableCache`; 11 proofs of `Spine`, `SheetRouting` and the rest of `ToolRouting`;
12 `WholeButForStrays`, and `Spine` with verbs that overlap.

What would come next:

* ports and flags of `SheetRouting` as a question of their own, and the other page of a net;
* `CredentialStore` with two processes over one file, should the deployment ever run two; the CAD job registry once
  something executes jobs;
* theorems: what `RoutedApart` leaves of a sheet once ports are drawn, which needs the placer's distances.
