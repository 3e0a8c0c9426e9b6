--------------------------- MODULE ReleaseEvidence ---------------------------
(***************************************************************************)
(* The release contracts of the collaborative rebuild                      *)
(* (rebuild_contracts.py and rebuild_compat.py of workflow-core): checks   *)
(* run on a design while it is edited and its tools are updated, raw       *)
(* results become verification records, people approve, and the bundle     *)
(* gate decides on a release.                                              *)
(*                                                                         *)
(* A manifest is the content of every artifact, so equal digests are equal *)
(* manifests.  A dependency is a kind and a name; its identity is a        *)
(* version and a digest, of which a reference may leave one out.  A caller *)
(* of a gate picks the records and approvals to hand in and reports the    *)
(* environment truly, in full or in part; a record lists what its run      *)
(* used, the tool of no other check among it.                              *)
(***************************************************************************)
EXTENDS Naturals, FiniteSets

CONSTANTS
    Artifacts, Contents,    \* a manifest maps the first to the second
    Dependencies,           \* [kind, name] of what may be installed
    Versions, Digests,      \* identities of an installed dependency
    Checks,                 \* check ids, each the name of a tool or a rule
    Uses,                   \* what the run of a check uses: its own tool or rule, libraries, sources
    Policies,               \* sets of checks a policy may require; {} is no policy
    Forms,                  \* what a reference of a record names: members of Form
    None,
    MaxEdits, MaxUpdates, MaxRuns, MaxApprovals   \* bounds

CHECK_IDENTITY_KINDS == {"tool", "rule"}
Manifest == [Artifacts -> Contents]
Identity == [version : Versions, digest : Digests]
DependencyRef ==
    {r \in [dep : Dependencies, version : Versions \cup {None}, digest : Digests \cup {None}] :
        r.version # None \/ r.digest # None}
Checker(c) == {d \in Dependencies : d.kind \in CHECK_IDENTITY_KINDS /\ d.name = c}

Form == {"both", "version", "digest"}

ASSUME EvidenceAssumption ==
    /\ Dependencies \subseteq [kind : {"source", "library", "tool", "rule"}, name : Checks]
    /\ \A c \in Checks : \E d \in Dependencies : Checker(c) = {d}
    /\ Uses \in [Checks -> SUBSET Dependencies]
    /\ \A b, c \in Checks : Uses[b] \cap Checker(c) = (IF b = c THEN Checker(c) ELSE {})
    /\ Policies \subseteq SUBSET Checks
    /\ Forms \subseteq Form
    /\ None \notin Versions \cup Digests
    /\ MaxEdits \in Nat /\ MaxUpdates \in Nat /\ MaxRuns \in Nat /\ MaxApprovals \in Nat

\* a raw result, its status read through the tool's map; whether its coverage is complete and
\* whether there is evidence that the check does not apply is the caller's to say
RawResult == [status : {"succeeded", "failed", "not-run", "empty", "indeterminate", "unrecognized"},
              blocking : BOOLEAN, complete : BOOLEAN, applicable : BOOLEAN]
Verdict == {"pass", "fail", "indeterminate", "not-applicable"}
Run == UNION {[check : {c}, subject : Manifest, used : [Uses[c] -> Identity]] : c \in Checks}
VerificationRecord == [subject : Manifest, deps : SUBSET DependencyRef, verdict : Verdict]
ReleaseApproval == [manifest : Manifest, decision : {"approved", "rejected"}, checks : SUBSET Checks]

VARIABLES
    source,     \* the manifest of the design as it is
    installed,  \* the identity of every dependency as it is
    running,    \* checks in progress
    records,    \* verification records
    approvals,  \* release approvals people issued
    answered,   \* history: runs that ended with a good answer
    released,   \* history: releases granted
    edits, updates, runs

vars == <<source, installed, running, records, approvals, answered, released,
          edits, updates, runs>>

Init ==
    /\ source \in Manifest
    /\ installed \in [Dependencies -> Identity]
    /\ running = {} /\ records = {} /\ approvals = {}
    /\ answered = {} /\ released = {}
    /\ edits = 0 /\ updates = 0 /\ runs = 0

----------------------------------------------------------------------------
(* The world: designers edit, tools are updated or rolled back *)

edit ==
    /\ edits < MaxEdits
    /\ \E m \in Manifest \ {source} : source' = m
    /\ edits' = edits + 1
    /\ UNCHANGED <<installed, running, records, approvals, answered, released, updates, runs>>

update ==
    /\ updates < MaxUpdates
    /\ \E d \in Dependencies, i \in Identity :
          /\ i # installed[d]
          /\ installed' = [installed EXCEPT ![d] = i]
    /\ updates' = updates + 1
    /\ UNCHANGED <<source, running, records, approvals, answered, released, edits, runs>>

----------------------------------------------------------------------------
(* Records *)

\* a reference to a dependency that tells the truth about its identity
RefTo(d, i, form) == [dep |-> d, version |-> IF form = "digest" THEN None ELSE i.version,
                      digest |-> IF form = "version" THEN None ELSE i.digest]

\* what the record of a run may list: any of what it used
DepsOf(run) ==
    UNION {{{RefTo(d, run.used[d], form) : d \in D} : D \in SUBSET Uses[run.check]} : form \in Forms}

begin_check(c) ==
    /\ runs < MaxRuns
    /\ runs' = runs + 1
    /\ running' = running \cup {[check |-> c, subject |-> source,
                                used |-> [d \in Uses[c] |-> installed[d]]]}
    /\ UNCHANGED <<source, installed, records, approvals, answered, released, edits, updates>>

Inconclusive(raw) ==
    \/ raw.status \in {"not-run", "indeterminate", "unrecognized"}
    \/ raw.status = "empty" /\ ~ raw.applicable

\* None: refused; a strict caller gets no record for a success that may not count as a pass,
\* nor for a tool whose statuses nobody registered
Verdicts(raw, listed, fresh) ==
    (IF raw.status = "unrecognized" THEN {None} ELSE {})
    \cup IF raw.blocking \/ raw.status = "failed" THEN {"fail"}
         ELSE IF Inconclusive(raw) THEN {"indeterminate"}
         ELSE IF raw.status = "empty" THEN {"not-applicable"}
         ELSE IF raw.complete /\ listed /\ fresh THEN {"pass"} ELSE {"indeterminate", None}

\* a run answers for its check when it succeeded on everything without a blocking finding,
\* or when there is evidence that nothing applies
Answers(raw) ==
    /\ ~ raw.blocking
    /\ (raw.status = "succeeded" /\ raw.complete) \/ (raw.status = "empty" /\ raw.applicable)

\* listed: whether the record lists any dependency
Outcomes == [listed \in BOOLEAN |->
    {out \in [answers : BOOLEAN, verdict : Verdict \cup {None}] :
        \E raw \in RawResult, fresh \in BOOLEAN :
            out.answers = Answers(raw) /\ out.verdict \in Verdicts(raw, listed, fresh)}]

wrap_raw_verification_result(run) ==
    /\ run \in running
    /\ running' = running \ {run}
    /\ \E deps \in DepsOf(run) : \E out \in Outcomes[deps # {}] :
          /\ answered' = IF out.answers THEN answered \cup {run} ELSE answered
          /\ records' = IF out.verdict = None THEN records
                        ELSE records \cup {[subject |-> run.subject, deps |-> deps, verdict |-> out.verdict]}
    /\ UNCHANGED <<source, installed, approvals, released, edits, updates, runs>>

\* a person approves or rejects the design as it is, naming the checks it rests on
approve ==
    /\ Cardinality(approvals) < MaxApprovals
    /\ \E decision \in {"approved", "rejected"}, checks \in SUBSET Checks :
          approvals' = approvals \cup {[manifest |-> source, decision |-> decision, checks |-> checks]}
    /\ UNCHANGED <<source, installed, running, records, answered, released, edits, updates, runs>>

----------------------------------------------------------------------------
(* Freshness *)

Ambiguous(refs) == \E a, b \in refs : a.dep = b.dep /\ a # b
Differs(a, b) == a # None /\ b # None /\ a # b
Overtaken(r, cur) ==
    \/ Differs(r.version, cur.version)
    \/ (r.version = None \/ cur.version = r.version) /\ Differs(r.digest, cur.digest)

Binds(r, cur) ==
    /\ r.dep = cur.dep
    /\ r.version # None => cur.version = r.version
    /\ r.digest # None => cur.digest = r.digest

\* no environment, like an untyped one, is the empty one: it binds nothing
evaluate_freshness(env, deps) ==
    IF deps = {} \/ Ambiguous(env) \/ Ambiguous(deps) THEN "unknown"
    ELSE IF \A r \in deps : \E cur \in env : Binds(r, cur) THEN "current"
    ELSE IF \E r \in deps, cur \in env : r.dep = cur.dep /\ Overtaken(r, cur) THEN "stale"
    ELSE "unknown"

----------------------------------------------------------------------------
(* The two release gates *)

IndexedBy(c, recs) == {r \in recs : \E ref \in r.deps : ref.dep \in Checker(c)}

MutantSupports(r, target, env) ==
    /\ evaluate_freshness(env, r.deps) = "current"
    /\ r.verdict \in {"pass", "not-applicable"}

Supports(r, target, env) ==
    /\ r.subject = target
    /\ evaluate_freshness(env, r.deps) = "current"
    /\ r.verdict \in {"pass", "not-applicable"}

\* an approval may add checks to the policy, never take any away
Required(policy, app) == policy \cup app.checks
PolicyHolds(policy, app) == policy # {} /\ policy \subseteq app.checks

evaluate_release_eligibility(app, target, recs, env, policy) ==
    /\ app.decision = "approved" /\ app.manifest = target
    /\ PolicyHolds(policy, app)
    /\ \A c \in Required(policy, app) :
          IndexedBy(c, recs) # {} /\ \A r \in IndexedBy(c, recs) : Supports(r, target, env)

MutantBundle(target, apps, recs, env, policy) ==
    /\ apps # {}
    /\ \A app \in apps : app.decision = "approved" /\ app.manifest = target /\ PolicyHolds(policy, app)
    /\ \A c \in policy : IndexedBy(c, recs) # {}
    /\ \A r \in recs : Supports(r, target, env)

check_release_preconditions(target, apps, recs, env, policy) ==
    /\ apps # {}
    /\ \A app \in apps : app.decision = "approved" /\ app.manifest = target /\ PolicyHolds(policy, app)
    /\ \A app \in apps : \A c \in Required(policy, app) : IndexedBy(c, recs) # {}
    /\ \A r \in recs : Supports(r, target, env)

\* true reports of what is installed: one reference each, or none, or a second one of an earlier identity
Environments ==
    LET Full == {RefTo(d, installed[d], "both") : d \in Dependencies}
    IN  {Full}
        \cup {Full \ {r} : r \in Full}
        \cup {(Full \ {r}) \cup {[r EXCEPT !.digest = None]} : r \in Full}
        \cup UNION {{Full \cup {[r EXCEPT !.version = v]} : r \in Full} : v \in Versions}

release ==
    /\ released = {}
    /\ \E apps \in SUBSET approvals, recs \in SUBSET records, env \in Environments, policy \in Policies :
          /\ check_release_preconditions(source, apps, recs, env, policy)
          /\ released' = released \cup {[manifest |-> source, installed |-> installed, policy |-> policy]}
    /\ UNCHANGED <<source, installed, running, records, approvals, answered, edits, updates, runs>>

----------------------------------------------------------------------------
Next ==
    \/ edit \/ update \/ approve \/ release
    \/ \E c \in Checks : begin_check(c)
    \/ \E run \in running : wrap_raw_verification_result(run)

Spec == Init /\ [][Next]_vars

----------------------------------------------------------------------------
(* Properties *)

(* Runs, records and approvals have the shape the contracts give them.     *)
TypeOK ==
    /\ source \in Manifest /\ installed \in [Dependencies -> Identity]
    /\ running \subseteq Run
    /\ records \subseteq VerificationRecord /\ approvals \subseteq ReleaseApproval
    /\ answered \subseteq Run
    /\ released \subseteq [manifest : Manifest, installed : [Dependencies -> Identity], policy : Policies]
    /\ edits \in 0..MaxEdits /\ updates \in 0..MaxUpdates /\ runs \in 0..MaxRuns

(* A release rests on what really happened: a person approved exactly the  *)
(* design released, naming every check of the policy, and each of these    *)
(* checks ran on exactly that design, with the tool in the version or the  *)
(* build that is installed at the release, and ended well.                 *)
Installed(run, rel) ==
    \E d \in Checker(run.check) : \/ run.used[d].version = rel.installed[d].version
                                  \/ run.used[d].digest = rel.installed[d].digest
ReleaseIsBacked ==
    \A rel \in released :
        /\ \E app \in approvals : app.decision = "approved" /\ app.manifest = rel.manifest
                                   /\ rel.policy # {} /\ rel.policy \subseteq app.checks
        /\ \A c \in rel.policy : \E run \in answered :
              run.check = c /\ run.subject = rel.manifest /\ Installed(run, rel)

(* The two gates agree: what the gate over a bundle of approvals lets      *)
(* through, the gate over a single approval does for each of them.         *)
GatesAgree ==
    \A apps \in SUBSET approvals \ {{}}, recs \in SUBSET records, env \in Environments, policy \in Policies :
        check_release_preconditions(source, apps, recs, env, policy) =>
            \A app \in apps : evaluate_release_eligibility(app, source, recs, env, policy)

=============================================================================
