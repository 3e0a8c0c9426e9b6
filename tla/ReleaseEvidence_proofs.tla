----------------------- MODULE ReleaseEvidence_proofs ------------------------
(***************************************************************************)
(* Proofs about ReleaseEvidence for every design, set of checks, policy    *)
(* and environment.  A release is backed because no record says more than  *)
(* its run: a good verdict belongs to a run that ended well, on the same   *)
(* design, and refers truly to dependencies that run used.  The gate then  *)
(* only has to find the tool of a check among them, still installed.       *)
(***************************************************************************)
EXTENDS ReleaseEvidence, TLAPS

Good == {"pass", "not-applicable"}

RecordsAreTrue ==
    \A r \in records : r.verdict \in Good =>
        \E run \in answered : r.subject = run.subject /\ r.deps \in DepsOf(run)

IInv == TypeOK /\ RecordsAreTrue /\ ReleaseIsBacked

----------------------------------------------------------------------------
(* Operators *)

(* The gate over a bundle of approvals is at least as strict as the gate   *)
(* over one of them, for any design, records and environment: no bundle    *)
(* passes whose parts would not.                                           *)
THEOREM BundleIsStricter ==
    ASSUME NEW target, NEW apps, NEW recs, NEW env, NEW policy,
           check_release_preconditions(target, apps, recs, env, policy)
    PROVE  \A app \in apps : evaluate_release_eligibility(app, target, recs, env, policy)
BY DEF check_release_preconditions, evaluate_release_eligibility, IndexedBy

(* A verdict that counts comes only from a result that answers.            *)
LEMMA GoodVerdictsAnswer ==
    ASSUME NEW listed \in BOOLEAN, NEW out \in Outcomes[listed], out.verdict # None, out.verdict \in Good
    PROVE  out.answers
<1>2. PICK raw \in RawResult, fresh \in BOOLEAN :
          out.answers = Answers(raw) /\ out.verdict \in Verdicts(raw, listed, fresh)
  BY DEF Outcomes
<1>3. CASE raw.blocking \/ raw.status = "failed"
  BY <1>2, <1>3 DEF Verdicts, Good
<1>4. CASE ~ (raw.blocking \/ raw.status = "failed") /\ Inconclusive(raw)
  BY <1>2, <1>4 DEF Verdicts, Good
<1>5. CASE ~ (raw.blocking \/ raw.status = "failed") /\ ~ Inconclusive(raw)
  <2>1. raw.status \in {"succeeded", "empty"}
    BY <1>5 DEF RawResult, Inconclusive
  <2>2. CASE raw.status = "empty"
    BY <1>2, <1>5, <2>2 DEF Answers, Inconclusive
  <2>3. CASE raw.status = "succeeded"
    BY <1>2, <1>5, <2>3 DEF Verdicts, Good, Answers
  <2>4. QED
    BY <2>1, <2>2, <2>3
<1>6. QED
  BY <1>3, <1>4, <1>5

(* An outcome is a verdict or a refusal.                                   *)
LEMMA OutcomesAreVerdicts ==
    ASSUME NEW listed \in BOOLEAN, NEW out \in Outcomes[listed]
    PROVE  out.verdict \in Verdict \cup {None}
BY DEF Outcomes

(* A reference names a version or a digest.                                *)
LEMMA ReferencesAreBound ==
    ASSUME NEW d, NEW i \in Identity, NEW form \in Forms, NEW r, r = RefTo(d, i, form)
    PROVE  d \in Dependencies => r \in DependencyRef
<1>1. form \in {"both", "version", "digest"}
  BY EvidenceAssumption DEF Form
<1>2. i.version \in Versions /\ i.digest \in Digests /\ i.version # None /\ i.digest # None
  BY EvidenceAssumption DEF Identity
<1>3. QED
  BY <1>1, <1>2 DEF RefTo, DependencyRef

(* What a record lists, its run used.                                      *)
LEMMA ListedIsUsed ==
    ASSUME NEW run, NEW deps \in DepsOf(run), NEW ref \in deps
    PROVE  \E d \in Uses[run.check], form \in Forms : ref = RefTo(d, run.used[d], form)
BY DEF DepsOf

(* A check is the only user of its tool.                                   *)
LEMMA OnlyItsOwnTool ==
    ASSUME NEW b \in Checks, NEW c \in Checks, NEW d \in Uses[b] \cap Checker(c)
    PROVE  b = c
BY EvidenceAssumption

(* An environment that is not ambiguous holds the installed version of     *)
(* what it names, and the installed digest or none.                        *)
LEMMA EnvironmentsAreTrue ==
    ASSUME installed \in [Dependencies -> Identity],
           NEW env \in Environments, ~ Ambiguous(env), NEW cur \in env
    PROVE  /\ cur.dep \in Dependencies
           /\ cur.version = installed[cur.dep].version
           /\ cur.digest \in {installed[cur.dep].digest, None}
<1> DEFINE Full == {RefTo(d, installed[d], "both") : d \in Dependencies}
           True(r) == /\ r.dep \in Dependencies
                      /\ r.version = installed[r.dep].version
                      /\ r.digest \in {installed[r.dep].digest, None}
<1>1. \A r \in Full : /\ r.dep \in Dependencies
                      /\ r = [dep |-> r.dep, version |-> installed[r.dep].version, digest |-> installed[r.dep].digest]
  BY DEF RefTo
<1>2. \A r \in Full : True(r) /\ True([r EXCEPT !.digest = None])
  BY <1>1
<1>3. CASE env = Full
  BY <1>2, <1>3
<1>4. CASE env \in {Full \ {r} : r \in Full}
  BY <1>2, <1>4
<1>5. CASE env \in {(Full \ {r}) \cup {[r EXCEPT !.digest = None]} : r \in Full}
  <2>1. PICK r \in Full : env = (Full \ {r}) \cup {[r EXCEPT !.digest = None]}
    BY <1>5
  <2>2. cur \in Full \/ cur = [r EXCEPT !.digest = None]
    BY <2>1
  <2>3. QED
    BY <1>2, <2>2
<1>6. CASE env \in UNION {{Full \cup {[r EXCEPT !.version = v]} : r \in Full} : v \in Versions}
  <2>1. PICK v \in Versions, r \in Full : env = Full \cup {[r EXCEPT !.version = v]}
    BY <1>6
  <2>2. CASE cur \in Full
    BY <1>2, <2>2
  <2>3. CASE cur = [r EXCEPT !.version = v]
    <3>1. r \in env /\ cur.dep = r.dep
      BY <1>1, <2>1, <2>3
    <3>2. cur = r
      BY <3>1 DEF Ambiguous
    <3>3. QED
      BY <1>2, <3>2
  <2>4. QED
    BY <2>1, <2>2, <2>3
<1>7. QED
  BY <1>3, <1>4, <1>5, <1>6 DEF Environments

----------------------------------------------------------------------------
(* Invariance *)

LEMMA InitEstablishes == Init => IInv
BY EvidenceAssumption DEF Init, IInv, TypeOK, RecordsAreTrue, ReleaseIsBacked, Manifest, Identity

(* Type correctness is inductive by itself.                                *)
LEMMA TypesKept == TypeOK /\ [Next]_vars => TypeOK'
<1> SUFFICES ASSUME TypeOK, [Next]_vars PROVE TypeOK'
  OBVIOUS
<1> USE EvidenceAssumption
<1>1. CASE edit
  BY <1>1 DEF edit, TypeOK
<1>2. CASE update
  BY <1>2 DEF update, TypeOK
<1>3. CASE approve
  <2>1. PICK decision \in {"approved", "rejected"}, checks \in SUBSET Checks :
            approvals' = approvals \cup {[manifest |-> source, decision |-> decision, checks |-> checks]}
    BY <1>3 DEF approve
  <2>2. approvals' \subseteq ReleaseApproval
    BY <2>1 DEF TypeOK, ReleaseApproval
  <2>3. QED
    BY <1>3, <2>2 DEF approve, TypeOK
<1>4. CASE release
  <2>1. PICK policy \in Policies :
            released' = released \cup {[manifest |-> source, installed |-> installed, policy |-> policy]}
    BY <1>4 DEF release
  <2>2. QED
    BY <1>4, <2>1 DEF release, TypeOK
<1>5. ASSUME NEW c \in Checks, begin_check(c) PROVE TypeOK'
  <2>1. [check |-> c, subject |-> source, used |-> [d \in Uses[c] |-> installed[d]]] \in Run
    BY DEF TypeOK, Run
  <2>2. running' \subseteq Run
    BY <1>5, <2>1 DEF begin_check, TypeOK
  <2>3. QED
    BY <1>5, <2>2 DEF begin_check, TypeOK
<1>6. ASSUME NEW run \in running, wrap_raw_verification_result(run) PROVE TypeOK'
  <2>1. run \in Run
    BY DEF TypeOK
  <2>2. PICK deps \in DepsOf(run) : \E out \in Outcomes[deps # {}] :
            /\ answered' = IF out.answers THEN answered \cup {run} ELSE answered
            /\ records' = IF out.verdict = None THEN records
                          ELSE records \cup {[subject |-> run.subject, deps |-> deps, verdict |-> out.verdict]}
    BY <1>6 DEF wrap_raw_verification_result
  <2>3. deps \subseteq DependencyRef
    <3>1. PICK c \in Checks : run.check = c /\ run.used \in [Uses[c] -> Identity]
      BY <2>1 DEF Run
    <3>2. Uses[c] \subseteq Dependencies
      BY DEF Form
    <3>3. ASSUME NEW ref \in deps PROVE ref \in DependencyRef
      <4>1. PICK d \in Uses[run.check], form \in Forms : ref = RefTo(d, run.used[d], form)
        BY <2>2, ListedIsUsed
      <4>2. d \in Dependencies /\ run.used[d] \in Identity
        BY <3>1, <3>2, <4>1
      <4>3. QED
        BY <4>1, <4>2, ReferencesAreBound
    <3>4. QED
      BY <3>3
  <2>4. PICK out \in Outcomes[deps # {}] :
            /\ answered' = IF out.answers THEN answered \cup {run} ELSE answered
            /\ records' = IF out.verdict = None THEN records
                          ELSE records \cup {[subject |-> run.subject, deps |-> deps, verdict |-> out.verdict]}
    BY <2>2
  <2>5. out.verdict \in Verdict \cup {None}
    <3> DEFINE listed == deps # {}
    <3>1. listed \in BOOLEAN /\ out \in Outcomes[listed]
      BY <2>4
    <3> HIDE DEF listed
    <3>2. QED
      BY <3>1, OutcomesAreVerdicts
  <2>6. run.subject \in Manifest
    BY <2>1 DEF Run
  <2>7. records' \subseteq VerificationRecord
    BY <2>3, <2>4, <2>5, <2>6 DEF TypeOK, VerificationRecord
  <2>8. answered' \subseteq Run /\ running' \subseteq Run
    BY <1>6, <2>1, <2>4 DEF TypeOK, wrap_raw_verification_result
  <2>9. QED
    BY <1>6, <2>7, <2>8 DEF TypeOK, wrap_raw_verification_result
<1>7. CASE UNCHANGED vars
  BY <1>7 DEF vars, TypeOK
<1>8. QED
  BY <1>1, <1>2, <1>3, <1>4, <1>5, <1>6, <1>7 DEF Next

(* Records stay as true as the results they were made of.                  *)
LEMMA RecordsKept == RecordsAreTrue /\ [Next]_vars => RecordsAreTrue'
<1> SUFFICES ASSUME RecordsAreTrue, [Next]_vars PROVE RecordsAreTrue'
  OBVIOUS
<1>1. ASSUME records' = records, answered' = answered PROVE RecordsAreTrue'
  BY <1>1 DEF RecordsAreTrue, DepsOf, RefTo
<1>2. ASSUME NEW run \in running, wrap_raw_verification_result(run) PROVE RecordsAreTrue'
  <2>0. PICK deps \in DepsOf(run) : \E out \in Outcomes[deps # {}] :
            /\ answered' = IF out.answers THEN answered \cup {run} ELSE answered
            /\ records' = IF out.verdict = None THEN records
                          ELSE records \cup {[subject |-> run.subject, deps |-> deps, verdict |-> out.verdict]}
    BY <1>2 DEF wrap_raw_verification_result
  <2>1. PICK out \in Outcomes[deps # {}] :
            /\ answered' = IF out.answers THEN answered \cup {run} ELSE answered
            /\ records' = IF out.verdict = None THEN records
                          ELSE records \cup {[subject |-> run.subject, deps |-> deps, verdict |-> out.verdict]}
    BY <2>0
  <2> DEFINE new == [subject |-> run.subject, deps |-> deps, verdict |-> out.verdict]
  <2>2. answered \subseteq answered'
    BY <2>1
  <2>3. ASSUME NEW r \in records', r.verdict \in Good
        PROVE  \E b \in answered' : r.subject = b.subject /\ r.deps \in DepsOf(b)
    <3>1. CASE r \in records
      BY <2>2, <2>3, <3>1 DEF RecordsAreTrue
    <3>2. CASE out.verdict # None /\ r = new
      <4> DEFINE listed == deps # {}
      <4>1. listed \in BOOLEAN /\ out \in Outcomes[listed] /\ out.verdict \in Good
        BY <2>1, <2>3, <3>2
      <4> HIDE DEF listed
      <4>2. out.answers
        BY <3>2, <4>1, GoodVerdictsAnswer
      <4>3. run \in answered'
        BY <2>1, <4>2
      <4>4. QED
        BY <2>1, <3>2, <4>3
    <3>3. QED
      BY <2>1, <2>3, <3>1, <3>2
  <2>4. QED
    BY <2>3 DEF RecordsAreTrue, DepsOf, RefTo
<1>3. CASE edit \/ update \/ approve \/ release
  BY <1>1, <1>3 DEF edit, update, approve, release
<1>4. ASSUME NEW c \in Checks, begin_check(c) PROVE RecordsAreTrue'
  BY <1>1, <1>4 DEF begin_check
<1>5. CASE UNCHANGED vars
  BY <1>1, <1>5 DEF vars
<1>6. QED
  BY <1>2, <1>3, <1>4, <1>5 DEF Next

(* What the gate over a bundle lets through is backed by runs.             *)
LEMMA GateFindsRuns ==
    ASSUME TypeOK, RecordsAreTrue,
           NEW apps \in SUBSET approvals, NEW recs \in SUBSET records,
           NEW env \in Environments, NEW policy \in Policies,
           check_release_preconditions(source, apps, recs, env, policy),
           NEW c \in policy
    PROVE  \E run \in answered :
               /\ run.check = c /\ run.subject = source
               /\ \E d \in Checker(run.check) : \/ run.used[d].version = installed[d].version
                                                 \/ run.used[d].digest = installed[d].digest
<1>1. PICK app \in apps : TRUE
  BY DEF check_release_preconditions
<1>2. PICK r \in IndexedBy(c, recs) : TRUE
  BY <1>1 DEF check_release_preconditions, Required
<1>3. PICK ref \in r.deps : ref.dep \in Checker(c)
  BY <1>2 DEF IndexedBy
<1>4. r \in recs /\ Supports(r, source, env)
  BY <1>2 DEF IndexedBy, check_release_preconditions
<1>5. PICK run \in answered : r.subject = run.subject /\ r.deps \in DepsOf(run)
  BY <1>4 DEF RecordsAreTrue, Supports, Good
<1>6. PICK d \in Uses[run.check], form \in Forms : ref = RefTo(d, run.used[d], form)
  BY <1>3, <1>5, ListedIsUsed
<1>7. PICK b \in Checks : run.check = b /\ run.used \in [Uses[b] -> Identity]
  BY <1>5 DEF TypeOK, Run
<1>8. run.used[d] \in Identity /\ run.used[d].version # None /\ run.used[d].digest # None
  BY <1>6, <1>7, EvidenceAssumption DEF Identity
<1>9. /\ ref.dep = d
      /\ ref.version # None => ref.version = run.used[d].version
      /\ ref.digest # None => ref.digest = run.used[d].digest
      /\ ref.version # None \/ ref.digest # None
  BY <1>6, <1>8, EvidenceAssumption DEF RefTo, Form
<1>10. run.check = c /\ d \in Checker(run.check)
  <2>1. c \in Checks
    BY EvidenceAssumption
  <2>2. d \in Uses[b] \cap Checker(c)
    BY <1>3, <1>6, <1>7, <1>9
  <2>3. QED
    BY <1>3, <1>7, <1>9, <2>1, <2>2, OnlyItsOwnTool
<1>11. ~ Ambiguous(env) /\ \E cur \in env : Binds(ref, cur)
  BY <1>3, <1>4 DEF Supports, evaluate_freshness
<1>12. PICK cur \in env : Binds(ref, cur)
  BY <1>11
<1>13. cur.version = installed[d].version /\ cur.digest \in {installed[d].digest, None}
  BY <1>9, <1>11, <1>12, EnvironmentsAreTrue DEF Binds, TypeOK
<1>14. \/ run.used[d].version = installed[d].version
       \/ run.used[d].digest = installed[d].digest
  BY <1>8, <1>9, <1>12, <1>13 DEF Binds
<1>15. run.subject = source /\ run \in answered
  BY <1>4, <1>5 DEF Supports
<1>16. QED
  BY <1>10, <1>14, <1>15

(* A release is backed when it is granted, and what backs it stays.        *)
LEMMA BackingKept == TypeOK /\ RecordsAreTrue /\ ReleaseIsBacked /\ [Next]_vars => ReleaseIsBacked'
<1> SUFFICES ASSUME TypeOK, RecordsAreTrue, ReleaseIsBacked, [Next]_vars PROVE ReleaseIsBacked'
  OBVIOUS
<1>1. ASSUME released' = released, approvals \subseteq approvals', answered \subseteq answered'
      PROVE  ReleaseIsBacked'
  BY <1>1 DEF ReleaseIsBacked, Installed, Checker
<1>2. CASE release
  <2>1. PICK apps \in SUBSET approvals, recs \in SUBSET records, env \in Environments, policy \in Policies :
            /\ check_release_preconditions(source, apps, recs, env, policy)
            /\ released' = released \cup {[manifest |-> source, installed |-> installed, policy |-> policy]}
    BY <1>2 DEF release
  <2> DEFINE rel == [manifest |-> source, installed |-> installed, policy |-> policy]
  <2>2. released' = {rel} /\ approvals' = approvals /\ answered' = answered
    BY <1>2, <2>1 DEF release
  <2>3. \E app \in approvals : app.decision = "approved" /\ app.manifest = rel.manifest
                               /\ rel.policy # {} /\ rel.policy \subseteq app.checks
    BY <2>1 DEF check_release_preconditions, PolicyHolds
  <2>4. \A c \in rel.policy : \E run \in answered :
            run.check = c /\ run.subject = rel.manifest /\ Installed(run, rel)
    BY <2>1, GateFindsRuns DEF Installed
  <2>5. QED
    BY <2>2, <2>3, <2>4 DEF ReleaseIsBacked, Installed, Checker
<1>3. CASE edit \/ update
  BY <1>1, <1>3 DEF edit, update
<1>4. CASE approve
  BY <1>1, <1>4 DEF approve
<1>5. ASSUME NEW c \in Checks, begin_check(c) PROVE ReleaseIsBacked'
  BY <1>1, <1>5 DEF begin_check
<1>6. ASSUME NEW run \in running, wrap_raw_verification_result(run) PROVE ReleaseIsBacked'
  BY <1>1, <1>6 DEF wrap_raw_verification_result
<1>7. CASE UNCHANGED vars
  BY <1>1, <1>7 DEF vars
<1>8. QED
  BY <1>2, <1>3, <1>4, <1>5, <1>6, <1>7 DEF Next

----------------------------------------------------------------------------
(* Theorems *)

THEOREM Invariance == Spec => []IInv
<1>1. IInv /\ [Next]_vars => IInv'
  BY TypesKept, RecordsKept, BackingKept DEF IInv
<1>2. QED
  BY InitEstablishes, <1>1, PTL DEF Spec

(* Designs, records, approvals and releases keep to their types.           *)
THEOREM TypeCorrect == Spec => []TypeOK
<1>1. IInv => TypeOK
  BY DEF IInv
<1>2. QED
  BY Invariance, <1>1, PTL

(* A release rests on an approval of exactly that design and, for every    *)
(* check of the policy, on a run that ended well on exactly that design    *)
(* with the tool that is installed.                                        *)
THEOREM ReleasesAreBacked == Spec => []ReleaseIsBacked
<1>1. IInv => ReleaseIsBacked
  BY DEF IInv
<1>2. QED
  BY Invariance, <1>1, PTL

(* The gate over a bundle lets nothing through that the gate over a single *)
(* approval would not.                                                     *)
THEOREM GatesAlwaysAgree == Spec => []GatesAgree
<1>1. GatesAgree
  BY BundleIsStricter DEF GatesAgree
<1>2. QED
  BY <1>1, PTL

=============================================================================
