------------------------ MODULE DeliverableCache_proofs ------------------------
(***************************************************************************)
(* Proofs about DeliverableCache for any threads, tokens, subjects, paths, *)
(* loads and lives.                                                        *)
(***************************************************************************)
EXTENDS DeliverableCache, TLAPS

Busy(th) == req[th] # NoRequest

(* What a request needs is given with it: a cache, paths for those that    *)
(* write one, a record for those that fill a sidecar.                      *)
Mints == {"provision", "stage"}
Writes == {"put", "delete", "move", "copy"}
Formed ==
    \A th \in Threads : Busy(th) =>
        /\ req[th].op \notin Mints \/ req[th].at = "expire" => req[th].token \in Tokens
        /\ req[th].op \in Writes => req[th].file \in Files
        /\ req[th].op \in {"move", "copy"} => req[th].dst \in Files /\ <<req[th].file, req[th].dst>> \in Targets
        /\ req[th].at \in {"open", "fill"} => req[th].token \in Tokens /\ req[th].record \in CacheMeta

Typed == TypeOK /\ Formed

----------------------------------------------------------------------------
(* Requests *)

LEMMA NoRequestIsNone == NoRequest \notin Request
BY DEF NoRequest, Request, Op

LEMMA SidecarsDiffer == NoMeta \notin CacheMeta /\ Torn \notin CacheMeta /\ NoMeta # Torn
BY DEF NoMeta, Torn, CacheMeta

LEMMA FirstSteps == \A op \in Op : FirstStep[op] \in Step \ {"open", "fill", "expire"}
BY DEF Op, FirstStep, Step

LEMMA AskedRequest ==
    ASSUME NEW op \in Op, NEW t \in Tokens \cup {None}, NEW s \in Subjects, NEW f \in Files \cup {None},
           NEW g \in Files \cup {None}, NEW force \in BOOLEAN
    PROVE  LET r == Asked(op, t, s, f, g, force) IN
           /\ r \in Request /\ r.op = op /\ r.at = FirstStep[op] /\ r.token = t /\ r.file = f /\ r.dst = g
           /\ r.force = force /\ r.subject = s /\ r.paths = {} /\ r.todo = {}
BY FirstSteps DEF Asked, Request

(* A request that goes on keeps what it was asked, and the others stay.    *)
Same(r, q) == r.op = q.op /\ r.file = q.file /\ r.dst = q.dst /\ r.force = q.force /\ r.subject = q.subject
Requests == [Threads -> Request \cup {NoRequest}]
OthersStay(th) == req' \in Requests /\ \A u \in Threads \ {th} : req'[u] = req[u]
Proceeds(th, step) == req'[th] \in Request /\ Same(req'[th], req[th]) /\ req'[th].at = step /\ OthersStay(th)
Ends(th) == req'[th] = NoRequest /\ OthersStay(th)

LEMMA Set ==
    ASSUME TypeOK, NEW th \in Threads, NEW r \in Request \cup {NoRequest}, req' = [req EXCEPT ![th] = r]
    PROVE  req'[th] = r /\ OthersStay(th)
BY DEF TypeOK, OthersStay, Requests

LEMMA Ending ==
    ASSUME TypeOK, NEW th \in Threads, Done(th)
    PROVE  Ends(th)
BY Set DEF Done, Ends

LEMMA Going ==
    ASSUME TypeOK, NEW th \in Threads, Busy(th), NEW step \in Step,
           Goto(th, step)
    PROVE  /\ Proceeds(th, step)
           /\ req'[th].token = req[th].token
           /\ req'[th].version = req[th].version
           /\ req'[th].record = req[th].record
           /\ req'[th].paths = req[th].paths
           /\ req'[th].todo = req[th].todo
<1> DEFINE r == [req[th] EXCEPT !.at = step]
<1>1. req[th] \in Request
  BY DEF TypeOK, Busy
<1>2. r \in Request
  BY <1>1 DEF Request
<1>3. req' = [req EXCEPT ![th] = r]
  BY DEF TypeOK, Goto
<1>4. req'[th] = r /\ OthersStay(th)
  BY <1>2, <1>3, Set
<1>5. QED
  BY <1>1, <1>2, <1>4 DEF Proceeds, Same, Request

LEMMA GoingWithRecord ==
    ASSUME TypeOK, NEW th \in Threads, Busy(th), NEW step \in Step, NEW record \in CacheMeta,
           req' = [req EXCEPT ![th].at = step, ![th].record = record]
    PROVE  /\ Proceeds(th, step)
           /\ req'[th].record = record
           /\ req'[th].token = req[th].token
           /\ req'[th].version = req[th].version
<1> DEFINE r == [req[th] EXCEPT !.at = step, !.record = record]
<1>1. req[th] \in Request
  BY DEF TypeOK, Busy
<1>2. r \in Request
  BY <1>1 DEF Request
<1>3. req' = [req EXCEPT ![th] = r]
  BY DEF TypeOK
<1>4. req'[th] = r /\ OthersStay(th)
  BY <1>2, <1>3, Set
<1>5. QED
  BY <1>1, <1>2, <1>4 DEF Proceeds, Same, Request

LEMMA GoingWithVersion ==
    ASSUME TypeOK, NEW th \in Threads, Busy(th), NEW step \in Step, NEW version \in Nat,
           req' = [req EXCEPT ![th].at = step, ![th].version = version]
    PROVE  Proceeds(th, step) /\ req'[th].version = version /\ req'[th].token = req[th].token
<1> DEFINE r == [req[th] EXCEPT !.at = step, !.version = version]
<1>1. req[th] \in Request
  BY DEF TypeOK, Busy
<1>2. r \in Request
  BY <1>1 DEF Request
<1>3. req' = [req EXCEPT ![th] = r]
  BY DEF TypeOK
<1>4. req'[th] = r /\ OthersStay(th)
  BY <1>2, <1>3, Set
<1>5. QED
  BY <1>1, <1>2, <1>4 DEF Proceeds, Same, Request

LEMMA GoingWithPaths ==
    ASSUME TypeOK, NEW th \in Threads, Busy(th), NEW step \in Step, NEW paths \in SUBSET Files,
           req' = [req EXCEPT ![th].at = step, ![th].paths = paths]
    PROVE  Proceeds(th, step) /\ req'[th].paths = paths /\ req'[th].token = req[th].token
<1> DEFINE r == [req[th] EXCEPT !.at = step, !.paths = paths]
<1>1. req[th] \in Request
  BY DEF TypeOK, Busy
<1>2. r \in Request
  BY <1>1 DEF Request
<1>3. req' = [req EXCEPT ![th] = r]
  BY DEF TypeOK
<1>4. req'[th] = r /\ OthersStay(th)
  BY <1>2, <1>3, Set
<1>5. QED
  BY <1>1, <1>2, <1>4 DEF Proceeds, Same, Request

LEMMA StayingWithPaths ==
    ASSUME TypeOK, NEW th \in Threads, Busy(th), NEW paths \in SUBSET Files,
           req' = [req EXCEPT ![th].paths = paths]
    PROVE  Proceeds(th, req[th].at) /\ req'[th].paths = paths /\ req'[th].token = req[th].token
<1> DEFINE r == [req[th] EXCEPT !.paths = paths]
<1>1. req[th] \in Request
  BY DEF TypeOK, Busy
<1>2. r \in Request
  BY <1>1 DEF Request
<1>3. req' = [req EXCEPT ![th] = r]
  BY DEF TypeOK
<1>4. req'[th] = r /\ OthersStay(th)
  BY <1>2, <1>3, Set
<1>5. QED
  BY <1>1, <1>2, <1>4 DEF Proceeds, Same, Request

LEMMA GoingWithTodo ==
    ASSUME TypeOK, NEW th \in Threads, Busy(th), NEW step \in Step, NEW todo \in SUBSET Tokens,
           req' = [req EXCEPT ![th].at = step, ![th].todo = todo]
    PROVE  Proceeds(th, step) /\ req'[th].todo = todo
<1> DEFINE r == [req[th] EXCEPT !.at = step, !.todo = todo]
<1>1. req[th] \in Request
  BY DEF TypeOK, Busy
<1>2. r \in Request
  BY <1>1 DEF Request
<1>3. req' = [req EXCEPT ![th] = r]
  BY DEF TypeOK
<1>4. req'[th] = r /\ OthersStay(th)
  BY <1>2, <1>3, Set
<1>5. QED
  BY <1>1, <1>2, <1>4 DEF Proceeds, Same, Request

LEMMA StayingWithTodo ==
    ASSUME TypeOK, NEW th \in Threads, Busy(th), NEW todo \in SUBSET Tokens,
           req' = [req EXCEPT ![th].todo = todo]
    PROVE  Proceeds(th, req[th].at) /\ req'[th].todo = todo
<1> DEFINE r == [req[th] EXCEPT !.todo = todo]
<1>1. req[th] \in Request
  BY DEF TypeOK, Busy
<1>2. r \in Request
  BY <1>1 DEF Request
<1>3. req' = [req EXCEPT ![th] = r]
  BY DEF TypeOK
<1>4. req'[th] = r /\ OthersStay(th)
  BY <1>2, <1>3, Set
<1>5. QED
  BY <1>1, <1>2, <1>4 DEF Proceeds, Same, Request

AtToken(q, step, token, todo) == [q EXCEPT !.at = step, !.token = token, !.todo = todo]

LEMMA GoingWithToken ==
    ASSUME TypeOK, NEW th \in Threads, Busy(th), NEW step \in Step, NEW token \in Tokens, NEW todo \in SUBSET Tokens,
           req' = [req EXCEPT ![th] = AtToken(req[th], step, token, todo)]
    PROVE  Proceeds(th, step) /\ req'[th].token = token /\ req'[th].todo = todo
<1> DEFINE r == AtToken(req[th], step, token, todo)
<1>1. req[th] \in Request
  BY DEF TypeOK, Busy
<1>2. r \in Request
  BY <1>1 DEF Request, AtToken
<1>3. Same(r, req[th]) /\ r.at = step /\ r.token = token /\ r.todo = todo
  BY <1>1 DEF Same, Request, AtToken
<1>4. QED
  <2> HIDE DEF r
  <2>1. req'[th] = r /\ OthersStay(th)
    BY <1>2, Set DEF r
  <2>2. QED
    BY <1>2, <1>3, <2>1 DEF Proceeds

WithRecord(q, step, token, record) == [q EXCEPT !.at = step, !.token = token, !.record = record]

LEMMA GoingToFill ==
    ASSUME TypeOK, NEW th \in Threads, Busy(th), NEW step \in Step, NEW token \in Tokens, NEW record \in CacheMeta,
           req' = [req EXCEPT ![th] = WithRecord(req[th], step, token, record)]
    PROVE  Proceeds(th, step) /\ req'[th].token = token /\ req'[th].record = record
<1> DEFINE r == WithRecord(req[th], step, token, record)
<1>1. req[th] \in Request
  BY DEF TypeOK, Busy
<1>2. r \in Request
  BY <1>1 DEF Request, WithRecord
<1>3. Same(r, req[th]) /\ r.at = step /\ r.token = token /\ r.record = record
  BY <1>1 DEF Same, Request, WithRecord
<1>4. QED
  <2> HIDE DEF r
  <2>1. req'[th] = r /\ OthersStay(th)
    BY <1>2, Set DEF r
  <2>2. QED
    BY <1>2, <1>3, <2>1 DEF Proceeds

----------------------------------------------------------------------------
(* What each step does to its request *)

LEMMA Rewritten ==
    ASSUME NEW m \in CacheMeta, NEW n \in Nat
    PROVE  /\ [m EXCEPT !.used = n] \in CacheMeta /\ [m EXCEPT !.used = n].used = n
           /\ [m EXCEPT !.used = n].subject = m.subject /\ [m EXCEPT !.used = n].exported = m.exported
           /\ [m EXCEPT !.used = n, !.exported = n] \in CacheMeta /\ [m EXCEPT !.used = n, !.exported = n].used = n
           /\ [m EXCEPT !.used = n, !.exported = n].subject = m.subject
           /\ [m EXCEPT !.used = n, !.exported = n].exported = n
BY DEF CacheMeta

LEMMA NowIsLater == TypeOK => Now \in Nat /\ clock < Now
BY DEF TypeOK, Now

LEMMA StepOfDispatch ==
    ASSUME TypeOK, NEW th \in Threads, NEW op \in Op \ {"provision", "stage"}, NEW t \in Tokens,
           NEW f \in Files \cup {None}, NEW g \in Files \cup {None}, NEW force \in BOOLEAN,
           dispatch(th, op, t, f, g, force)
    PROVE  /\ ~ Busy(th) /\ Known(t) /\ meta[t].subject \in Subjects
           /\ req'[th] = Asked(op, t, meta[t].subject, f, g, force) /\ req'[th] \in Request /\ OthersStay(th)
<1>1. meta[t] \in CacheMeta /\ meta[t].subject \in Subjects
  BY DEF dispatch, Known, CacheMeta
<1>2. Asked(op, t, meta[t].subject, f, g, force) \in Request
  BY <1>1, AskedRequest
<1>3. QED
  BY <1>1, <1>2, Set DEF dispatch, Free, Busy

LEMMA StepOfMinting ==
    ASSUME TypeOK, NEW th \in Threads, NEW op, NEW s \in Subjects, begin_minting(th, op, s)
    PROVE  /\ ~ Busy(th) /\ op \in {"provision", "stage"}
           /\ req'[th] = Asked(op, None, s, None, None, FALSE) /\ req'[th] \in Request /\ OthersStay(th)
<1>1. op \in {"provision", "stage"} /\ op \in Op
  BY DEF begin_minting, Op
<1>2. Asked(op, None, s, None, None, FALSE) \in Request
  BY <1>1, AskedRequest
<1>3. QED
  BY <1>1, <1>2, Set DEF begin_minting, Free, Busy

LEMMA StepOfRewrite ==
    ASSUME TypeOK, NEW th \in Threads, Busy(th), NEW t, NEW record, Rewrite(th, t, record),
           Known(t) => record \in CacheMeta
    PROVE  \/ /\ Known(t) /\ Proceeds(th, "open") /\ req'[th].record = record
              /\ req'[th].token = req[th].token /\ req'[th].version = req[th].version
              /\ mtime' = [mtime EXCEPT ![t] = Now]
           \/ ~ Known(t) /\ Ends(th) /\ mtime' = mtime
<1>1. "open" \in Step
  BY DEF Step
<1>2. CASE Known(t) /\ req' = [req EXCEPT ![th].at = "open", ![th].record = record]
                    /\ mtime' = [mtime EXCEPT ![t] = Now]
  BY <1>1, <1>2, GoingWithRecord
<1>3. CASE ~ Known(t) /\ Done(th) /\ UNCHANGED mtime
  BY <1>3, Ending
<1>4. QED
  BY <1>2, <1>3 DEF Rewrite

LEMMA StepOfTouch ==
    ASSUME TypeOK, NEW th \in Threads, touch_cache(th)
    PROVE  LET t == req[th].token IN
           /\ Busy(th) /\ req[th].op = "put" /\ req[th].at = "read"
           /\ \/ /\ Known(t) /\ Proceeds(th, "open") /\ req'[th].record = [meta[t] EXCEPT !.used = Now]
                 /\ req'[th].record \in CacheMeta
                 /\ req'[th].token = t /\ req'[th].version = req[th].version
                 /\ mtime' = [mtime EXCEPT ![t] = Now]
              \/ ~ Known(t) /\ Ends(th) /\ mtime' = mtime
<1> DEFINE t == req[th].token
           record == [meta[t] EXCEPT !.used = Now]
<1>1. Busy(th) /\ req[th].op = "put" /\ req[th].at = "read" /\ Rewrite(th, t, record)
  BY DEF touch_cache, Is, Busy
<1>2. Known(t) => record \in CacheMeta
  BY NowIsLater, Rewritten DEF Known
<1>3. QED
  <2> HIDE DEF record
  <2>1. QED
    BY <1>1, <1>2, StepOfRewrite DEF record

LEMMA StepOfMark ==
    ASSUME TypeOK, NEW th \in Threads, mark_exported(th)
    PROVE  LET t == req[th].token IN
           /\ Busy(th) /\ req[th].op = "export" /\ req[th].at = "read"
           /\ \/ /\ Known(t) /\ Proceeds(th, "open")
                 /\ req'[th].record = [meta[t] EXCEPT !.used = Now, !.exported = Now]
                 /\ req'[th].record \in CacheMeta
                 /\ req'[th].token = t /\ req'[th].version = req[th].version
                 /\ mtime' = [mtime EXCEPT ![t] = Now]
              \/ ~ Known(t) /\ Ends(th) /\ mtime' = mtime
<1> DEFINE t == req[th].token
           record == [meta[t] EXCEPT !.used = Now, !.exported = Now]
<1>1. Busy(th) /\ req[th].op = "export" /\ req[th].at = "read" /\ Rewrite(th, t, record)
  BY DEF mark_exported, Is, Busy
<1>2. Known(t) => record \in CacheMeta
  BY NowIsLater, Rewritten DEF Known
<1>3. QED
  <2> HIDE DEF record
  <2>1. QED
    BY <1>1, <1>2, StepOfRewrite DEF record

LEMMA StepOfOpen ==
    ASSUME TypeOK, NEW th \in Threads, open_meta(th)
    PROVE  /\ Busy(th) /\ req[th].at = "open" /\ Proceeds(th, "fill")
           /\ req'[th].token = req[th].token /\ req'[th].version = req[th].version
           /\ req'[th].record = req[th].record
BY Going DEF open_meta, Is, Busy, Step

LEMMA StepOfFill ==
    ASSUME TypeOK, NEW th \in Threads, fill_meta(th)
    PROVE  Busy(th) /\ req[th].at = "fill" /\ Ends(th)
BY Ending DEF fill_meta, Is, Busy

LEMMA StepOfPut ==
    ASSUME TypeOK, NEW th \in Threads, put_write(th)
    PROVE  /\ Busy(th) /\ req[th].op = "put" /\ req[th].at = "write" /\ Proceeds(th, "read")
           /\ req'[th].token = req[th].token /\ req'[th].version = Now
BY GoingWithVersion, NowIsLater DEF put_write, Is, Busy, Step

LEMMA StepOfDelete ==
    ASSUME TypeOK, NEW th \in Threads, dav_delete(th)
    PROVE  Busy(th) /\ req[th].op = "delete" /\ req[th].at = "delete" /\ Ends(th)
BY Ending DEF dav_delete, Is, Busy

LEMMA StepOfClear ==
    ASSUME TypeOK, NEW th \in Threads, clear_dest(th)
    PROVE  LET t == req[th].token IN
           /\ Busy(th) /\ req[th].op \in {"move", "copy"} /\ req[th].at = "clear"
           /\ \/ req[th].file \notin Held(t) /\ Ends(th) /\ UNCHANGED <<tree, discarded>>
              \/ /\ req[th].file \in Held(t) /\ Proceeds(th, "put_down") /\ req'[th].token = t
                 /\ tree' = [tree EXCEPT ![t][req[th].dst] = NoFile]
                 /\ discarded' = discarded \cup Overwritten(t, req[th].file, req[th].dst)
BY Ending, Going DEF clear_dest, Is, Busy, Step

LEMMA StepOfPutDown ==
    ASSUME TypeOK, NEW th \in Threads, put_down(th)
    PROVE  Busy(th) /\ req[th].op \in {"move", "copy"} /\ req[th].at = "put_down" /\ Ends(th)
BY Ending DEF put_down, Is, Busy

LEMMA StepOfList ==
    ASSUME TypeOK, NEW th \in Threads, export_list(th)
    PROVE  /\ Busy(th) /\ req[th].op = "export" /\ req[th].at = "list"
           /\ \/ Ends(th)
              \/ /\ req[th].token \in dirs /\ Proceeds(th, "copy") /\ req'[th].token = req[th].token
                 /\ req'[th].paths = Held(req[th].token)
<1>1. Held(req[th].token) \in SUBSET Files /\ "copy" \in Step
  BY DEF Held, Step
<1>2. CASE req[th].token \notin dirs
  BY <1>2, Ending DEF export_list, Is, Busy
<1>3. CASE req[th].token \in dirs
  BY <1>1, <1>3, GoingWithPaths DEF export_list, Is, Busy
<1>4. QED
  BY <1>2, <1>3

LEMMA StepOfCopy ==
    ASSUME TypeOK, NEW th \in Threads, export_copy(th)
    PROVE  LET t == req[th].token IN
           /\ Busy(th) /\ req[th].op = "export" /\ req[th].at = "copy"
           /\ \/ req[th].paths = {} /\ Proceeds(th, "read") /\ req'[th].token = t /\ host' = host
              \/ \E f \in req[th].paths :
                    /\ f \in Files /\ Proceeds(th, "copy") /\ req'[th].token = t /\ req'[th].paths = req[th].paths \ {f}
                    /\ host' = host \cup ({f} \X VersionAt(t, f))
<1> DEFINE t == req[th].token
<1>1. Busy(th) /\ req[th].op = "export" /\ req[th].at = "copy" /\ req[th] \in Request
  BY DEF export_copy, Is, Busy, TypeOK
<1>2. CASE req[th].paths = {} /\ Goto(th, "read") /\ UNCHANGED host
  BY <1>1, <1>2, Going DEF Step
<1>3. ASSUME NEW f \in req[th].paths, req' = [req EXCEPT ![th].paths = @ \ {f}],
             host' = host \cup ({f} \X VersionAt(t, f))
      PROVE  /\ f \in Files /\ Proceeds(th, "copy") /\ req'[th].token = t /\ req'[th].paths = req[th].paths \ {f}
  <2>1. req[th].paths \in SUBSET Files
    BY <1>1 DEF Request
  <2> DEFINE paths == req[th].paths \ {f}
  <2>2. paths \in SUBSET Files
    BY <2>1
  <2>3. req' = [req EXCEPT ![th].paths = paths]
    BY <1>3 DEF TypeOK
  <2>4. Proceeds(th, req[th].at) /\ req'[th].paths = paths /\ req'[th].token = req[th].token
    <3> HIDE DEF paths
    <3>1. QED
      BY <1>1, <2>2, <2>3, StayingWithPaths
  <2>5. QED
    BY <1>1, <2>1, <2>4
<1>4. QED
  BY <1>1, <1>2, <1>3 DEF export_copy

LEMMA StepOfCheck ==
    ASSUME TypeOK, NEW th \in Threads, close_check(th)
    PROVE  /\ Busy(th) /\ req[th].op = "close" /\ req[th].at = "check"
           /\ \/ Ends(th)
              \/ MayClose(req[th].token, req[th].force) /\ Proceeds(th, "remove") /\ req'[th].token = req[th].token
BY Ending, Going DEF close_check, Is, Busy, Step

LEMMA StepOfRemove ==
    ASSUME TypeOK, NEW th \in Threads, close_remove(th)
    PROVE  LET t == req[th].token IN
           /\ Busy(th) /\ req[th].op = "close" /\ req[th].at = "remove"
           /\ \/ ~ Known(t) /\ Ends(th) /\ UNCHANGED <<dirs, tree, discarded, lost>>
              \/ /\ Known(t) /\ Proceeds(th, "unlink") /\ req'[th].token = t
                 /\ dirs' = dirs \ {t} /\ tree' = [tree EXCEPT ![t] = EmptyTree]
                 /\ discarded' = discarded \cup (IF req[th].force THEN Stored(t) ELSE {})
                 /\ lost' = lost \cup (IF req[th].force THEN {} ELSE Placed(t))
BY Ending, Going DEF close_remove, Is, Busy, Step

LEMMA StepOfUnlink ==
    ASSUME TypeOK, NEW th \in Threads, close_unlink(th)
    PROVE  Busy(th) /\ req[th].op = "close" /\ req[th].at = "unlink" /\ Ends(th)
BY Ending DEF close_unlink, Is, Busy

LEMMA StepOfScan ==
    ASSUME TypeOK, NEW th \in Threads, provision_scan(th)
    PROVE  /\ Busy(th) /\ req[th].op = "provision" /\ req[th].at = "scan"
           /\ \/ Ends(th) /\ clock' = clock
              \/ \E t \in Match(req[th].subject) :
                    /\ Proceeds(th, "open") /\ req'[th].token = t
                    /\ req'[th].record = [meta[t] EXCEPT !.used = Now] /\ req'[th].record \in CacheMeta
                    /\ clock' = Now
              \/ Match(req[th].subject) = {} /\ Proceeds(th, "sweep") /\ req'[th].token = req[th].token /\ clock' = clock
<1>1. Busy(th) /\ req[th].op = "provision" /\ req[th].at = "scan"
  BY DEF provision_scan, Is, Busy
<1>2. CASE Done(th) /\ UNCHANGED clock
  BY <1>1, <1>2, Ending
<1>3. ASSUME NEW t \in Match(req[th].subject), clock' = Now,
             req' = [req EXCEPT ![th].at = "open", ![th].token = t, ![th].record = [meta[t] EXCEPT !.used = Now]]
      PROVE  /\ Proceeds(th, "open") /\ req'[th].token = t
             /\ req'[th].record = [meta[t] EXCEPT !.used = Now] /\ req'[th].record \in CacheMeta
  <2> DEFINE record == [meta[t] EXCEPT !.used = Now]
  <2>1. record \in CacheMeta /\ t \in Tokens /\ "open" \in Step
    BY NowIsLater, Rewritten DEF Match, Known, Step
  <2>2. req' = [req EXCEPT ![th] = WithRecord(req[th], "open", t, record)]
    BY <1>3 DEF TypeOK, WithRecord
  <2>3. Proceeds(th, "open") /\ req'[th].token = t /\ req'[th].record = record
    <3> HIDE DEF record
    <3>1. QED
      BY <1>1, <2>1, <2>2, GoingToFill
  <2>4. QED
    BY <2>1, <2>3
<1>4. CASE Match(req[th].subject) = {} /\ Goto(th, "sweep") /\ UNCHANGED clock
  BY <1>1, <1>4, Going DEF Step
<1>5. QED
  BY <1>1, <1>2, <1>3, <1>4 DEF provision_scan

LEMMA StepOfSweep ==
    ASSUME TypeOK, NEW th \in Threads, reap_ephemeral(th)
    PROVE  /\ Busy(th) /\ req[th].op \in {"provision", "stage"} /\ req[th].at = "sweep" /\ Proceeds(th, "reap")
<1>1. {t \in Tokens : meta[t] # NoMeta} \in SUBSET Tokens /\ "reap" \in Step
  BY DEF Step
<1>2. QED
  BY <1>1, GoingWithTodo DEF reap_ephemeral, Is, Busy

LEMMA StepOfReap ==
    ASSUME TypeOK, NEW th \in Threads, reap_safety_net(th)
    PROVE  /\ Busy(th) /\ req[th].op \in {"provision", "stage"} /\ req[th].at = "reap"
           /\ \/ Ends(th) \/ Proceeds(th, "mint") \/ Proceeds(th, "reap")
              \/ req'[th].token \in Tokens \ dirs /\ Proceeds(th, "forget")
              \/ Known(req'[th].token) /\ Idle(req'[th].token) /\ Proceeds(th, "expire")
<1>1. Busy(th) /\ req[th].op \in {"provision", "stage"} /\ req[th].at = "reap" /\ req[th] \in Request
  BY DEF reap_safety_net, Is, Busy, TypeOK
<1>2. CASE req[th].todo = {} /\ Goto(th, "mint")
  BY <1>1, <1>2, Going DEF Step
<1>3. ASSUME NEW t \in req[th].todo,
             \/ meta[t] \notin CacheMeta /\ Done(th)
             \/ /\ meta[t] \in CacheMeta /\ t \notin dirs
                /\ req' = [req EXCEPT ![th].at = "forget", ![th].token = t, ![th].todo = @ \ {t}]
             \/ /\ Known(t) /\ Idle(t)
                /\ req' = [req EXCEPT ![th].at = "expire", ![th].token = t, ![th].todo = @ \ {t}]
             \/ /\ Known(t) /\ ~ Idle(t)
                /\ req' = [req EXCEPT ![th].todo = @ \ {t}]
      PROVE  \/ Ends(th) \/ Proceeds(th, "reap")
             \/ req'[th].token \in Tokens \ dirs /\ Proceeds(th, "forget")
             \/ Known(req'[th].token) /\ Idle(req'[th].token) /\ Proceeds(th, "expire")
  <2> DEFINE todo == req[th].todo \ {t}
  <2>1. t \in Tokens /\ todo \in SUBSET Tokens
    BY <1>1 DEF Request
  <2>2. "forget" \in Step /\ "expire" \in Step
    BY DEF Step
  <2>3. CASE Done(th)
    BY <2>3, Ending
  <2>4. CASE t \notin dirs /\ req' = [req EXCEPT ![th].at = "forget", ![th].token = t, ![th].todo = @ \ {t}]
    <3>1. req' = [req EXCEPT ![th] = AtToken(req[th], "forget", t, todo)]
      BY <2>4 DEF TypeOK, AtToken
    <3> HIDE DEF todo
    <3>2. Proceeds(th, "forget") /\ req'[th].token = t
      BY <1>1, <2>1, <2>2, <3>1, GoingWithToken
    <3>3. QED
      BY <2>1, <2>4, <3>2
  <2>5. CASE Known(t) /\ Idle(t) /\ req' = [req EXCEPT ![th].at = "expire", ![th].token = t, ![th].todo = @ \ {t}]
    <3>1. req' = [req EXCEPT ![th] = AtToken(req[th], "expire", t, todo)]
      BY <2>5 DEF TypeOK, AtToken
    <3> HIDE DEF todo
    <3>2. Proceeds(th, "expire") /\ req'[th].token = t
      BY <1>1, <2>1, <2>2, <3>1, GoingWithToken
    <3>3. QED
      BY <2>1, <2>5, <3>2
  <2>6. CASE req' = [req EXCEPT ![th].todo = @ \ {t}]
    <3>1. req' = [req EXCEPT ![th].todo = todo]
      BY <2>6 DEF TypeOK
    <3> HIDE DEF todo
    <3>2. Proceeds(th, req[th].at)
      BY <1>1, <2>1, <3>1, StayingWithTodo
    <3>3. QED
      BY <1>1, <3>2
  <2>7. QED
    BY <1>3, <2>3, <2>4, <2>5, <2>6
<1>4. QED
  BY <1>1, <1>2, <1>3 DEF reap_safety_net

LEMMA StepOfExpiry ==
    ASSUME TypeOK, NEW th \in Threads, reap_remove(th)
    PROVE  /\ Busy(th) /\ req[th].op \in {"provision", "stage"} /\ req[th].at = "expire" /\ Proceeds(th, "forget")
           /\ req'[th].token = req[th].token
BY Going DEF reap_remove, Is, Busy, Step

LEMMA StepOfForget ==
    ASSUME TypeOK, NEW th \in Threads, reap_forget(th)
    PROVE  /\ Busy(th) /\ req[th].op \in {"provision", "stage"} /\ req[th].at = "forget" /\ Proceeds(th, "reap")
BY Going DEF reap_forget, Is, Busy, Step

LEMMA StepOfMint ==
    ASSUME TypeOK, NEW th \in Threads, new_token(th)
    PROVE  /\ Busy(th) /\ req[th].op \in {"provision", "stage"} /\ req[th].at = "mint"
           /\ \E t \in Fresh :
                 /\ dirs' = dirs \cup {t}
                 /\ mtime' = [mtime EXCEPT ![t] = Now] /\ lastUse' = [lastUse EXCEPT ![t] = Now]
                 /\ \/ Ends(th)
                    \/ /\ Proceeds(th, "open") /\ req'[th].token = t /\ req'[th].record \in CacheMeta
                       /\ req[th].op = "provision"
                       /\ req'[th].record = [subject |-> req[th].subject, used |-> Now, exported |-> Never]
<1>1. Busy(th) /\ req[th].op \in {"provision", "stage"} /\ req[th].at = "mint" /\ req[th] \in Request
  BY DEF new_token, Is, Busy, TypeOK
<1> DEFINE record == [subject |-> req[th].subject, used |-> Now, exported |-> Never]
<1>2. record \in CacheMeta /\ "open" \in Step
  BY <1>1, NowIsLater DEF CacheMeta, Request, Never, Step
<1>3. PICK t \in Fresh :
          /\ dirs' = dirs \cup {t}
          /\ mtime' = [mtime EXCEPT ![t] = Now]
          /\ lastUse' = [lastUse EXCEPT ![t] = Now]
          /\ IF req[th].op = "stage" THEN Done(th)
             ELSE req' = [req EXCEPT ![th].at = "open", ![th].token = t, ![th].record = record]
  BY DEF new_token
<1> HIDE DEF record
<1>4. CASE req[th].op = "stage"
  BY <1>1, <1>3, <1>4, Ending
<1>5. CASE req[th].op # "stage"
  <2>1. t \in Tokens
    BY DEF Fresh
  <2>2. req' = [req EXCEPT ![th] = WithRecord(req[th], "open", t, record)]
    BY <1>3, <1>5 DEF TypeOK, WithRecord
  <2>3. Proceeds(th, "open") /\ req'[th].token = t /\ req'[th].record = record
    BY <1>1, <1>2, <2>1, <2>2, GoingToFill
  <2>4. QED
    BY <1>1, <1>2, <1>3, <1>5, <2>3 DEF record
<1>6. QED
  BY <1>4, <1>5

----------------------------------------------------------------------------
(* Types *)

LEMMA FormedGoingOn ==
    ASSUME Typed, NEW th \in Threads, Busy(th), NEW step, Proceeds(th, step),
           req[th].op \notin Mints => req'[th].token = req[th].token,
           step = "expire" => req'[th].token \in Tokens,
           step \in {"open", "fill"} => req'[th].token \in Tokens /\ req'[th].record \in CacheMeta
    PROVE  Formed'
BY NoRequestIsNone DEF Typed, Formed, Proceeds, Same, OthersStay, Busy

LEMMA FormedAtEnd ==
    ASSUME Typed, NEW th \in Threads, Ends(th)
    PROVE  Formed'
BY DEF Typed, Formed, Ends, OthersStay, Busy

LEMMA FormedWhenAsked ==
    ASSUME Typed, NEW th \in Threads, OthersStay(th),
           NEW op \in Op, NEW t, NEW s, NEW f, NEW g, NEW force, req'[th] = Asked(op, t, s, f, g, force),
           op \notin Mints => t \in Tokens, op \in Writes => f \in Files,
           op \in {"move", "copy"} => g \in Files /\ <<f, g>> \in Targets
    PROVE  Formed'
<1>1. /\ req'[th].op = op /\ req'[th].at = FirstStep[op] /\ req'[th].token = t
      /\ req'[th].file = f /\ req'[th].dst = g
  BY DEF Asked
<1>2. req'[th].at \notin {"open", "fill", "expire"}
  BY <1>1, FirstSteps
<1>3. QED
  BY <1>1, <1>2 DEF Typed, Formed, OthersStay, Busy

LEMMA Versions ==
    ASSUME TypeOK, NEW t \in Tokens
    PROVE  /\ Held(t) \in SUBSET Files /\ Stored(t) \in SUBSET Nat
           /\ Placed(t) \in SUBSET (Files \X Nat)
           /\ \A f : VersionAt(t, f) \in SUBSET Nat
<1>1. \A f \in Held(t) : tree[t][f].version \in Nat
  BY DEF TypeOK, Held
<1>2. QED
  BY <1>1 DEF Held, Stored, Placed, VersionAt

LEMMA EmptyTyped == EmptyTree \in [Files -> [version : Nat, mtime : Nat] \cup {NoFile}]
BY DEF EmptyTree

LEMMA TypeAtFirst == Init => Typed
<1> SUFFICES ASSUME Init PROVE Typed
  OBVIOUS
<1>1. QED
  BY EmptyTyped DEF Init, Typed, TypeOK, Formed, Busy, Never, Request

LEMMA Workers == TypeOK => load.threads \subseteq Threads /\ load.subjects \subseteq Subjects
BY CacheAssumption DEF TypeOK, Load

LEMMA TypesOfDispatch ==
    ASSUME Typed, NEW th \in Threads, NEW op \in Op \ {"provision", "stage"}, NEW t \in Tokens,
           NEW f \in Files \cup {None}, NEW g \in Files \cup {None}, NEW force \in BOOLEAN,
           dispatch(th, op, t, f, g, force),
           op \in Writes => f \in Files,
           op \in {"move", "copy"} => g \in Files /\ <<f, g>> \in Targets,
           load' = load
    PROVE  Typed'
<1>1. TypeOK
  BY DEF Typed
<1>2. /\ req'[th] = Asked(op, t, meta[t].subject, f, g, force) /\ OthersStay(th)
  BY <1>1, StepOfDispatch
<1>3. Formed'
  BY <1>2, FormedWhenAsked
<1>4. req' \in Requests
  BY <1>2 DEF OthersStay
<1>5. TypeOK'
  BY <1>1, <1>4, NowIsLater DEF dispatch, TypeOK, Requests
<1>6. QED
  BY <1>3, <1>5 DEF Typed

LEMMA TypesOfMinting ==
    ASSUME Typed, NEW th \in Threads, NEW s \in Subjects, NEW op \in {"provision", "stage"},
           begin_minting(th, op, s), load' = load
    PROVE  Typed'
<1>1. TypeOK
  BY DEF Typed
<1>2. req'[th] = Asked(op, None, s, None, None, FALSE) /\ OthersStay(th) /\ op \in Op
  BY <1>1, StepOfMinting DEF Op
<1>3. Formed'
  BY <1>2, FormedWhenAsked DEF Writes, Mints
<1>4. req' \in Requests
  BY <1>2 DEF OthersStay
<1>5. begun' = begun + 1 /\ UNCHANGED <<disk, clock, history, idles, crashes>>
  BY DEF begin_minting
<1>6. TypeOK'
  BY <1>1, <1>4, <1>5 DEF disk, history, TypeOK, Requests
<1>7. QED
  BY <1>3, <1>6 DEF Typed

LEMMA BeginningKeepsTypes ==
    ASSUME Typed, NEW th \in load.threads, Begin(th), load' = load
    PROVE  Typed'
<1>1. th \in Threads /\ load.subjects \subseteq Subjects
  BY Workers DEF Typed
<1>2. ASSUME NEW t \in Tokens, NEW f \in Files,
             dispatch(th, "put", t, f, f, FALSE) \/ dispatch(th, "delete", t, f, f, FALSE)
      PROVE  Typed'
  BY <1>1, <1>2, TypesOfDispatch DEF Op
<1>3. ASSUME NEW t \in Tokens, NEW p \in Targets, NEW op \in {"move", "copy"}, dispatch(th, op, t, p[1], p[2], FALSE)
      PROVE  Typed'
  <2>1. p[1] \in Files /\ p[2] \in Files /\ <<p[1], p[2]>> \in Targets
    BY CacheAssumption
  <2>2. QED
    BY <1>1, <1>3, <2>1, TypesOfDispatch DEF Op
<1>4. ASSUME NEW t \in Tokens, NEW force \in BOOLEAN,
             dispatch(th, "export", t, None, None, FALSE) \/ dispatch(th, "close", t, None, None, force)
      PROVE  Typed'
  BY <1>1, <1>4, TypesOfDispatch DEF Op, Writes
<1>5. ASSUME NEW s \in load.subjects, NEW op \in {"provision", "stage"}, begin_minting(th, op, s)
      PROVE  Typed'
  BY <1>1, <1>5, TypesOfMinting
<1>6. QED
  BY <1>2, <1>3, <1>4, <1>5 DEF Begin

LEMMA WorkingKeepsTypes ==
    ASSUME Typed, NEW th \in Threads, Work(th), load' = load
    PROVE  Typed'
<1> USE DEF Typed
<1>0. req' \in Requests => req' \in [Threads -> Request \cup {NoRequest}]
  BY DEF Requests
<1>1. CASE touch_cache(th)
  <2>1. Formed' /\ req' \in Requests
    BY <1>1, StepOfTouch, FormedGoingOn, FormedAtEnd DEF Known, Formed, Mints, Proceeds, Ends, OthersStay
  <2>2. mtime' = mtime \/ \E t \in Tokens : mtime' = [mtime EXCEPT ![t] = Now]
    BY <1>1, StepOfTouch DEF Formed, Mints
  <2>3. QED
    BY <1>0, <1>1, <2>1, <2>2, NowIsLater DEF touch_cache, history, bounds, TypeOK
<1>2. CASE mark_exported(th)
  <2>1. Formed' /\ req' \in Requests
    BY <1>2, StepOfMark, FormedGoingOn, FormedAtEnd DEF Known, Formed, Mints, Proceeds, Ends, OthersStay
  <2>2. mtime' = mtime \/ \E t \in Tokens : mtime' = [mtime EXCEPT ![t] = Now]
    BY <1>2, StepOfMark DEF Formed, Mints
  <2>3. QED
    BY <1>0, <1>2, <2>1, <2>2, NowIsLater DEF mark_exported, history, bounds, TypeOK
<1>3. CASE open_meta(th)
  <2>1. Formed' /\ req' \in Requests
    BY <1>3, StepOfOpen, FormedGoingOn DEF Formed, Proceeds, OthersStay
  <2>2. QED
    BY <1>0, <1>3, <2>1 DEF open_meta, history, bounds, TypeOK
<1>4. CASE fill_meta(th)
  <2>1. Formed' /\ req' \in Requests
    BY <1>4, StepOfFill, FormedAtEnd DEF Ends, OthersStay
  <2>2. req[th] \in Request /\ req[th].record \in CacheMeta /\ req[th].record.used \in Nat /\ req[th].version \in Nat
    BY <1>4, StepOfFill DEF Formed, CacheMeta, TypeOK, Busy, Request
  <2>3. meta' \in [Tokens -> CacheMeta \cup {NoMeta, Torn}] /\ lastUse' \in [Tokens -> Nat] /\ acked' \subseteq Nat
    BY <1>4, <2>2 DEF fill_meta, TypeOK
  <2>4. QED
    BY <1>0, <1>4, <2>1, <2>3 DEF fill_meta, bounds, TypeOK
<1>5. CASE put_write(th)
  <2>1. Formed' /\ req' \in Requests
    BY <1>5, StepOfPut, FormedGoingOn DEF Proceeds, OthersStay
  <2>2. req[th].token \in Tokens /\ req[th].file \in Files
    BY <1>5, StepOfPut DEF Formed, Mints, Writes
  <2>3. tree' \in [Tokens -> [Files -> [version : Nat, mtime : Nat] \cup {NoFile}]] /\ discarded' \subseteq Nat
    BY <1>5, <2>2, NowIsLater, Versions DEF put_write, TypeOK
  <2>4. dirs' \subseteq Tokens /\ mtime' \in [Tokens -> Nat] /\ clock' \in Nat
    BY <1>5, <2>2, NowIsLater DEF put_write, MakeParents, TypeOK
  <2>5. QED
    BY <1>0, <1>5, <2>1, <2>3, <2>4 DEF put_write, bounds, TypeOK
<1>6. CASE dav_delete(th)
  <2>1. Formed' /\ req' \in Requests
    BY <1>6, StepOfDelete, FormedAtEnd DEF Ends, OthersStay
  <2>2. req[th].token \in Tokens /\ req[th].file \in Files
    BY <1>6, StepOfDelete DEF Formed, Mints, Writes
  <2>3. tree' \in [Tokens -> [Files -> [version : Nat, mtime : Nat] \cup {NoFile}]] /\ discarded' \subseteq Nat
    BY <1>6, <2>2, Versions DEF dav_delete, TypeOK
  <2>4. QED
    BY <1>0, <1>6, <2>1, <2>3 DEF dav_delete, bounds, TypeOK
<1>7. CASE clear_dest(th)
  <2>1. Formed' /\ req' \in Requests
    BY <1>7, StepOfClear, FormedGoingOn, FormedAtEnd DEF Proceeds, Ends, OthersStay
  <2>2. req[th].token \in Tokens /\ req[th].dst \in Files
    BY <1>7, StepOfClear DEF Formed, Mints, Writes
  <2>3. tree' \in [Tokens -> [Files -> [version : Nat, mtime : Nat] \cup {NoFile}]]
    <3> DEFINE t == req[th].token
               g == req[th].dst
    <3>1. tree' = tree \/ tree' = [tree EXCEPT ![t][g] = NoFile]
      BY <1>7 DEF clear_dest
    <3>2. t \in Tokens /\ g \in Files /\ tree \in [Tokens -> [Files -> [version : Nat, mtime : Nat] \cup {NoFile}]]
      BY <2>2 DEF TypeOK
    <3> DEFINE new == [tree[t] EXCEPT ![g] = NoFile]
    <3>3. new \in [Files -> [version : Nat, mtime : Nat] \cup {NoFile}]
      BY <3>2
    <3>4. tree' = tree \/ tree' = [tree EXCEPT ![t] = new]
      BY <3>1, <3>2
    <3>5. QED
      <4> HIDE DEF new
      <4>1. QED
        BY <3>2, <3>3, <3>4
  <2>4. discarded' \subseteq Nat
    <3> DEFINE t == req[th].token
               f == req[th].file
               g == req[th].dst
    <3>1. discarded' = discarded \/ discarded' = discarded \cup Overwritten(t, f, g)
      BY <1>7 DEF clear_dest
    <3>2. VersionAt(t, g) \subseteq Nat /\ discarded \subseteq Nat
      BY <2>2, Versions DEF TypeOK
    <3>3. Overwritten(t, f, g) \subseteq VersionAt(t, g)
      BY DEF Overwritten
    <3>4. QED
      BY <3>1, <3>2, <3>3
  <2>5. QED
    BY <1>0, <1>7, <2>1, <2>3, <2>4 DEF clear_dest, bounds, TypeOK
<1>8. CASE put_down(th)
  <2>1. Formed' /\ req' \in Requests
    BY <1>8, StepOfPutDown, FormedAtEnd DEF Ends, OthersStay
  <2>2. req[th].token \in Tokens /\ req[th].file \in Files
    BY <1>8, StepOfPutDown DEF Formed, Mints, Writes
  <2>3. tree' \in [Tokens -> [Files -> [version : Nat, mtime : Nat] \cup {NoFile}]]
    <3>1. tree[req[th].token] \in [Files -> [version : Nat, mtime : Nat] \cup {NoFile}]
      BY <2>2 DEF TypeOK
    <3>2. CASE req[th].file \in Held(req[th].token)
      <4> DEFINE t == req[th].token
                 f == req[th].file
                 vacated == IF req[th].op = "move" THEN {f} ELSE {}
                 placed == [h \in Files |-> IF h = req[th].dst THEN tree[t][f]
                                           ELSE IF h \in vacated THEN NoFile ELSE tree[t][h]]
      <4>1. placed \in [Files -> [version : Nat, mtime : Nat] \cup {NoFile}]
        BY <2>2, <3>1
      <4>2. tree' = [tree EXCEPT ![t] = placed]
        BY <1>8, <3>2 DEF put_down
      <4>3. QED
        <5> HIDE DEF placed
        <5>1. QED
          BY <4>1, <4>2 DEF TypeOK
    <3>3. CASE req[th].file \notin Held(req[th].token)
      BY <1>8, <3>3 DEF put_down, TypeOK
    <3>4. QED
      BY <3>2, <3>3
  <2>4. discarded' \subseteq Nat
    BY <1>8, <2>2, Versions DEF put_down, TypeOK
  <2>5. dirs' \subseteq Tokens /\ mtime' \in [Tokens -> Nat] /\ clock' \in Nat
    BY <1>8, <2>2, NowIsLater DEF put_down, MakeParents, TypeOK
  <2>6. QED
    BY <1>0, <1>8, <2>1, <2>3, <2>4, <2>5 DEF put_down, bounds, TypeOK
<1>9. CASE export_list(th)
  <2>1. Formed' /\ req' \in Requests
    BY <1>9, StepOfList, FormedGoingOn, FormedAtEnd DEF Proceeds, Ends, OthersStay
  <2>2. QED
    BY <1>0, <1>9, <2>1 DEF export_list, disk, history, bounds, TypeOK
<1>10. CASE export_copy(th)
  <2>1. Formed' /\ req' \in Requests
    BY <1>10, StepOfCopy, FormedGoingOn DEF Proceeds, OthersStay
  <2>2. host' \subseteq Files \X Nat
    <3>1. ASSUME NEW f \in Files PROVE {f} \X VersionAt(req[th].token, f) \subseteq Files \X Nat
      <4>1. \A v \in VersionAt(req[th].token, f) : v \in Nat
        BY <1>10, StepOfCopy, Versions DEF Formed, Mints
      <4>2. QED
        BY <4>1
    <3>2. QED
      BY <1>10, <3>1, StepOfCopy DEF TypeOK
  <2>3. QED
    BY <1>0, <1>10, <2>1, <2>2 DEF export_copy, disk, bounds, TypeOK
<1>11. CASE close_check(th)
  <2>1. Formed' /\ req' \in Requests
    BY <1>11, StepOfCheck, FormedGoingOn, FormedAtEnd DEF Proceeds, Ends, OthersStay
  <2>2. QED
    BY <1>0, <1>11, <2>1 DEF close_check, disk, history, bounds, TypeOK
<1>12. CASE close_remove(th)
  <2>1. Formed' /\ req' \in Requests
    BY <1>12, StepOfRemove, FormedGoingOn, FormedAtEnd DEF Proceeds, Ends, OthersStay
  <2>2. tree' \in [Tokens -> [Files -> [version : Nat, mtime : Nat] \cup {NoFile}]] /\ dirs' \subseteq Tokens
    BY <1>12, StepOfRemove, EmptyTyped DEF TypeOK
  <2>3. discarded' \subseteq Nat /\ lost' \subseteq Files \X Nat
    <3>1. req[th].token \in Tokens
      BY <1>12, StepOfRemove DEF Formed, Mints
    <3>2. Stored(req[th].token) \subseteq Nat /\ Placed(req[th].token) \subseteq Files \X Nat
      BY <3>1, Versions
    <3>3. discarded \subseteq Nat /\ lost \subseteq Files \X Nat
      BY DEF TypeOK
    <3>4. QED
      BY <1>12, <3>2, <3>3, StepOfRemove
  <2>4. QED
    BY <1>0, <1>12, <2>1, <2>2, <2>3 DEF close_remove, bounds, TypeOK
<1>13. CASE close_unlink(th)
  <2>1. Formed' /\ req' \in Requests
    BY <1>13, StepOfUnlink, FormedAtEnd DEF Ends, OthersStay
  <2>2. QED
    BY <1>0, <1>13, <2>1 DEF close_unlink, history, bounds, TypeOK
<1>14. CASE provision_scan(th)
  <2>1. Formed' /\ req' \in Requests /\ clock' \in {clock, Now}
    BY <1>14, StepOfScan, FormedGoingOn, FormedAtEnd DEF Match, Mints, Proceeds, Ends, OthersStay
  <2>2. QED
    BY <1>0, <1>14, <2>1, NowIsLater DEF provision_scan, disk, history, bounds, TypeOK
<1>15. CASE reap_ephemeral(th)
  <2>1. Formed' /\ req' \in Requests
    BY <1>15, StepOfSweep, FormedGoingOn DEF Mints, Proceeds, OthersStay
  <2>2. /\ tree' \in [Tokens -> [Files -> [version : Nat, mtime : Nat] \cup {NoFile}]]
        /\ dirs' \subseteq Tokens /\ lost' \subseteq Files \X Nat
    BY <1>15, Versions DEF reap_ephemeral, TypeOK, EmptyTree
  <2>3. QED
    BY <1>0, <1>15, <2>1, <2>2 DEF reap_ephemeral, bounds, TypeOK
<1>16. CASE reap_safety_net(th)
  <2>1. Formed' /\ req' \in Requests
    BY <1>16, StepOfReap, FormedGoingOn, FormedAtEnd DEF Known, TypeOK, Mints, Proceeds, Ends, OthersStay
  <2>2. QED
    BY <1>0, <1>16, <2>1 DEF reap_safety_net, disk, history, bounds, TypeOK
<1>17. CASE reap_remove(th)
  <2>1. Formed' /\ req' \in Requests
    BY <1>17, StepOfExpiry, FormedGoingOn DEF Proceeds, OthersStay
  <2>2. /\ tree' \in [Tokens -> [Files -> [version : Nat, mtime : Nat] \cup {NoFile}]]
        /\ dirs' \subseteq Tokens
    BY <1>17 DEF reap_remove, TypeOK, EmptyTree
  <2>3. Stored(req[th].token) \subseteq Nat /\ Placed(req[th].token) \subseteq Files \X Nat
    BY <1>17, StepOfExpiry, Versions DEF Formed
  <2>4. QED
    BY <1>0, <1>17, <2>1, <2>2, <2>3 DEF reap_remove, bounds, TypeOK
<1>18. CASE reap_forget(th)
  <2>1. Formed' /\ req' \in Requests
    BY <1>18, StepOfForget, FormedGoingOn DEF Mints, Proceeds, OthersStay
  <2>2. QED
    BY <1>0, <1>18, <2>1 DEF reap_forget, history, bounds, TypeOK
<1>19. CASE new_token(th)
  <2>1. Formed' /\ req' \in Requests
    BY <1>19, StepOfMint, FormedGoingOn, FormedAtEnd DEF Fresh, Mints, Proceeds, Ends, OthersStay
  <2>2. PICK t \in Fresh : /\ dirs' = dirs \cup {t}
                          /\ mtime' = [mtime EXCEPT ![t] = Now] /\ lastUse' = [lastUse EXCEPT ![t] = Now]
    BY <1>19, StepOfMint
  <2>3. dirs' \subseteq Tokens /\ mtime' \in [Tokens -> Nat] /\ lastUse' \in [Tokens -> Nat]
    BY <2>2, NowIsLater DEF Fresh, TypeOK
  <2>4. QED
    BY <1>0, <1>19, <2>1, <2>3, NowIsLater DEF new_token, bounds, TypeOK
<1>20. QED
  BY <1>1, <1>2, <1>3, <1>4, <1>5, <1>6, <1>7, <1>8, <1>9, <1>10, <1>11, <1>12, <1>13, <1>14,
     <1>15, <1>16, <1>17, <1>18, <1>19 DEF Work

LEMMA StepsKeepTypes == Typed /\ [Next]_vars => Typed'
<1> SUFFICES ASSUME Typed, [Next]_vars PROVE Typed'
  OBVIOUS
<1>1. ASSUME NEW th \in load.threads, Begin(th) \/ Work(th), load' = load
      PROVE  Typed'
  <2>1. th \in Threads
    BY Workers DEF Typed
  <2>2. QED
    BY <1>1, <2>1, BeginningKeepsTypes, WorkingKeepsTypes
<1>2. CASE idle /\ UNCHANGED load
  BY <1>2, CacheAssumption DEF idle, disk, history, Typed, TypeOK, Formed, Busy
<1>3. CASE crash /\ UNCHANGED load
  BY <1>3 DEF crash, disk, history, Typed, TypeOK, Formed, Busy
<1>4. CASE UNCHANGED vars
  BY <1>4 DEF vars, disk, history, bounds, Typed, TypeOK, Formed, Busy
<1>5. QED
  BY <1>1, <1>2, <1>3, <1>4 DEF Next

LEMMA AlwaysTyped == Spec => []Typed
BY TypeAtFirst, StepsKeepTypes, PTL DEF Spec

(* Directories, sidecars and requests keep the shape the code gives them:  *)
(* no step, kill or interleaving of the request handlers writes a tree, a  *)
(* record or a stamp of another kind.                                      *)
THEOREM TypeCorrect == Spec => []TypeOK
<1>1. Typed => TypeOK
  BY DEF Typed
<1>2. QED
  BY <1>1, AlwaysTyped, PTL

----------------------------------------------------------------------------
(* Uploads are accounted for *)

(* A version a PUT wrote is in a cache, on the host, given up or removed   *)
(* with its cache from the moment of writing, and stays so.                *)
Accounted == (UNION {Stored(t) : t \in Tokens}) \cup Exported \cup discarded \cup Removed
WritesAccounted ==
    \A th \in Threads : Busy(th) /\ req[th].op = "put" /\ req[th].at \in {"read", "open", "fill"} =>
        req[th].version \in Accounted
AccountInv == Typed /\ acked \subseteq Accounted /\ WritesAccounted

LEMMA InATree ==
    ASSUME NEW t \in Tokens, NEW f \in Files, tree[t][f] # NoFile
    PROVE  tree[t][f].version \in Accounted
BY DEF Accounted, Stored, Held

LEMMA NothingForgotten ==
    ASSUME discarded \subseteq discarded', host \subseteq host', lost \subseteq lost',
           \A t \in Tokens, f \in Files : tree[t][f] # NoFile => tree[t][f].version \in Accounted'
    PROVE  Accounted \subseteq Accounted'
BY DEF Accounted, Stored, Held, Exported, Removed

LEMMA InTheNextTree ==
    ASSUME NEW t \in Tokens, NEW f \in Files, tree'[t][f] # NoFile
    PROVE  tree'[t][f].version \in Accounted'
BY DEF Accounted, Stored, Held

LEMMA NothingMoves == UNCHANGED tree /\ discarded \subseteq discarded' /\ host \subseteq host' /\ lost \subseteq lost'
                      => Accounted \subseteq Accounted'
BY NothingForgotten, InTheNextTree

(* What a removal empties is given up or counted as lost.                  *)
LEMMA RemovalRecords ==
    ASSUME NEW t \in Tokens, NEW f \in Files, tree[t][f] # NoFile,
           Stored(t) \subseteq discarded' \/ Placed(t) \subseteq lost'
    PROVE  tree[t][f].version \in Accounted'
<1>1. tree[t][f].version \in Stored(t) /\ <<f, tree[t][f].version>> \in Placed(t)
  BY DEF Stored, Placed, Held
<1>2. CASE Stored(t) \subseteq discarded'
  BY <1>1, <1>2 DEF Accounted
<1>3. CASE Placed(t) \subseteq lost'
  <2>1. <<f, tree[t][f].version>>[2] \in Removed'
    BY <1>1, <1>3 DEF Removed
  <2>2. QED
    BY <2>1 DEF Accounted
<1>4. QED
  BY <1>2, <1>3

LEMMA NothingLostByWrites ==
    ASSUME Typed, NEW th \in Threads, put_write(th) \/ dav_delete(th) \/ clear_dest(th) \/ put_down(th)
    PROVE  Accounted \subseteq Accounted'
<1> DEFINE t == req[th].token
           f == req[th].file
           g == req[th].dst
<1> SUFFICES ASSUME NEW u \in Tokens, NEW h \in Files, tree[u][h] # NoFile
             PROVE  tree[u][h].version \in Accounted'
  BY NothingForgotten DEF put_write, dav_delete, clear_dest, put_down
<1>1. tree[u][h].version \in VersionAt(u, h)
  BY DEF VersionAt, Held
<1>2. tree'[u][h] = tree[u][h] => tree[u][h].version \in Accounted'
  BY InTheNextTree
<1>3. CASE put_write(th) \/ dav_delete(th)
  <2>1. t \in Tokens /\ f \in Files
    BY <1>3, StepOfPut, StepOfDelete DEF Typed, Formed, Mints, Writes
  <2>2. VersionAt(t, f) \subseteq discarded'
    BY <1>3 DEF put_write, dav_delete
  <2>3. CASE u = t /\ h = f
    BY <1>1, <2>2, <2>3 DEF Accounted
  <2>4. CASE ~ (u = t /\ h = f)
    <3>1. \E new : tree' = [tree EXCEPT ![t][f] = new]
      BY <1>3 DEF put_write, dav_delete
    <3>2. tree'[u][h] = tree[u][h]
      BY <2>1, <2>4, <3>1 DEF Typed, TypeOK
    <3>3. QED
      BY <1>2, <3>2
  <2>5. QED
    BY <2>3, <2>4
<1>4. CASE clear_dest(th)
  <2>1. t \in Tokens /\ f \in Files /\ g \in Files
    BY <1>4, StepOfClear DEF Typed, Formed, Mints, Writes
  <2>3. CASE tree' = tree
    BY <1>2, <2>3
  <2>4. CASE /\ f \in Held(t) /\ tree' = [tree EXCEPT ![t][g] = NoFile]
             /\ discarded' = discarded \cup Overwritten(t, f, g)
    <3>0. CASE u = t /\ h = g /\ f = g
      BY <1>1, <2>4, <3>0 DEF Accounted, Overwritten
    <3>1. CASE u = t /\ h = g /\ f # g
      <4>1. tree'[t][f] = tree[t][f] /\ tree'[t][f] # NoFile
        BY <2>1, <2>4, <3>1 DEF Typed, TypeOK, Held
      <4>2. \A v \in VersionAt(t, f) : v \in Accounted'
        BY <2>1, <4>1, InTheNextTree DEF VersionAt
      <4>3. QED
        BY <1>1, <2>4, <3>1, <4>2 DEF Accounted, Overwritten
    <3>2. CASE ~ (u = t /\ h = g)
      <4>1. tree'[u][h] = tree[u][h]
        BY <2>1, <2>4, <3>2 DEF Typed, TypeOK
      <4>2. QED
        BY <1>2, <4>1
    <3>3. QED
      BY <3>0, <3>1, <3>2
  <2>5. QED
    BY <1>4, <2>3, <2>4 DEF clear_dest
<1>5. CASE put_down(th)
  <2>1. t \in Tokens /\ f \in Files /\ g \in Files
    BY <1>5, StepOfPutDown DEF Typed, Formed, Mints, Writes
  <2> DEFINE vacated == IF req[th].op = "move" THEN {f} ELSE {}
             placed == [k \in Files |-> IF k = g THEN tree[t][f] ELSE IF k \in vacated THEN NoFile ELSE tree[t][k]]
  <2>2. CASE tree' = tree
    BY <1>2, <2>2
  <2>3. CASE /\ f \in Held(t) /\ tree' = [tree EXCEPT ![t] = placed]
             /\ discarded' = discarded \cup (VersionAt(t, g) \ VersionAt(t, f))
    <3>1. tree'[t] = placed /\ (u # t => tree'[u] = tree[u])
      <4> HIDE DEF placed
      <4>1. QED
        BY <2>1, <2>3 DEF Typed, TypeOK
    <3>2. tree'[t][g] = tree[t][f] /\ tree[t][f] # NoFile
      BY <2>1, <2>3, <3>1 DEF Held
    <3>3. \A v \in VersionAt(t, f) : v \in Accounted'
      BY <2>1, <3>2, InTheNextTree DEF VersionAt
    <3>4. CASE u = t /\ h = g
      BY <1>1, <2>3, <3>3, <3>4 DEF Accounted
    <3>5. CASE u = t /\ h = f
      BY <1>1, <3>3, <3>5
    <3>6. CASE u # t \/ h \notin {f, g}
      <4>1. tree'[u][h] = tree[u][h]
        BY <3>1, <3>6
      <4>2. QED
        BY <1>2, <4>1
    <3>7. QED
      BY <3>4, <3>5, <3>6
  <2>4. QED
    BY <1>5, <2>2, <2>3 DEF put_down
<1>6. QED
  BY <1>3, <1>4, <1>5

LEMMA NothingLostByRemovals ==
    ASSUME Typed, NEW th \in Threads, close_remove(th) \/ reap_ephemeral(th) \/ reap_remove(th)
    PROVE  Accounted \subseteq Accounted'
<1> DEFINE t == req[th].token
<1>0. discarded \subseteq discarded' /\ host' = host /\ lost \subseteq lost'
  BY StepOfRemove DEF Typed, close_remove, reap_ephemeral, reap_remove
<1> SUFFICES ASSUME NEW u \in Tokens, NEW h \in Files, tree[u][h] # NoFile
             PROVE  tree[u][h].version \in Accounted'
  BY <1>0, NothingForgotten
<1>1. tree'[u] = tree[u] => tree[u][h].version \in Accounted'
  BY InTheNextTree
<1>2. CASE close_remove(th)
  <2>1. CASE tree' = tree
    BY <1>1, <2>1
  <2>2. CASE /\ tree' = [tree EXCEPT ![t] = EmptyTree]
             /\ discarded' = discarded \cup (IF req[th].force THEN Stored(t) ELSE {})
             /\ lost' = lost \cup (IF req[th].force THEN {} ELSE Placed(t))
    <3>1. Stored(t) \subseteq discarded' \/ Placed(t) \subseteq lost'
      BY <2>2
    <3>2. u # t => tree'[u] = tree[u]
      BY <2>2 DEF Typed, TypeOK
    <3>3. QED
      BY <1>1, <3>1, <3>2, RemovalRecords
  <2>3. QED
    BY <1>2, <2>1, <2>2 DEF close_remove
<1>3. CASE reap_ephemeral(th)
  <2> DEFINE Stale == {s \in dirs : meta[s] = NoMeta /\ Now - mtime[s] > TOKEN_TTL}
  <2>1. tree'[u] = IF u \in Stale THEN EmptyTree ELSE tree[u]
    BY <1>3 DEF reap_ephemeral
  <2>2. lost' = lost \cup UNION {Placed(s) : s \in Stale}
    BY <1>3 DEF reap_ephemeral
  <2>3. CASE u \in Stale
    <3> HIDE DEF Stale
    <3>1. Placed(u) \subseteq lost'
      BY <2>2, <2>3
    <3>2. QED
      BY <3>1, RemovalRecords
  <2>4. CASE u \notin Stale
    BY <1>1, <2>1, <2>4
  <2>5. QED
    BY <2>3, <2>4
<1>4. CASE reap_remove(th)
  <2>1. Stored(t) \subseteq discarded' \/ Placed(t) \subseteq lost'
    BY <1>4 DEF reap_remove
  <2>2. u # t => tree'[u] = tree[u]
    BY <1>4 DEF reap_remove, Typed, TypeOK
  <2>3. QED
    BY <1>1, <2>1, <2>2, RemovalRecords
<1>5. QED
  BY <1>2, <1>3, <1>4

LEMMA NothingLost ==
    ASSUME Typed, NEW th \in Threads, Work(th)
    PROVE  Accounted \subseteq Accounted'
<1>1. CASE put_write(th) \/ dav_delete(th) \/ clear_dest(th) \/ put_down(th)
  BY <1>1, NothingLostByWrites
<1>2. CASE close_remove(th) \/ reap_ephemeral(th) \/ reap_remove(th)
  BY <1>2, NothingLostByRemovals
<1>3. CASE touch_cache(th) \/ mark_exported(th) \/ open_meta(th) \/ fill_meta(th)
  BY <1>3, NothingMoves DEF touch_cache, mark_exported, open_meta, fill_meta, history
<1>4. CASE export_list(th) \/ export_copy(th) \/ close_check(th) \/ close_unlink(th)
  BY <1>4, NothingMoves DEF export_list, export_copy, close_check, close_unlink, disk, history
<1>5. CASE provision_scan(th) \/ reap_safety_net(th) \/ reap_forget(th) \/ new_token(th)
  BY <1>5, NothingMoves DEF provision_scan, reap_safety_net, reap_forget, new_token, disk, history
<1>6. QED
  BY <1>1, <1>2, <1>3, <1>4, <1>5 DEF Work

Written(th) == Busy(th) /\ req[th].op = "put" /\ req[th].at \in {"read", "open", "fill"}

LEMMA WritesStay ==
    ASSUME AccountInv, NEW th \in Threads, OthersStay(th), Accounted \subseteq Accounted',
           Written(th)' => req'[th].version \in Accounted'
    PROVE  WritesAccounted'
BY DEF AccountInv, WritesAccounted, Written, OthersStay, Busy

(* A PUT on its way to its answer keeps the version it wrote; no other     *)
(* request becomes one.                                                    *)
LEMMA WorkingKeepsWrites ==
    ASSUME AccountInv, NEW th \in Threads, Work(th), Accounted \subseteq Accounted'
    PROVE  WritesAccounted'
<1>1. TypeOK
  BY DEF AccountInv, Typed
<1>2. ASSUME Ends(th) PROVE WritesAccounted'
  BY <1>2, WritesStay DEF Ends, Written, Busy
<1>3. ASSUME NEW step, Proceeds(th, step), req[th].op # "put" PROVE WritesAccounted'
  BY <1>3, WritesStay DEF Proceeds, Same, Written
<1>4. ASSUME NEW step, Busy(th), Proceeds(th, step), req[th].at \in {"read", "open"}, req'[th].version = req[th].version
      PROVE  WritesAccounted'
  <2>1. req[th].op = "put" => req[th].version \in Accounted
    BY <1>4 DEF AccountInv, WritesAccounted
  <2>2. QED
    BY <1>4, <2>1, WritesStay DEF Proceeds, Same, Written
<1>5. CASE touch_cache(th) \/ mark_exported(th) \/ open_meta(th) \/ fill_meta(th)
  BY <1>1, <1>2, <1>4, <1>5, StepOfTouch, StepOfMark, StepOfOpen, StepOfFill
<1>6. CASE put_write(th)
  <2>1. req[th].token \in Tokens /\ req[th].file \in Files
    BY <1>1, <1>6, StepOfPut DEF AccountInv, Typed, Formed, Mints, Writes
  <2>2. tree'[req[th].token][req[th].file] = [version |-> Now, mtime |-> Now]
    BY <1>1, <1>6, <2>1 DEF put_write, TypeOK
  <2>3. [version |-> Now, mtime |-> Now] # NoFile
    BY DEF NoFile
  <2>4. Now \in Accounted'
    <3>1. tree'[req[th].token][req[th].file].version \in Accounted'
      BY <2>1, <2>2, <2>3, InTheNextTree
    <3>2. QED
      BY <2>2, <3>1
  <2>5. QED
    BY <1>1, <1>6, <2>4, StepOfPut, WritesStay DEF Proceeds
<1>7. CASE dav_delete(th) \/ clear_dest(th) \/ put_down(th) \/ export_list(th) \/ export_copy(th)
  BY <1>1, <1>2, <1>3, <1>7, StepOfDelete, StepOfClear, StepOfPutDown, StepOfList, StepOfCopy
<1>8. CASE close_check(th) \/ close_remove(th) \/ close_unlink(th)
  BY <1>1, <1>2, <1>3, <1>8, StepOfCheck, StepOfRemove, StepOfUnlink
<1>9. CASE provision_scan(th) \/ reap_ephemeral(th) \/ reap_safety_net(th)
  BY <1>1, <1>2, <1>3, <1>9, StepOfScan, StepOfSweep, StepOfReap
<1>10. CASE reap_remove(th) \/ reap_forget(th) \/ new_token(th)
  BY <1>1, <1>2, <1>3, <1>10, StepOfExpiry, StepOfForget, StepOfMint
<1>11. QED
  BY <1>5, <1>6, <1>7, <1>8, <1>9, <1>10 DEF Work

LEMMA BeginningKeepsWrites ==
    ASSUME AccountInv, NEW th \in load.threads, Begin(th)
    PROVE  WritesAccounted' /\ Accounted \subseteq Accounted' /\ acked' = acked
<1>1. TypeOK /\ th \in Threads /\ load.subjects \subseteq Subjects
  BY Workers DEF AccountInv, Typed
<1>2. ASSUME NEW op \in Op, NEW t, NEW s, NEW f, NEW g, NEW force, req'[th] = Asked(op, t, s, f, g, force),
             OthersStay(th), tree' = tree, discarded' = discarded, host' = host, lost' = lost, acked' = acked
      PROVE  WritesAccounted' /\ Accounted \subseteq Accounted' /\ acked' = acked
  <2>1. Accounted \subseteq Accounted'
    BY <1>2, NothingMoves
  <2>2. req'[th].at = FirstStep[op] /\ req'[th].op = op
    BY <1>2 DEF Asked
  <2>3. op = "put" => FirstStep[op] = "write"
    BY DEF FirstStep
  <2>4. ~ Written(th)'
    BY <2>2, <2>3 DEF Written
  <2>5. QED
    BY <1>1, <1>2, <2>1, <2>4, WritesStay
<1>3. ASSUME NEW t \in Tokens, NEW op \in Op \ {"provision", "stage"}, NEW f \in Files \cup {None},
             NEW g \in Files \cup {None}, NEW force \in BOOLEAN, dispatch(th, op, t, f, g, force)
      PROVE  WritesAccounted' /\ Accounted \subseteq Accounted' /\ acked' = acked
  <2>1. req'[th] = Asked(op, t, meta[t].subject, f, g, force) /\ OthersStay(th) /\ op \in Op
    BY <1>1, <1>3, StepOfDispatch
  <2>2. tree' = tree /\ discarded' = discarded /\ host' = host /\ lost' = lost /\ acked' = acked
    BY <1>3 DEF dispatch
  <2>3. QED
    BY <1>2, <2>1, <2>2
<1>4. ASSUME NEW s \in load.subjects, NEW op \in {"provision", "stage"}, begin_minting(th, op, s)
      PROVE  WritesAccounted' /\ Accounted \subseteq Accounted' /\ acked' = acked
  <2>1. req'[th] = Asked(op, None, s, None, None, FALSE) /\ OthersStay(th) /\ op \in Op
    BY <1>1, <1>4, StepOfMinting DEF Op
  <2>2. tree' = tree /\ discarded' = discarded /\ host' = host /\ lost' = lost /\ acked' = acked
    BY <1>4 DEF begin_minting, disk, history
  <2>3. QED
    BY <1>2, <2>1, <2>2
<1>5. \A p \in Targets : p[1] \in Files /\ p[2] \in Files
  BY CacheAssumption
<1>6. {"put", "delete", "move", "copy", "export", "close"} \subseteq Op \ {"provision", "stage"} /\ FALSE \in BOOLEAN
  BY DEF Op
<1>7. QED
  BY <1>3, <1>4, <1>5, <1>6 DEF Begin

LEMMA AccountAtFirst == Init => AccountInv
BY TypeAtFirst DEF Init, AccountInv, WritesAccounted, Busy

LEMMA StepsKeepAccount ==
    ASSUME AccountInv, [Next]_vars
    PROVE  AccountInv'
<1>1. Typed'
  BY StepsKeepTypes DEF AccountInv
<1>2. ASSUME NEW th \in load.threads, Begin(th)
      PROVE  AccountInv'
  BY <1>1, <1>2, BeginningKeepsWrites DEF AccountInv
<1>3. ASSUME NEW th \in load.threads, Work(th)
      PROVE  AccountInv'
  <2>1. th \in Threads /\ Typed /\ TypeOK
    BY Workers DEF AccountInv, Typed
  <2>2. Accounted \subseteq Accounted'
    BY <1>3, <2>1, NothingLost
  <2>3. WritesAccounted'
    BY <1>3, <2>1, <2>2, WorkingKeepsWrites
  <2>4. CASE fill_meta(th)
    <3>1. req[th].op = "put" => req[th].version \in Accounted
      BY <2>1, <2>4, StepOfFill DEF AccountInv, WritesAccounted
    <3>2. acked' = acked \cup (IF req[th].op = "put" THEN {req[th].version} ELSE {})
      BY <2>4 DEF fill_meta
    <3>3. QED
      BY <1>1, <2>2, <2>3, <3>1, <3>2 DEF AccountInv
  <2>5. CASE ~ fill_meta(th)
    <3>1. acked' = acked
      BY <1>3, <2>5 DEF Work, touch_cache, mark_exported, open_meta, put_write, dav_delete, clear_dest, put_down,
         export_list, export_copy, close_check, close_remove, close_unlink, provision_scan, reap_ephemeral,
         reap_safety_net, reap_remove, reap_forget, new_token, history
    <3>2. QED
      BY <1>1, <2>2, <2>3, <3>1 DEF AccountInv
  <2>6. QED
    BY <2>4, <2>5
<1>4. CASE idle
  BY <1>1, <1>4, NothingMoves DEF idle, disk, history, AccountInv, WritesAccounted, Busy
<1>5. CASE crash
  BY <1>1, <1>5, NothingMoves DEF crash, disk, history, AccountInv, WritesAccounted, Busy
<1>6. CASE UNCHANGED vars
  BY <1>1, <1>6, NothingMoves DEF vars, disk, history, AccountInv, WritesAccounted, Busy
<1>7. QED
  BY <1>2, <1>3, <1>4, <1>5, <1>6 DEF Next

(* However PUT, DELETE, MOVE, COPY, export, close and the reaper overlap   *)
(* and wherever the server is killed, a version answered 201 is in a cache,*)
(* on the host, removed from its path by a client's request, or removed    *)
(* with its cache, for any number of threads, tokens and paths.  A MOVE or *)
(* COPY of a path onto itself is one of the requests that remove.          *)
THEOREM UploadsAreAccountedFor == Spec => []UploadsAccountedFor
<1>1. AccountInv => UploadsAccountedFor
  BY DEF AccountInv, Accounted, UploadsAccountedFor
<1>2. AccountInv /\ [Next]_vars => AccountInv'
  BY StepsKeepAccount
<1>3. QED
  BY <1>1, <1>2, AccountAtFirst, PTL DEF Spec

----------------------------------------------------------------------------
(* One request at a time *)

(* What holds of the caches between any two steps, when requests come one  *)
(* at a time.                                                              *)
One == \A t, u \in Tokens : Known(t) /\ Known(u) /\ meta[t].subject = meta[u].subject => t = u
CleanUnder(t, exported) ==
    \A f \in Files : tree[t][f] # NoFile /\ exported # Never /\ tree[t][f].mtime <= exported =>
        tree[t][f].version \in Exported
Clean == \A t \in Tokens : meta[t] \in CacheMeta => CleanUnder(t, meta[t].exported)
Bare == \A t \in Tokens : t \notin dirs \/ meta[t] = NoMeta => \A f \in Files : tree[t][f] = NoFile
Stamped ==
    \A t \in Tokens : lastUse[t] <= clock /\ (meta[t] \in CacheMeta => meta[t].exported <= clock)
InUse == \A t \in Tokens : meta[t] \in CacheMeta => lastUse[t] <= mtime[t] \/ lastUse[t] <= meta[t].used
Recorded == Removed \subseteq Exported \cup discarded
Still == One /\ Clean /\ Bare /\ Stamped /\ InUse /\ Recorded

(* What a request relies on at the step it has come to.                    *)
Alive(th) == Known(req[th].token)
Ready(th) ==
    LET record == req[th].record IN
    /\ \A u \in Tokens \ {req[th].token} : Known(u) => meta[u].subject # record.subject
    /\ CleanUnder(req[th].token, record.exported)
    /\ record.used <= clock /\ record.exported <= clock
Copied(th, paths) ==
    \A f \in Files \ paths : tree[req[th].token][f] # NoFile => tree[req[th].token][f].version \in Exported
Empty(th) == req[th].token \in Tokens /\ \A f \in Files : tree[req[th].token][f] = NoFile
Searched(th) == req[th].op = "provision" => Match(req[th].subject) = {}
AtWork(th) ==
    /\ req[th].at \in {"write", "delete", "clear", "put_down"} => Alive(th)
    /\ req[th].at \in {"open", "fill"} => Ready(th)
    /\ req[th].at = "copy" => Copied(th, req[th].paths)
    /\ req[th].at = "read" /\ req[th].op = "export" => Copied(th, {})
    /\ req[th].at = "remove" => MayClose(req[th].token, req[th].force)
    /\ req[th].at \in {"unlink", "forget"} => Empty(th)
    /\ req[th].at = "expire" => Alive(th) /\ Idle(req[th].token)
    /\ req[th].at \in {"sweep", "reap", "expire", "forget", "mint"} => Searched(th)

Loaded == \A th \in Threads : Busy(th) => th \in load.threads
Working == \A th \in Threads : Busy(th) => AtWork(th)
AloneInv == Typed /\ Loaded /\ (Alone => Still /\ Working)

Sole(th) == \A u \in Threads \ {th} : ~ Busy(u)

LEMMA StillWorking ==
    ASSUME NEW th \in Threads, Sole(th), OthersStay(th), Busy(th)' => AtWork(th)'
    PROVE  Working'
BY DEF Sole, OthersStay, Working, Busy

LEMMA WorkEnds ==
    ASSUME NEW th \in Threads, Sole(th), Ends(th)
    PROVE  Working'
BY StillWorking DEF Ends, Busy

LEMMA WorkProceeds ==
    ASSUME NEW th \in Threads, Sole(th), NEW step, Proceeds(th, step), AtWork(th)'
    PROVE  Working'
BY StillWorking DEF Proceeds

LEMMA SearchedStays ==
    ASSUME NEW th \in Threads, Searched(th), NEW step, Proceeds(th, step),
           \A u \in Tokens : Known(u)' => Known(u) /\ meta'[u].subject = meta[u].subject
    PROVE  Searched(th)'
<1>1. req'[th].op = req[th].op /\ req'[th].subject = req[th].subject
  BY DEF Proceeds, Same
<1>2. QED
  BY <1>1 DEF Searched, Match

LEMMA ExportedGrows == host \subseteq host' => Exported \subseteq Exported'
BY DEF Exported

(* Steps that touch neither trees nor sidecars nor directories.            *)
LEMMA DiskStays ==
    ASSUME TypeOK, TypeOK', Still, UNCHANGED <<dirs, tree, meta, lastUse, lost, discarded>>, host \subseteq host',
           clock <= clock', mtime' = mtime \/ \E t \in Tokens : mtime' = [mtime EXCEPT ![t] = Now]
    PROVE  Still'
<1>1. Exported \subseteq Exported'
  BY ExportedGrows
<1>2. One'
  BY DEF Still, One, Known
<1>3. Clean'
  BY <1>1 DEF Still, Clean, CleanUnder
<1>4. Bare' /\ Recorded'
  BY <1>1 DEF Still, Bare, Recorded, Removed
<1>5. Stamped'
  <2>1. \A t \in Tokens : lastUse[t] \in Nat /\ (meta[t] \in CacheMeta => meta[t].exported \in Nat) /\ clock \in Nat /\ clock' \in Nat
    BY DEF TypeOK, CacheMeta
  <2>2. QED
    BY <2>1 DEF Still, Stamped
<1>6. InUse'
  <2>1. \A t \in Tokens : lastUse[t] \in Nat /\ clock \in Nat /\ lastUse[t] <= clock
    BY DEF TypeOK, Still, Stamped
  <2>2. \A t \in Tokens : mtime'[t] = mtime[t] \/ mtime'[t] = Now
    BY DEF TypeOK
  <2>3. QED
    BY <2>1, <2>2 DEF Still, InUse, Now
<1>7. QED
  BY <1>2, <1>3, <1>4, <1>5, <1>6 DEF Still

LEMMA Facts ==
    ASSUME TypeOK, NEW t \in Tokens
    PROVE  /\ clock \in Nat /\ clock < Now /\ lastUse[t] \in Nat /\ mtime[t] \in Nat
           /\ meta[t] \in CacheMeta => meta[t].used \in Nat /\ meta[t].exported \in Nat /\ meta[t].subject \in Subjects
           /\ \A f \in Files : tree[t][f] # NoFile => tree[t][f].version \in Nat /\ tree[t][f].mtime \in Nat
BY NowIsLater DEF TypeOK, CacheMeta

LEMMA MadeReady ==
    ASSUME NEW th \in Threads, NEW t \in Tokens, NEW r \in CacheMeta,
           req'[th].at = "open", req'[th].token = t, req'[th].record = r,
           tree' = tree, meta' = meta, host' = host, dirs' \subseteq dirs \cup {t},
           \A u \in Tokens \ {t} : Known(u) => meta[u].subject # r.subject,
           CleanUnder(t, r.exported), r.used <= clock', r.exported <= clock'
    PROVE  AtWork(th)'
<1>1. \A u \in Tokens \ {t} : Known(u)' => Known(u)
  BY DEF Known
<1>2. CleanUnder(t, r.exported)'
  BY DEF CleanUnder, Exported
<1>3. Ready(th)'
  BY <1>1, <1>2 DEF Ready
<1>4. QED
  BY <1>3 DEF AtWork

LEMMA AloneTouch ==
    ASSUME TypeOK, Formed, TypeOK', Still, NEW th \in Threads, Sole(th), touch_cache(th)
    PROVE  Still' /\ Working'
<1> DEFINE t == req[th].token
           r == [meta[t] EXCEPT !.used = Now]
<1>1. t \in Tokens /\ Busy(th)
  BY StepOfTouch DEF Formed, Mints
<1>2. UNCHANGED <<dirs, tree, meta, host, lastUse, lost, discarded>> /\ clock' = Now
  BY DEF touch_cache, history
<1>3. Still'
  <2>1. clock <= clock'
    BY <1>2, NowIsLater DEF TypeOK
  <2>2. mtime' = mtime \/ mtime' = [mtime EXCEPT ![t] = Now]
    BY StepOfTouch
  <2>3. QED
    BY <1>1, <1>2, <2>1, <2>2, DiskStays
<1>4. CASE Known(t) /\ Proceeds(th, "open") /\ req'[th].record = r /\ r \in CacheMeta /\ req'[th].token = t
  <2>1. r.used = Now /\ r.subject = meta[t].subject /\ r.exported = meta[t].exported
    BY <1>4, NowIsLater, Rewritten DEF Known
  <2>2. CleanUnder(t, r.exported)
    BY <1>1, <1>4, <2>1 DEF Still, Clean, Known
  <2>3. \A u \in Tokens \ {t} : Known(u) => meta[u].subject # r.subject
    BY <1>1, <1>4, <2>1 DEF Still, One
  <2>4. r.used <= clock' /\ r.exported <= clock'
    <3>1. r.exported <= clock /\ r.exported \in Nat /\ clock \in Nat /\ clock < Now
      BY <1>1, <1>4, <2>1, Facts DEF Still, Stamped, Known
    <3>2. QED
      BY <1>2, <2>1, <3>1, NowIsLater
  <2>5. req'[th].at = "open"
    BY <1>4 DEF Proceeds
  <2>6. AtWork(th)'
    <3> HIDE DEF r
    <3>1. QED
      BY <1>1, <1>2, <1>4, <2>2, <2>3, <2>4, <2>5, MadeReady
  <2>7. QED
    BY <1>3, <1>4, <2>6, WorkProceeds
<1>5. CASE Ends(th)
  BY <1>3, <1>5, WorkEnds
<1>6. QED
  BY <1>4, <1>5, StepOfTouch

LEMMA AloneMark ==
    ASSUME TypeOK, Formed, TypeOK', Still, NEW th \in Threads, Sole(th), AtWork(th), mark_exported(th)
    PROVE  Still' /\ Working'
<1> DEFINE t == req[th].token
           r == [meta[t] EXCEPT !.used = Now, !.exported = Now]
<1>1. t \in Tokens /\ Busy(th) /\ req[th].at = "read" /\ req[th].op = "export"
  BY StepOfMark DEF Formed, Mints
<1>2. UNCHANGED <<dirs, tree, meta, host, lastUse, lost, discarded>> /\ clock' = Now
  BY DEF mark_exported, history
<1>3. Still'
  <2>1. clock <= clock'
    BY <1>2, NowIsLater DEF TypeOK
  <2>2. mtime' = mtime \/ mtime' = [mtime EXCEPT ![t] = Now]
    BY StepOfMark
  <2>3. QED
    BY <1>1, <1>2, <2>1, <2>2, DiskStays
<1>4. CASE Known(t) /\ Proceeds(th, "open") /\ req'[th].record = r /\ r \in CacheMeta /\ req'[th].token = t
  <2>1. r.used = Now /\ r.subject = meta[t].subject /\ r.exported = Now
    BY <1>4, NowIsLater, Rewritten DEF Known
  <2>2. CleanUnder(t, r.exported)
    BY <1>1 DEF AtWork, Copied, CleanUnder
  <2>3. \A u \in Tokens \ {t} : Known(u) => meta[u].subject # r.subject
    BY <1>1, <1>4, <2>1 DEF Still, One
  <2>4. r.used <= clock' /\ r.exported <= clock'
    BY <1>2, <2>1, NowIsLater
  <2>5. req'[th].at = "open"
    BY <1>4 DEF Proceeds
  <2>6. AtWork(th)'
    <3> HIDE DEF r
    <3>1. QED
      BY <1>1, <1>2, <1>4, <2>2, <2>3, <2>4, <2>5, MadeReady
  <2>7. QED
    BY <1>3, <1>4, <2>6, WorkProceeds
<1>5. CASE Ends(th)
  BY <1>3, <1>5, WorkEnds
<1>6. QED
  BY <1>4, <1>5, StepOfMark

(* A sidecar truncated, or gone with nothing left in its directory.        *)
LEMMA SidecarGone ==
    ASSUME TypeOK, Still, NEW t \in Tokens, NEW m \in {NoMeta, Torn}, meta' = [meta EXCEPT ![t] = m],
           UNCHANGED <<dirs, tree, mtime, clock, host, lastUse, lost, discarded>>,
           m = NoMeta => \A f \in Files : tree[t][f] = NoFile
    PROVE  Still'
<1>1. meta'[t] = m /\ m \notin CacheMeta /\ (m = NoMeta \/ m # NoMeta) /\ \A u \in Tokens \ {t} : meta'[u] = meta[u]
  BY SidecarsDiffer DEF TypeOK
<1>2. \A u \in Tokens : meta'[u] \in CacheMeta => u # t /\ meta[u] \in CacheMeta /\ meta'[u] = meta[u]
  BY <1>1
<1>3. One'
  BY <1>2 DEF Still, One, Known
<1>4. Clean'
  BY <1>2 DEF Still, Clean, CleanUnder, Exported
<1>5. Bare'
  BY <1>1 DEF Still, Bare
<1>6. Stamped' /\ InUse'
  BY <1>2 DEF Still, Stamped, InUse
<1>7. Recorded'
  BY DEF Still, Recorded, Removed, Exported
<1>8. QED
  BY <1>3, <1>4, <1>5, <1>6, <1>7 DEF Still

LEMMA AloneOpen ==
    ASSUME TypeOK, Formed, Still, NEW th \in Threads, Sole(th), AtWork(th), open_meta(th)
    PROVE  Still' /\ Working'
<1> DEFINE t == req[th].token
           r == req[th].record
<1>1. t \in Tokens /\ r \in CacheMeta /\ Busy(th) /\ req[th].at = "open" /\ Proceeds(th, "fill")
  BY StepOfOpen DEF Formed
<1>2. meta' = [meta EXCEPT ![t] = Torn] /\ UNCHANGED <<dirs, tree, mtime, clock, host, lastUse, lost, discarded>>
  BY DEF open_meta, history
<1>3. Still'
  BY <1>1, <1>2, SidecarGone, SidecarsDiffer
<1>4. req'[th].token = t /\ req'[th].record = r
  BY StepOfOpen
<1>5. Ready(th)
  BY <1>1 DEF AtWork
<1>6. \A u \in Tokens \ {t} : Known(u)' => Known(u) /\ meta'[u] = meta[u]
  BY <1>1, <1>2 DEF Known, TypeOK
<1>7. CleanUnder(t, r.exported)'
  BY <1>1, <1>2, <1>4, <1>5 DEF Ready, CleanUnder, Exported
<1>8. Ready(th)'
  BY <1>2, <1>4, <1>5, <1>6, <1>7 DEF Ready
<1>9. AtWork(th)'
  BY <1>1, <1>8 DEF Proceeds, AtWork
<1>10. QED
  BY <1>1, <1>3, <1>9, WorkProceeds

LEMMA AloneFill ==
    ASSUME TypeOK, Formed, Still, NEW th \in Threads, Sole(th), AtWork(th), fill_meta(th)
    PROVE  Still' /\ Working'
<1> DEFINE t == req[th].token
           r == req[th].record
<1>1. t \in Tokens /\ r \in CacheMeta /\ Busy(th) /\ req[th].at = "fill" /\ Ends(th)
  BY StepOfFill DEF Formed
<1>2. /\ meta' = [meta EXCEPT ![t] = r] /\ lastUse' = [lastUse EXCEPT ![t] = r.used]
      /\ UNCHANGED <<dirs, tree, mtime, clock, host, lost, discarded>>
  BY DEF fill_meta
<1>3. Ready(th)
  BY <1>1 DEF AtWork
<1>4. meta'[t] = r /\ r # NoMeta /\ lastUse'[t] = r.used
  BY <1>1, <1>2, SidecarsDiffer DEF TypeOK
<1>5. \A u \in Tokens \ {t} : meta'[u] = meta[u] /\ lastUse'[u] = lastUse[u] /\ (Known(u)' <=> Known(u))
  BY <1>1, <1>2 DEF TypeOK, Known
<1>6. One'
  <2>1. \A u \in Tokens \ {t} : Known(u)' => meta'[u].subject # meta'[t].subject
    BY <1>3, <1>4, <1>5 DEF Ready
  <2>2. QED
    BY <1>5, <2>1 DEF Still, One
<1>7. Clean'
  <2>1. CleanUnder(t, r.exported)
    BY <1>3 DEF Ready
  <2>2. QED
    BY <1>2, <1>4, <1>5, <2>1 DEF Still, Clean, CleanUnder, Exported
<1>8. Bare'
  BY <1>2, <1>4, <1>5 DEF Still, Bare
<1>9. Stamped'
  BY <1>2, <1>3, <1>4, <1>5 DEF Still, Stamped, Ready
<1>10. InUse'
  <2>1. lastUse'[t] <= meta'[t].used
    BY <1>1, <1>4 DEF CacheMeta
  <2>2. QED
    BY <1>2, <1>5, <2>1 DEF Still, InUse
<1>11. Recorded'
  BY <1>2 DEF Still, Recorded, Removed, Exported
<1>12. QED
  BY <1>1, <1>6, <1>7, <1>8, <1>9, <1>10, <1>11, WorkEnds DEF Still

LEMMA AloneUnlink ==
    ASSUME TypeOK, Formed, Still, NEW th \in Threads, Sole(th), AtWork(th), close_unlink(th)
    PROVE  Still' /\ Working'
<1>1. req[th].token \in Tokens /\ Ends(th) /\ req[th].at = "unlink"
  BY StepOfUnlink DEF Formed, Mints
<1>2. \A f \in Files : tree[req[th].token][f] = NoFile
  BY <1>1 DEF AtWork, Empty
<1>3. Still'
  BY <1>1, <1>2, SidecarGone DEF close_unlink, history
<1>4. QED
  BY <1>1, <1>3, WorkEnds

LEMMA AloneForget ==
    ASSUME TypeOK, Formed, Still, NEW th \in Threads, Sole(th), AtWork(th), reap_forget(th)
    PROVE  Still' /\ Working'
<1> DEFINE t == req[th].token
<1>1. /\ Proceeds(th, "reap") /\ req[th].at = "forget" /\ req'[th].op = req[th].op
      /\ req'[th].subject = req[th].subject /\ req'[th].at = "reap"
  BY StepOfForget DEF Proceeds, Same
<1>2. t \in Tokens /\ \A f \in Files : tree[t][f] = NoFile
  BY <1>1 DEF AtWork, Empty
<1>3. Still'
  BY <1>2, SidecarGone DEF reap_forget, history
<1>4. \A u \in Tokens : Known(u)' => Known(u) /\ meta'[u].subject = meta[u].subject
  BY <1>2, SidecarsDiffer DEF reap_forget, Known, TypeOK
<1>5. Searched(th)'
  BY <1>1, <1>4, SearchedStays DEF AtWork
<1>6. AtWork(th)'
  BY <1>1, <1>5 DEF AtWork
<1>7. QED
  BY <1>1, <1>3, <1>6, WorkProceeds

LEMMA AloneReap ==
    ASSUME TypeOK, TypeOK', Formed, Still, NEW th \in Threads, Sole(th), AtWork(th), reap_safety_net(th)
    PROVE  Still' /\ Working'
<1>1. req[th].at = "reap" /\ Busy(th)
  BY StepOfReap
<1>2. UNCHANGED <<dirs, tree, meta, mtime, clock, host, lastUse, lost, discarded>>
  BY DEF reap_safety_net, disk, history
<1>3. Still'
  BY <1>2, DiskStays DEF TypeOK
<1>4. ASSUME NEW step, Proceeds(th, step) PROVE req'[th].at = step /\ Searched(th)'
  BY <1>1, <1>2, <1>4, SearchedStays DEF Proceeds, Known, AtWork
<1>5. CASE Proceeds(th, "mint") \/ Proceeds(th, "reap")
  <2>1. AtWork(th)'
    BY <1>4, <1>5 DEF AtWork
  <2>2. QED
    BY <1>3, <1>5, <2>1, WorkProceeds
<1>6. CASE req'[th].token \in Tokens \ dirs /\ Proceeds(th, "forget")
  <2>1. Empty(th)'
    BY <1>2, <1>6 DEF Still, Bare, Empty
  <2>2. AtWork(th)'
    BY <1>4, <1>6, <2>1 DEF AtWork
  <2>3. QED
    BY <1>3, <1>6, <2>2, WorkProceeds
<1>7. CASE Known(req'[th].token) /\ Idle(req'[th].token) /\ Proceeds(th, "expire")
  <2>1. Known(req[th].token)' /\ Idle(req[th].token)'
    BY <1>2, <1>7 DEF Known, Idle, Now
  <2>2. AtWork(th)'
    BY <1>4, <1>7, <2>1 DEF AtWork, Alive
  <2>3. QED
    BY <1>3, <1>7, <2>2, WorkProceeds
<1>8. CASE Ends(th)
  BY <1>3, <1>8, WorkEnds
<1>9. QED
  BY <1>5, <1>6, <1>7, <1>8, StepOfReap

(* Directories removed, with nothing lost that is not kept elsewhere.      *)
LEMMA DirectoriesGone ==
    ASSUME TypeOK, Still, NEW S, dirs' = dirs \ S, UNCHANGED <<mtime, meta, clock, host, lastUse>>,
           \A u \in Tokens : tree'[u] = IF u \in S THEN EmptyTree ELSE tree[u],
           Removed' \subseteq Exported \cup discarded'
    PROVE  Still'
<1>1. \A u \in Tokens : Known(u)' => Known(u)
  BY DEF Known
<1>2. One'
  BY <1>1 DEF Still, One
<1>3. \A u \in Tokens, f \in Files : tree'[u][f] = NoFile \/ tree'[u][f] = tree[u][f]
  BY DEF EmptyTree
<1>4. Clean'
  BY <1>3 DEF Still, Clean, CleanUnder, Exported
<1>5. Bare'
  BY <1>3 DEF Still, Bare, EmptyTree
<1>6. Stamped' /\ InUse'
  BY DEF Still, Stamped, InUse
<1>7. Recorded'
  BY DEF Recorded, Exported
<1>8. QED
  BY <1>2, <1>4, <1>5, <1>6, <1>7 DEF Still

(* The gate lets a cache go only when all it holds is on the host.         *)
LEMMA GateHolds ==
    ASSUME TypeOK, Still, NEW t \in Tokens, Known(t), Dirty(t) = {}
    PROVE  {l[2] : l \in Placed(t)} \subseteq Exported
<1>1. \A f \in Held(t) : meta[t].exported # Never /\ ~ tree[t][f].mtime > meta[t].exported
  BY DEF Dirty
<1>2. ASSUME NEW f \in Held(t) PROVE tree[t][f].version \in Exported
  <2>1. f \in Files /\ tree[t][f] # NoFile
    BY DEF Held
  <2>2. CleanUnder(t, meta[t].exported)
    BY DEF Still, Clean, Known
  <2>3. ~ tree[t][f].mtime > meta[t].exported => tree[t][f].mtime <= meta[t].exported
    <3>1. tree[t][f].mtime \in Nat /\ meta[t].exported \in Nat
      BY <2>1, Facts DEF Known
    <3>2. QED
      BY <3>1
  <2>4. QED
    BY <1>1, <2>1, <2>2, <2>3 DEF CleanUnder
<1>3. QED
  BY <1>2 DEF Placed

LEMMA AloneRemove ==
    ASSUME TypeOK, TypeOK', Formed, Still, NEW th \in Threads, Sole(th), AtWork(th), close_remove(th)
    PROVE  Still' /\ Working'
<1> DEFINE t == req[th].token
<1>1. t \in Tokens /\ MayClose(t, req[th].force)
  BY StepOfRemove DEF Formed, Mints, AtWork
<1>2. UNCHANGED <<mtime, meta, clock, host, lastUse>>
  BY DEF close_remove
<1>3. CASE ~ Known(t)
  BY <1>1, <1>3 DEF MayClose
<1>4. CASE /\ Known(t) /\ Proceeds(th, "unlink") /\ req'[th].token = t
           /\ dirs' = dirs \ {t} /\ tree' = [tree EXCEPT ![t] = EmptyTree]
           /\ discarded' = discarded \cup (IF req[th].force THEN Stored(t) ELSE {})
           /\ lost' = lost \cup (IF req[th].force THEN {} ELSE Placed(t))
  <2>1. Removed' \subseteq Exported \cup discarded'
    <3>1. Removed \subseteq Exported \cup discarded
      BY DEF Still, Recorded
    <3>2. CASE req[th].force
      BY <1>4, <3>1, <3>2 DEF Removed
    <3>3. CASE ~ req[th].force
      <4>1. {l[2] : l \in Placed(t)} \subseteq Exported
        BY <1>1, <1>4, <3>3, GateHolds DEF MayClose
      <4>2. lost' = lost \cup Placed(t) /\ discarded \subseteq discarded'
        BY <1>4, <3>3
      <4>3. QED
        BY <3>1, <4>1, <4>2 DEF Removed
    <3>4. QED
      BY <3>2, <3>3
  <2>2. \A u \in Tokens : tree'[u] = IF u \in {t} THEN EmptyTree ELSE tree[u]
    BY <1>1, <1>4 DEF TypeOK
  <2>3. Still'
    BY <1>2, <1>4, <2>1, <2>2, DirectoriesGone
  <2>4. Empty(th)'
    BY <1>1, <1>4, <2>2 DEF Empty, EmptyTree
  <2>5. AtWork(th)'
    BY <1>4, <2>4 DEF Proceeds, AtWork
  <2>6. QED
    BY <1>4, <2>3, <2>5, WorkProceeds
<1>5. QED
  BY <1>3, <1>4, StepOfRemove

LEMMA AloneSweep ==
    ASSUME TypeOK, Formed, Still, NEW th \in Threads, Sole(th), AtWork(th), reap_ephemeral(th)
    PROVE  Still' /\ Working'
<1> DEFINE Stale == {t \in dirs : meta[t] = NoMeta /\ Now - mtime[t] > TOKEN_TTL}
<1>1. dirs' = dirs \ Stale /\ tree' = [t \in Tokens |-> IF t \in Stale THEN EmptyTree ELSE tree[t]]
  BY DEF reap_ephemeral
<1>2. UNCHANGED <<mtime, meta, clock, host, lastUse, discarded>> /\ lost' = lost \cup UNION {Placed(t) : t \in Stale}
  BY DEF reap_ephemeral
<1>3. Stale \subseteq Tokens /\ \A t \in Stale : Placed(t) = {}
  BY DEF Still, Bare, Placed, Held, TypeOK
<1>4. lost' = lost
  <2> HIDE DEF Stale
  <2>1. QED
    BY <1>2, <1>3
<1>5. Removed' \subseteq Exported \cup discarded'
  BY <1>2, <1>4 DEF Still, Recorded, Removed
<1>6. Still'
  <2> HIDE DEF Stale
  <2>1. QED
    BY <1>1, <1>2, <1>5, DirectoriesGone
<1>7. Proceeds(th, "reap") /\ req[th].at = "sweep"
  BY StepOfSweep
<1>8. Searched(th)'
  BY <1>1, <1>2, <1>7, SearchedStays DEF AtWork, Known
<1>9. AtWork(th)'
  BY <1>7, <1>8 DEF AtWork, Proceeds
<1>10. QED
  BY <1>6, <1>7, <1>9, WorkProceeds

(* The reaper takes a cache only when it has not been addressed for        *)
(* SAFETY_TTL: its sidecar or its directory bears the last use.            *)
LEMMA AloneExpiry ==
    ASSUME TypeOK, Formed, Still, NEW th \in Threads, Sole(th), AtWork(th), reap_remove(th)
    PROVE  Still' /\ Working'
<1> DEFINE t == req[th].token
<1>1. t \in Tokens /\ Known(t) /\ Idle(t) /\ Proceeds(th, "forget") /\ req'[th].token = t /\ req[th].at = "expire"
  BY StepOfExpiry DEF Formed, AtWork, Alive
<1>2. Now - lastUse[t] >= SAFETY_TTL
  <2>1. Now \in Nat /\ lastUse[t] \in Nat /\ mtime[t] \in Nat /\ meta[t].used \in Nat /\ SAFETY_TTL \in Nat
    BY <1>1, Facts, NowIsLater, CacheAssumption DEF Known
  <2>2. Now - meta[t].used >= SAFETY_TTL /\ Now - mtime[t] >= SAFETY_TTL
    BY <1>1 DEF Idle
  <2>3. lastUse[t] <= mtime[t] \/ lastUse[t] <= meta[t].used
    BY <1>1 DEF Still, InUse, Known
  <2>4. QED
    BY <2>1, <2>2, <2>3
<1>3. /\ dirs' = dirs \ {t} /\ tree' = [tree EXCEPT ![t] = EmptyTree] /\ discarded' = discarded \cup Stored(t)
      /\ lost' = lost \cup {} /\ UNCHANGED <<mtime, meta, clock, host, lastUse>>
  BY <1>2 DEF reap_remove
<1>4. Removed' \subseteq Exported \cup discarded'
  BY <1>3 DEF Still, Recorded, Removed
<1>5. \A u \in Tokens : tree'[u] = IF u \in {t} THEN EmptyTree ELSE tree[u]
  BY <1>1, <1>3 DEF TypeOK
<1>6. Still'
  BY <1>3, <1>4, <1>5, DirectoriesGone
<1>7. Empty(th)'
  BY <1>1, <1>5 DEF Empty, EmptyTree
<1>8. Searched(th)'
  BY <1>1, <1>3, SearchedStays DEF AtWork, Known
<1>9. AtWork(th)'
  BY <1>1, <1>7, <1>8 DEF AtWork, Proceeds
<1>10. QED
  BY <1>1, <1>6, <1>9, WorkProceeds

LEMMA AloneMint ==
    ASSUME TypeOK, Formed, Still, NEW th \in Threads, Sole(th), AtWork(th), new_token(th)
    PROVE  Still' /\ Working'
<1>1. Busy(th) /\ req[th].at = "mint" /\ req[th] \in Request /\ Searched(th)
  BY StepOfMint DEF AtWork, TypeOK, Busy
<1>2. PICK t \in Fresh :
          /\ dirs' = dirs \cup {t}
          /\ mtime' = [mtime EXCEPT ![t] = Now] /\ lastUse' = [lastUse EXCEPT ![t] = Now]
          /\ \/ Ends(th)
             \/ /\ Proceeds(th, "open") /\ req'[th].token = t /\ req'[th].record \in CacheMeta
                /\ req[th].op = "provision"
                /\ req'[th].record = [subject |-> req[th].subject, used |-> Now, exported |-> Never]
  BY StepOfMint
<1>3. t \in Tokens /\ t \notin dirs /\ meta[t] = NoMeta /\ meta[t] \notin CacheMeta
  BY SidecarsDiffer DEF Fresh
<1>4. UNCHANGED <<tree, meta, discarded, host, lost>> /\ clock' = Now
  BY DEF new_token
<1>5. \A u \in Tokens : Known(u)' => Known(u)
  BY <1>2, <1>3, <1>4 DEF Known
<1>6. \A u \in Tokens \ {t} : mtime'[u] = mtime[u] /\ lastUse'[u] = lastUse[u]
  BY <1>2 DEF TypeOK
<1>7. One' /\ Clean' /\ Recorded'
  BY <1>4, <1>5 DEF Still, One, Clean, CleanUnder, Recorded, Exported, Removed
<1>8. Bare'
  BY <1>2, <1>4 DEF Still, Bare
<1>9. Stamped'
  <2>1. lastUse'[t] = Now /\ Now <= clock'
    BY <1>2, <1>3, <1>4, NowIsLater DEF TypeOK
  <2>2. \A u \in Tokens : lastUse[u] <= clock' /\ (meta[u] \in CacheMeta => meta[u].exported <= clock')
    <3>1. clock' = Now /\ Now \in Nat /\ clock \in Nat /\ clock < Now
      BY <1>4, NowIsLater DEF TypeOK
    <3>2. \A u \in Tokens : lastUse[u] \in Nat /\ (meta[u] \in CacheMeta => meta[u].exported \in Nat)
      BY Facts
    <3>3. QED
      BY <3>1, <3>2 DEF Still, Stamped
  <2>3. QED
    BY <1>4, <1>6, <2>1, <2>2 DEF Stamped
<1>10. InUse'
  BY <1>3, <1>4, <1>6 DEF Still, InUse
<1>11. Still'
  BY <1>7, <1>8, <1>9, <1>10 DEF Still
<1>12. CASE Ends(th)
  BY <1>11, <1>12, WorkEnds
<1>13. CASE /\ Proceeds(th, "open") /\ req'[th].token = t /\ req'[th].record \in CacheMeta
            /\ req[th].op = "provision"
            /\ req'[th].record = [subject |-> req[th].subject, used |-> Now, exported |-> Never]
  <2> DEFINE r == req'[th].record
  <2>1. r.subject = req[th].subject /\ r.used = Now /\ r.exported = Never /\ Never \in Nat
    BY <1>13 DEF Never
  <2>2. \A u \in Tokens \ {t} : Known(u) => meta[u].subject # r.subject
    BY <1>1, <1>13, <2>1 DEF Searched, Match
  <2>3. CleanUnder(t, r.exported)
    BY <2>1 DEF CleanUnder
  <2>4. r.used <= clock' /\ r.exported <= clock'
    BY <1>4, <2>1, NowIsLater DEF Never
  <2>5. AtWork(th)'
    BY <1>2, <1>3, <1>4, <1>13, <2>2, <2>3, <2>4, MadeReady DEF Proceeds
  <2>6. QED
    BY <1>11, <1>13, <2>5, WorkProceeds
<1>14. QED
  BY <1>2, <1>12, <1>13

LEMMA AloneScan ==
    ASSUME TypeOK, TypeOK', Formed, Still, NEW th \in Threads, Sole(th), provision_scan(th)
    PROVE  Still' /\ Working'
<1>1. UNCHANGED <<dirs, tree, mtime, meta, host, lastUse, lost, discarded>> /\ req[th].op = "provision"
  BY StepOfScan DEF provision_scan, disk, history
<1>2. clock' \in {clock, Now}
  BY StepOfScan
<1>3. clock <= clock'
  BY <1>2, NowIsLater DEF TypeOK
<1>4. Still'
  BY <1>1, <1>3, DiskStays
<1>5. CASE Ends(th)
  BY <1>4, <1>5, WorkEnds
<1>6. ASSUME NEW t \in Match(req[th].subject), Proceeds(th, "open"), req'[th].token = t, clock' = Now,
             req'[th].record = [meta[t] EXCEPT !.used = Now], req'[th].record \in CacheMeta
      PROVE  AtWork(th)'
  <2> DEFINE r == [meta[t] EXCEPT !.used = Now]
  <2>1. t \in Tokens /\ Known(t) /\ meta[t] \in CacheMeta /\ r \in CacheMeta
    BY <1>6 DEF Match, Known
  <2>2. r.used = Now /\ r.subject = meta[t].subject /\ r.exported = meta[t].exported
    BY <2>1, NowIsLater, Rewritten
  <2>3. CleanUnder(t, r.exported) /\ meta[t].exported <= clock
    BY <2>1, <2>2 DEF Still, Clean, Stamped
  <2>4. \A u \in Tokens \ {t} : Known(u) => meta[u].subject # r.subject
    BY <2>1, <2>2 DEF Still, One
  <2>5. r.used <= clock' /\ r.exported <= clock'
    <3>1. meta[t].exported \in Nat /\ clock \in Nat /\ clock < Now /\ Now \in Nat
      BY <2>1, Facts, NowIsLater
    <3>2. QED
      BY <1>6, <2>2, <2>3, <3>1
  <2>6. req'[th].at = "open" /\ req'[th].record = r
    BY <1>6 DEF Proceeds
  <2>7. QED
    <3> HIDE DEF r
    <3>1. QED
      BY <1>1, <1>6, <2>1, <2>3, <2>4, <2>5, <2>6, MadeReady
<1>7. CASE Match(req[th].subject) = {} /\ Proceeds(th, "sweep") /\ req'[th].token = req[th].token /\ clock' = clock
  <2>1. Searched(th)'
    BY <1>1, <1>7, SearchedStays DEF Searched, Known
  <2>2. QED
    BY <1>4, <1>7, <2>1, WorkProceeds DEF Proceeds, AtWork
<1>8. QED
  BY <1>4, <1>5, <1>6, <1>7, StepOfScan, WorkProceeds

LEMMA AloneList ==
    ASSUME TypeOK, TypeOK', Formed, Still, NEW th \in Threads, Sole(th), export_list(th)
    PROVE  Still' /\ Working'
<1>1. UNCHANGED <<dirs, tree, mtime, meta, clock, host, lastUse, lost, discarded>>
  BY DEF export_list, disk, history
<1>2. Still'
  BY <1>1, DiskStays DEF TypeOK
<1>3. CASE Ends(th)
  BY <1>2, <1>3, WorkEnds
<1>4. CASE Proceeds(th, "copy") /\ req'[th].token = req[th].token /\ req'[th].paths = Held(req[th].token)
  <2>1. Copied(th, Held(req[th].token))
    BY DEF Copied, Held
  <2>2. Copied(th, req'[th].paths)
    BY <1>4, <2>1
  <2>3. AtWork(th)'
    BY <1>1, <1>4, <2>2 DEF AtWork, Proceeds, Copied, Exported
  <2>4. QED
    BY <1>2, <1>4, <2>3, WorkProceeds
<1>5. QED
  BY <1>3, <1>4, StepOfList

LEMMA AloneCopy ==
    ASSUME TypeOK, TypeOK', Formed, Still, NEW th \in Threads, Sole(th), AtWork(th), export_copy(th)
    PROVE  Still' /\ Working'
<1> DEFINE t == req[th].token
<1>1. UNCHANGED <<dirs, tree, mtime, meta, clock, lastUse, lost, discarded>>
  BY DEF export_copy, disk
<1>2. host \subseteq host'
  BY StepOfCopy
<1>3. Still'
  BY <1>1, <1>2, DiskStays DEF TypeOK
<1>4. Copied(th, req[th].paths) /\ t \in Tokens
  BY StepOfCopy DEF AtWork, Formed, Mints
<1>5. Exported \subseteq Exported'
  BY <1>2, ExportedGrows
<1>6. CASE req[th].paths = {} /\ Proceeds(th, "read") /\ req'[th].token = t
  <2>1. Copied(th, {})'
    BY <1>1, <1>4, <1>5, <1>6 DEF Copied
  <2>2. AtWork(th)'
    BY <1>6, <2>1 DEF AtWork, Proceeds
  <2>3. QED
    BY <1>3, <1>6, <2>2, WorkProceeds
<1>7. ASSUME NEW f \in req[th].paths, f \in Files, Proceeds(th, "copy"), req'[th].token = t,
             req'[th].paths = req[th].paths \ {f}, host' = host \cup ({f} \X VersionAt(t, f))
      PROVE  AtWork(th)'
  <2>1. tree[t][f] # NoFile => tree[t][f].version \in Exported'
    <3>1. tree[t][f] # NoFile => <<f, tree[t][f].version>> \in host'
      BY <1>7 DEF VersionAt, Held
    <3>2. tree[t][f] # NoFile => <<f, tree[t][f].version>>[2] \in Exported'
      BY <3>1 DEF Exported
    <3>3. QED
      BY <3>2
  <2>2. Copied(th, req[th].paths)'
    BY <1>1, <1>4, <1>5, <1>7, <2>1 DEF Copied
  <2>3. QED
    BY <1>7, <2>2 DEF AtWork, Proceeds
<1>8. QED
  BY <1>3, <1>6, <1>7, StepOfCopy, WorkProceeds

LEMMA AloneCheck ==
    ASSUME TypeOK, TypeOK', Formed, Still, NEW th \in Threads, Sole(th), close_check(th)
    PROVE  Still' /\ Working'
<1>1. UNCHANGED <<dirs, tree, mtime, meta, clock, host, lastUse, lost, discarded>>
  BY DEF close_check, disk, history
<1>2. Still'
  BY <1>1, DiskStays DEF TypeOK
<1>3. CASE Ends(th)
  BY <1>2, <1>3, WorkEnds
<1>4. CASE MayClose(req[th].token, req[th].force) /\ Proceeds(th, "remove") /\ req'[th].token = req[th].token
  <2>1. MayClose(req[th].token, req[th].force)'
    BY <1>1, <1>4 DEF MayClose, Known, Dirty, Held, Proceeds, Same
  <2>2. AtWork(th)'
    BY <1>4, <2>1 DEF AtWork, Proceeds
  <2>3. QED
    BY <1>2, <1>4, <2>2, WorkProceeds
<1>5. QED
  BY <1>3, <1>4, StepOfCheck

(* Writes to a cache that is there, of what is newer than its last export  *)
(* or lies in it already.                                                  *)
LEMMA TreeWritten ==
    ASSUME TypeOK, Still, NEW t \in Tokens, Known(t), NEW new, tree' = [tree EXCEPT ![t] = new],
           UNCHANGED <<dirs, mtime, meta, host, lastUse, lost>>, clock <= clock', clock' \in Nat,
           discarded \subseteq discarded',
           \A f \in Files : \/ new[f] = NoFile
                            \/ \E g \in Files : tree[t][g] # NoFile /\ new[f] = tree[t][g]
                            \/ new[f].mtime = Now
    PROVE  Still'
<1>1. tree'[t] = new /\ \A u \in Tokens \ {t} : tree'[u] = tree[u]
  BY DEF TypeOK
<1>2. meta[t] # NoMeta /\ t \in dirs /\ meta[t] \in CacheMeta
  BY SidecarsDiffer DEF Known
<1>3. One'
  BY DEF Still, One, Known
<1>4. CleanUnder(t, meta[t].exported)'
  <2> SUFFICES ASSUME NEW f \in Files, new[f] # NoFile, meta[t].exported # Never, new[f].mtime <= meta[t].exported
               PROVE  new[f].version \in Exported
    BY <1>1 DEF CleanUnder, Exported
  <2>1. CASE new[f].mtime = Now
    <3>1. clock \in Nat /\ clock < Now /\ Now \in Nat /\ meta[t].exported \in Nat /\ meta[t].exported <= clock
      BY <1>2, Facts, NowIsLater DEF Still, Stamped
    <3>2. QED
      BY <2>1, <3>1
  <2>2. ASSUME NEW g \in Files, tree[t][g] # NoFile, new[f] = tree[t][g]
        PROVE  new[f].version \in Exported
    BY <1>2, <2>2 DEF Still, Clean, CleanUnder
  <2>3. QED
    BY <2>1, <2>2
<1>5. Clean'
  BY <1>1, <1>4 DEF Still, Clean, CleanUnder, Exported
<1>6. Bare'
  BY <1>1, <1>2 DEF Still, Bare
<1>7. Stamped'
  <2>1. clock \in Nat /\ \A u \in Tokens : lastUse[u] \in Nat /\ (meta[u] \in CacheMeta => meta[u].exported \in Nat)
    BY Facts DEF TypeOK
  <2>2. QED
    BY <2>1 DEF Still, Stamped
<1>8. InUse' /\ Recorded'
  BY DEF Still, InUse, Recorded, Removed, Exported
<1>9. QED
  BY <1>3, <1>5, <1>6, <1>7, <1>8 DEF Still

LEMMA AlonePut ==
    ASSUME TypeOK, Formed, Still, NEW th \in Threads, Sole(th), AtWork(th), put_write(th)
    PROVE  Still' /\ Working'
<1> DEFINE t == req[th].token
           f == req[th].file
           new == [tree[t] EXCEPT ![f] = [version |-> Now, mtime |-> Now]]
<1>1. t \in Tokens /\ f \in Files /\ Known(t) /\ Proceeds(th, "read") /\ req[th].op = "put"
  BY StepOfPut DEF Formed, Mints, Writes, AtWork, Alive
<1>2. UNCHANGED <<dirs, mtime, meta, host, lastUse, lost>> /\ clock' = Now /\ discarded \subseteq discarded'
  BY <1>1 DEF put_write, MakeParents, Known
<1>3. tree' = [tree EXCEPT ![t] = new]
  BY <1>1 DEF put_write, TypeOK
<1>4. \A g \in Files : new[g] = tree[t][g] \/ new[g].mtime = Now
  BY <1>1 DEF TypeOK
<1>5. Still'
  <2> HIDE DEF new
  <2>1. clock <= clock' /\ clock' \in Nat
    BY <1>2, NowIsLater DEF TypeOK
  <2>2. \A g \in Files : \/ new[g] = NoFile
                         \/ \E h \in Files : tree[t][h] # NoFile /\ new[g] = tree[t][h]
                         \/ new[g].mtime = Now
    BY <1>4
  <2>3. QED
    BY <1>1, <1>2, <1>3, <2>1, <2>2, TreeWritten
<1>6. AtWork(th)'
  BY <1>1 DEF AtWork, Proceeds, Same
<1>7. QED
  BY <1>1, <1>5, <1>6, WorkProceeds

LEMMA AloneDelete ==
    ASSUME TypeOK, Formed, Still, NEW th \in Threads, Sole(th), AtWork(th), dav_delete(th)
    PROVE  Still' /\ Working'
<1> DEFINE t == req[th].token
           f == req[th].file
           new == [tree[t] EXCEPT ![f] = NoFile]
<1>1. t \in Tokens /\ f \in Files /\ Known(t) /\ Ends(th)
  BY StepOfDelete DEF Formed, Mints, Writes, AtWork, Alive
<1>2. /\ UNCHANGED <<dirs, mtime, meta, clock, host, lastUse, lost>> /\ discarded \subseteq discarded'
      /\ tree' = [tree EXCEPT ![t] = new]
  BY <1>1 DEF dav_delete, TypeOK
<1>3. \A g \in Files : new[g] = tree[t][g] \/ new[g] = NoFile
  BY <1>1 DEF TypeOK
<1>4. Still'
  <2> HIDE DEF new
  <2>1. clock <= clock' /\ clock' \in Nat
    BY <1>2 DEF TypeOK
  <2>2. \A g \in Files : \/ new[g] = NoFile
                         \/ \E h \in Files : tree[t][h] # NoFile /\ new[g] = tree[t][h]
                         \/ new[g].mtime = Now
    BY <1>3
  <2>3. QED
    BY <1>1, <1>2, <2>1, <2>2, TreeWritten
<1>5. QED
  BY <1>1, <1>4, WorkEnds

LEMMA AloneClear ==
    ASSUME TypeOK, TypeOK', Formed, Still, NEW th \in Threads, Sole(th), AtWork(th), clear_dest(th)
    PROVE  Still' /\ Working'
<1> DEFINE t == req[th].token
           f == req[th].file
           d == req[th].dst
           new == [tree[t] EXCEPT ![d] = NoFile]
<1>1. t \in Tokens /\ f \in Files /\ d \in Files /\ Known(t)
  BY StepOfClear DEF Formed, Mints, Writes, AtWork, Alive
<1>2. UNCHANGED <<dirs, mtime, meta, clock, host, lastUse, lost>>
  BY DEF clear_dest
<1>3. CASE f \notin Held(t) /\ Ends(th) /\ UNCHANGED <<tree, discarded>>
  BY <1>2, <1>3, DiskStays, WorkEnds DEF TypeOK
<1>4. CASE /\ f \in Held(t) /\ Proceeds(th, "put_down") /\ req'[th].token = t
           /\ tree' = [tree EXCEPT ![t][d] = NoFile]
           /\ discarded' = discarded \cup Overwritten(t, f, d)
  <2>1. tree' = [tree EXCEPT ![t] = new] /\ discarded \subseteq discarded'
    BY <1>1, <1>4 DEF TypeOK
  <2>2. \A g \in Files : new[g] = tree[t][g] \/ new[g] = NoFile
    BY <1>1 DEF TypeOK
  <2>3. Still'
    <3> HIDE DEF new
    <3>1. clock <= clock' /\ clock' \in Nat
      BY <1>2 DEF TypeOK
    <3>2. \A g \in Files : \/ new[g] = NoFile
                           \/ \E h \in Files : tree[t][h] # NoFile /\ new[g] = tree[t][h]
                           \/ new[g].mtime = Now
      BY <2>2
    <3>3. QED
      BY <1>1, <1>2, <2>1, <3>1, <3>2, TreeWritten
  <2>4. AtWork(th)'
    BY <1>1, <1>2, <1>4 DEF AtWork, Proceeds, Alive, Known
  <2>5. QED
    BY <1>4, <2>3, <2>4, WorkProceeds
<1>5. QED
  BY <1>3, <1>4, StepOfClear

LEMMA AlonePutDown ==
    ASSUME TypeOK, TypeOK', Formed, Still, NEW th \in Threads, Sole(th), AtWork(th), put_down(th)
    PROVE  Still' /\ Working'
<1> DEFINE t == req[th].token
           f == req[th].file
           g == req[th].dst
           vacated == IF req[th].op = "move" THEN {f} ELSE {}
           new == [h \in Files |-> IF h = g THEN tree[t][f] ELSE IF h \in vacated THEN NoFile ELSE tree[t][h]]
<1>1. t \in Tokens /\ f \in Files /\ g \in Files /\ Known(t) /\ Ends(th)
  BY StepOfPutDown DEF Formed, Mints, Writes, AtWork, Alive
<1>2. UNCHANGED <<dirs, mtime, meta, host, lastUse, lost>> /\ clock' = Now /\ discarded \subseteq discarded'
  BY <1>1 DEF put_down, MakeParents, Known
<1>3. clock <= clock' /\ clock' \in Nat
  BY <1>2, NowIsLater DEF TypeOK
<1>4. CASE f \notin Held(t)
  <2>1. UNCHANGED <<tree, discarded>>
    BY <1>4 DEF put_down
  <2>2. Still'
    BY <1>2, <1>3, <2>1, DiskStays
  <2>3. QED
    BY <1>1, <2>2, WorkEnds
<1>5. CASE f \in Held(t)
  <2>1. tree' = [tree EXCEPT ![t] = new]
    BY <1>5 DEF put_down
  <2>2. \A h \in Files : new[h] = tree[t][f] \/ new[h] = tree[t][h] \/ new[h] = NoFile
    BY <1>1
  <2>3. Still'
    <3> HIDE DEF new
    <3>1. \A h \in Files : \/ new[h] = NoFile
                           \/ \E k \in Files : tree[t][k] # NoFile /\ new[h] = tree[t][k]
                           \/ new[h].mtime = Now
      BY <1>1, <2>2
    <3>2. QED
      BY <1>1, <1>2, <1>3, <2>1, <3>1, TreeWritten
  <2>4. QED
    BY <1>1, <2>3, WorkEnds
<1>6. QED
  BY <1>4, <1>5

LEMMA AloneWork ==
    ASSUME Typed, TypeOK', Still, NEW th \in Threads, Sole(th), AtWork(th), Work(th)
    PROVE  Still' /\ Working'
<1>1. TypeOK /\ Formed
  BY DEF Typed
<1>2. CASE touch_cache(th) \/ mark_exported(th) \/ open_meta(th) \/ fill_meta(th)
  BY <1>1, <1>2, AloneTouch, AloneMark, AloneOpen, AloneFill
<1>3. CASE put_write(th) \/ dav_delete(th) \/ clear_dest(th) \/ put_down(th)
  BY <1>1, <1>3, AlonePut, AloneDelete, AloneClear, AlonePutDown
<1>4. CASE export_list(th) \/ export_copy(th) \/ close_check(th) \/ close_remove(th) \/ close_unlink(th)
  BY <1>1, <1>4, AloneList, AloneCopy, AloneCheck, AloneRemove, AloneUnlink
<1>5. CASE provision_scan(th) \/ reap_ephemeral(th) \/ reap_safety_net(th)
  BY <1>1, <1>5, AloneScan, AloneSweep, AloneReap
<1>6. CASE reap_remove(th) \/ reap_forget(th) \/ new_token(th)
  BY <1>1, <1>6, AloneExpiry, AloneForget, AloneMint
<1>7. QED
  BY <1>2, <1>3, <1>4, <1>5, <1>6 DEF Work

LEMMA AloneDispatch ==
    ASSUME TypeOK, TypeOK', Still, NEW th \in Threads, Sole(th), NEW op \in Op \ {"provision", "stage"}, NEW t \in Tokens,
           NEW f \in Files \cup {None}, NEW g \in Files \cup {None}, NEW force \in BOOLEAN,
           dispatch(th, op, t, f, g, force)
    PROVE  Still' /\ Working'
<1>1. Known(t) /\ req'[th] = Asked(op, t, meta[t].subject, f, g, force) /\ req'[th] \in Request /\ OthersStay(th)
  BY StepOfDispatch
<1>2. /\ UNCHANGED <<dirs, tree, meta, host, lost, discarded>> /\ clock' = Now
      /\ mtime' = [mtime EXCEPT ![t] = Now] /\ lastUse' = [lastUse EXCEPT ![t] = Now]
  BY DEF dispatch
<1>3. clock \in Nat /\ clock < Now /\ Now \in Nat
  BY NowIsLater DEF TypeOK
<1>4. mtime'[t] = Now /\ lastUse'[t] = Now /\ \A u \in Tokens \ {t} : mtime'[u] = mtime[u] /\ lastUse'[u] = lastUse[u]
  BY <1>2 DEF TypeOK
<1>5. One' /\ Clean' /\ Bare' /\ Recorded'
  BY <1>2 DEF Still, One, Known, Clean, CleanUnder, Bare, Recorded, Removed, Exported
<1>6. Stamped'
  <2>1. \A u \in Tokens : lastUse[u] \in Nat /\ (meta[u] \in CacheMeta => meta[u].exported \in Nat)
    BY Facts
  <2>2. \A u \in Tokens : lastUse[u] <= Now /\ (meta[u] \in CacheMeta => meta[u].exported <= Now)
    BY <1>3, <2>1 DEF Still, Stamped
  <2>3. QED
    BY <1>2, <1>3, <1>4, <2>2 DEF Stamped
<1>7. InUse'
  <2>1. lastUse'[t] <= mtime'[t]
    BY <1>3, <1>4
  <2>2. QED
    BY <1>2, <1>4, <2>1 DEF Still, InUse
<1>8. Still'
  BY <1>5, <1>6, <1>7 DEF Still
<1>9. req'[th].token = t /\ req'[th].at = FirstStep[op]
  BY <1>1 DEF Asked
<1>10. FirstStep[op] \in {"write", "delete", "clear", "list", "check"}
  BY DEF Op, FirstStep
<1>11. Alive(th)'
  BY <1>1, <1>2, <1>9 DEF Alive, Known
<1>12. AtWork(th)'
  BY <1>9, <1>10, <1>11 DEF AtWork
<1>13. QED
  BY <1>1, <1>8, <1>12, StillWorking

LEMMA AloneMinting ==
    ASSUME TypeOK, TypeOK', Still, NEW th \in Threads, Sole(th), NEW op, NEW s \in Subjects, begin_minting(th, op, s)
    PROVE  Still' /\ Working'
<1>1. /\ op \in {"provision", "stage"} /\ OthersStay(th)
      /\ req'[th] = Asked(op, None, s, None, None, FALSE)
  BY StepOfMinting
<1>2. UNCHANGED <<dirs, tree, mtime, meta, clock, host, lastUse, lost, discarded>>
  BY DEF begin_minting, disk, history
<1>3. Still'
  BY <1>2, DiskStays DEF TypeOK
<1>4. req'[th].op = op /\ req'[th].at = FirstStep[op]
  BY <1>1 DEF Asked
<1>5. (op = "provision" /\ FirstStep[op] = "scan") \/ (op = "stage" /\ FirstStep[op] = "sweep")
  <2>1. FirstStep["provision"] = "scan" /\ FirstStep["stage"] = "sweep"
    BY DEF FirstStep
  <2>2. CASE op = "provision"
    BY <2>1, <2>2
  <2>3. CASE op = "stage"
    BY <2>1, <2>3
  <2>4. QED
    BY <1>1, <2>2, <2>3
<1>6. AtWork(th)'
  BY <1>4, <1>5 DEF AtWork, Searched
<1>7. QED
  BY <1>1, <1>3, <1>6, StillWorking

LEMMA AloneBegin ==
    ASSUME TypeOK, TypeOK', Still, NEW th \in load.threads, Sole(th), Begin(th)
    PROVE  Still' /\ Working'
<1>1. th \in Threads /\ load.subjects \subseteq Subjects
  BY Workers
<1>2. ASSUME NEW t \in Tokens, NEW op \in Op \ {"provision", "stage"}, NEW f \in Files \cup {None},
             NEW g \in Files \cup {None}, NEW force \in BOOLEAN, dispatch(th, op, t, f, g, force)
      PROVE  Still' /\ Working'
  BY <1>1, <1>2, AloneDispatch
<1>3. ASSUME NEW s \in load.subjects, NEW op \in {"provision", "stage"}, begin_minting(th, op, s)
      PROVE  Still' /\ Working'
  BY <1>1, <1>3, AloneMinting
<1>4. \A p \in Targets : p[1] \in Files /\ p[2] \in Files
  BY CacheAssumption
<1>5. {"put", "delete", "move", "copy", "export", "close"} \subseteq Op \ {"provision", "stage"} /\ FALSE \in BOOLEAN
  BY DEF Op
<1>6. QED
  BY <1>2, <1>3, <1>4, <1>5 DEF Begin

LEMMA AloneAtFirst == Init => AloneInv
<1> SUFFICES ASSUME Init PROVE AloneInv
  OBVIOUS
<1>1. TypeOK /\ Typed
  BY TypeAtFirst DEF Typed
<1>2. \A t \in Tokens : /\ meta[t] = NoMeta /\ meta[t] \notin CacheMeta /\ lastUse[t] = 0
                        /\ \A f \in Files : tree[t][f] = NoFile
  BY SidecarsDiffer DEF Init, EmptyTree, Never
<1>3. One /\ Clean /\ Bare /\ InUse
  BY <1>2 DEF One, Known, Clean, Bare, InUse
<1>4. Stamped /\ Recorded
  BY <1>2 DEF Init, Stamped, Recorded, Removed
<1>5. Loaded /\ Working
  BY DEF Init, Loaded, Working, Busy
<1>6. QED
  BY <1>1, <1>3, <1>4, <1>5 DEF AloneInv, Still

LEMMA BeginningStaysOthers ==
    ASSUME TypeOK, NEW th \in load.threads, Begin(th) \/ Work(th)
    PROVE  OthersStay(th)
<1>1. th \in Threads /\ load.subjects \subseteq Subjects
  BY Workers
<1>2. ASSUME NEW step, Proceeds(th, step) PROVE OthersStay(th)
  BY <1>2 DEF Proceeds
<1>3. CASE Begin(th)
  <2>1. ASSUME NEW t \in Tokens, NEW op \in Op \ {"provision", "stage"}, NEW f \in Files \cup {None},
               NEW g \in Files \cup {None}, NEW force \in BOOLEAN, dispatch(th, op, t, f, g, force)
        PROVE  OthersStay(th)
    BY <1>1, <2>1, StepOfDispatch
  <2>2. ASSUME NEW s \in load.subjects, NEW op \in {"provision", "stage"}, begin_minting(th, op, s)
        PROVE  OthersStay(th)
    BY <1>1, <2>2, StepOfMinting
  <2>3. \A p \in Targets : p[1] \in Files /\ p[2] \in Files
    BY CacheAssumption
  <2>4. {"put", "delete", "move", "copy", "export", "close"} \subseteq Op \ {"provision", "stage"} /\ FALSE \in BOOLEAN
    BY DEF Op
  <2>5. QED
    BY <1>3, <2>1, <2>2, <2>3, <2>4 DEF Begin
<1>4. CASE Work(th)
  <2>1. CASE touch_cache(th) \/ mark_exported(th) \/ open_meta(th) \/ fill_meta(th)
    BY <1>1, <1>2, <2>1, StepOfTouch, StepOfMark, StepOfOpen, StepOfFill DEF Ends
  <2>2. CASE put_write(th) \/ dav_delete(th) \/ clear_dest(th) \/ put_down(th)
    BY <1>1, <1>2, <2>2, StepOfPut, StepOfDelete, StepOfClear, StepOfPutDown DEF Ends
  <2>3. CASE export_list(th) \/ export_copy(th) \/ close_check(th) \/ close_remove(th) \/ close_unlink(th)
    BY <1>1, <1>2, <2>3, StepOfList, StepOfCopy, StepOfCheck, StepOfRemove, StepOfUnlink DEF Ends
  <2>4. CASE provision_scan(th) \/ reap_ephemeral(th) \/ reap_safety_net(th)
    BY <1>1, <1>2, <2>4, StepOfScan, StepOfSweep, StepOfReap DEF Ends
  <2>5. CASE reap_remove(th) \/ reap_forget(th) \/ new_token(th)
    BY <1>1, <1>2, <2>5, StepOfExpiry, StepOfForget, StepOfMint DEF Ends
  <2>6. QED
    BY <1>4, <2>1, <2>2, <2>3, <2>4, <2>5 DEF Work
<1>5. QED
  BY <1>3, <1>4

LEMMA StepsKeepAlone == AloneInv /\ [Next]_vars => AloneInv'
<1> SUFFICES ASSUME AloneInv, [Next]_vars PROVE AloneInv'
  OBVIOUS
<1>1. Typed /\ TypeOK /\ Typed' /\ TypeOK'
  BY StepsKeepTypes DEF AloneInv, Typed
<1>2. load' = load
  BY DEF Next, vars
<1>3. ASSUME NEW th \in load.threads, Begin(th) \/ Work(th) PROVE AloneInv'
  <2>1. th \in Threads /\ OthersStay(th)
    BY <1>1, <1>3, Workers, BeginningStaysOthers
  <2>2. Loaded'
    BY <1>2, <2>1 DEF AloneInv, Loaded, OthersStay, Busy
  <2>3. ASSUME Alone PROVE Still' /\ Working'
    <3>1. Sole(th)
      BY <2>1, <2>3 DEF AloneInv, Loaded, Sole, Alone
    <3>2. Still /\ Working
      BY <2>3 DEF AloneInv
    <3>3. CASE Begin(th)
      BY <1>1, <3>1, <3>2, <3>3, AloneBegin
    <3>4. CASE Work(th)
      <4>1. Busy(th)
        BY <3>4 DEF Work, Is, Busy, touch_cache, mark_exported, open_meta, fill_meta, put_write, dav_delete, clear_dest,
           put_down, export_list, export_copy, close_check, close_remove, close_unlink, provision_scan, reap_ephemeral,
           reap_safety_net, reap_remove, reap_forget, new_token
      <4>2. AtWork(th)
        BY <2>1, <3>2, <4>1 DEF Working
      <4>3. QED
        BY <1>1, <2>1, <3>1, <3>2, <3>4, <4>2, AloneWork
    <3>5. QED
      BY <1>3, <3>3, <3>4
  <2>4. Alone' => Alone
    BY <1>2 DEF Alone
  <2>5. QED
    BY <1>1, <2>2, <2>3, <2>4 DEF AloneInv
<1>4. ASSUME UNCHANGED <<disk, history>>, clock <= clock', \A th \in Threads : Busy(th)' => req'[th] = req[th],
             req' = req \/ \A th \in Threads : ~ Busy(th)', clock' = clock \/ \A th \in Threads : ~ Busy(th)'
      PROVE  AloneInv'
  <2>1. Loaded'
    BY <1>2, <1>4 DEF AloneInv, Loaded, Busy
  <2>2. ASSUME Alone PROVE Still' /\ Working'
    <3>1. Still'
      BY <1>1, <1>4, <2>2, DiskStays DEF AloneInv, disk, history
    <3>2. CASE \A th \in Threads : ~ Busy(th)'
      BY <3>1, <3>2 DEF Working
    <3>3. CASE req' = req /\ clock' = clock
      BY <1>4, <2>2, <3>1, <3>3 DEF AloneInv, Working, Busy, AtWork, Alive, Ready, Copied, Empty, Searched, Known,
         CleanUnder, Exported, MayClose, Dirty, Held, Idle, Now, Match, disk, history
    <3>4. QED
      BY <1>4, <3>2, <3>3
  <2>3. QED
    BY <1>1, <1>2, <2>1, <2>2 DEF AloneInv, Alone
<1>5. CASE idle
  <2>1. clock <= clock'
    BY <1>1, <1>5, CacheAssumption DEF idle, TypeOK
  <2>2. QED
    BY <1>4, <1>5, <2>1 DEF idle, Busy
<1>6. CASE crash
  <2>1. clock <= clock'
    BY <1>1, <1>6 DEF crash, TypeOK
  <2>2. QED
    BY <1>4, <1>6, <2>1 DEF crash, Busy
<1>7. CASE UNCHANGED vars
  <2>1. clock <= clock'
    BY <1>1, <1>7 DEF vars, TypeOK
  <2>2. QED
    BY <1>4, <1>7, <2>1 DEF vars, Busy
<1>8. QED
  BY <1>3, <1>5, <1>6, <1>7 DEF Next

LEMMA AlwaysAlone == Spec => []AloneInv
BY AloneAtFirst, StepsKeepAlone, PTL DEF Spec

(* provision finds or mints: when requests come one at a time, an owner's  *)
(* subject has one cache, wherever the server is killed in between.        *)
THEOREM OneCache == Spec => []OneCachePerSubject
<1>1. AloneInv => OneCachePerSubject
  BY DEF AloneInv, Still, One, OneCachePerSubject
<1>2. QED
  BY <1>1, AlwaysAlone, PTL

(* What the gate of close counts as clean is on the host: when requests    *)
(* come one at a time, only an export that copied everything moves a file  *)
(* behind last_export_at.                                                  *)
THEOREM CleanIsOnTheHost == Spec => []CleanIsExported
<1>1. ASSUME AloneInv, Alone, NEW t \in Tokens, meta[t] \in CacheMeta, NEW f \in Held(t) \ Dirty(t)
      PROVE  tree[t][f].version \in Exported
  <2>1. f \in Files /\ tree[t][f] # NoFile /\ meta[t].exported # Never /\ ~ tree[t][f].mtime > meta[t].exported
    BY <1>1 DEF Held, Dirty
  <2>2. tree[t][f].mtime \in Nat /\ meta[t].exported \in Nat
    BY <1>1, <2>1, Facts DEF AloneInv, Typed
  <2>3. tree[t][f].mtime <= meta[t].exported
    BY <2>1, <2>2
  <2>4. CleanUnder(t, meta[t].exported)
    BY <1>1 DEF AloneInv, Still, Clean
  <2>5. QED
    BY <2>1, <2>3, <2>4 DEF CleanUnder
<1>2. AloneInv => CleanIsExported
  BY <1>1 DEF CleanIsExported
<1>3. QED
  BY <1>2, AlwaysAlone, PTL

(* An upload answered 201 is in a cache or on the host until a client      *)
(* overwrites, deletes or force-closes it, moves or copies it onto its own *)
(* path (which destroys it), or leaves its cache unused for SAFETY_TTL:    *)
(* when requests come one at a time, no close behind the dirty gate,       *)
(* reaper, rename to another path or kill loses it, for any number of      *)
(* caches and paths.                                                       *)
THEOREM UploadsSurviveWhenAlone == Spec => []UploadsSurviveAlone
<1>1. AccountInv /\ AloneInv => UploadsSurviveAlone
  BY DEF AccountInv, Accounted, AloneInv, Still, Recorded, UploadsSurviveAlone, UploadsSurvive
<1>2. Spec => []AccountInv
  <2>1. AccountInv /\ [Next]_vars => AccountInv'
    BY StepsKeepAccount
  <2>2. QED
    BY <2>1, AccountAtFirst, PTL DEF Spec
<1>3. QED
  BY <1>1, <1>2, AlwaysAlone, PTL

=============================================================================
