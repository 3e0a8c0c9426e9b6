-------------------------- MODULE DeliverableCache --------------------------
(***************************************************************************)
(* The deliverable caches of services/mcp/token_store.py and the requests  *)
(* of services/mcp/server.py that work on them: WebDAV PUT, DELETE, MOVE   *)
(* and COPY, export to the host, close behind the dirty gate, provision,   *)
(* and the staging of a plain session; the last two reap on their way.     *)
(*                                                                         *)
(* A cache is a directory and a sidecar file next to it; nothing is locked.*)
(* Requests run in worker threads (asyncio.to_thread), so each is a        *)
(* sequence of file-system steps, and a kill of the server ends them all.  *)
(* A load that is a single thread sends its requests one at a time.        *)
(*                                                                         *)
(* A file is its content, a fresh version per upload, and its mtime.       *)
(* Every step that takes a time stamp takes a new one; a request touches   *)
(* the directory at the door, and what it changes in it right after is not *)
(* stamped again.  Requests that only read or are refused at the door,     *)
(* directories inside a cache, the WebDAV lock table (whose locks never    *)
(* refuse their owner) and Overwrite: F are left out.                      *)
(***************************************************************************)
EXTENDS Naturals, FiniteSets

CONSTANTS
    Threads,        \* worker threads
    Tokens,         \* bound: tokens ever minted
    Subjects,       \* pairs of owner_identity and subject_id
    Loads,          \* what the server is asked: threads and subjects at work, and the bounds
    Files,          \* paths inside a cache
    Targets,        \* pairs <<source, destination>> asked of MOVE and COPY
    TOKEN_TTL,      \* idle life of a plain session
    SAFETY_TTL      \* idle life of a deliverable cache

(* requests: bound on requests served; idles: times nothing happens for    *)
(* SAFETY_TTL; crashes: kills of the server.                               *)
Load == [threads : SUBSET Threads, subjects : SUBSET Subjects, requests : Nat, idles : Nat, crashes : Nat]

ASSUME CacheAssumption ==
    /\ Targets \subseteq Files \X Files
    /\ TOKEN_TTL \in Nat \ {0} /\ SAFETY_TTL \in Nat \ {0}
    /\ Loads \subseteq Load

VARIABLES
    load,       \* the load served
    dirs,       \* tokens whose directory exists
    tree,       \* per token: what is at each path of its directory
    mtime,      \* per token: mtime of its directory
    meta,       \* per token: the sidecar, NoMeta, or Torn (truncated, not yet written)
    req,        \* per thread: the request it serves
    clock,      \* the last time stamp taken
    acked,      \* history: versions whose PUT was answered 201
    discarded,  \* history: versions a client overwrote, deleted, force-closed or moved or copied
                \* onto their own path, or that expired unused
    host,       \* history: <<path, version>> copied to the host by exports
    lastUse,    \* history: per token, when a request last addressed it
    lost,       \* history: <<path, version>> removed by a close without force or before its time
    begun, idles, crashes

disk == <<dirs, tree, mtime, meta>>
history == <<acked, discarded, host, lastUse, lost>>
bounds == <<begun, idles, crashes>>
vars == <<load, disk, req, clock, history, bounds>>

NoFile == [is |-> "no file"]
NoMeta == [is |-> "no sidecar"]
Torn == [is |-> "unreadable"]
Never == 0
None == "none"

CacheMeta == [subject : Subjects, used : Nat, exported : Nat]
EmptyTree == [f \in Files |-> NoFile]

Op == {"put", "delete", "move", "copy", "export", "close", "provision", "stage"}
NoRequest == [op |-> "none"]

\* resolve and cache_meta find the token
Known(t) == t \in dirs /\ meta[t] \in CacheMeta
Held(t) == {f \in Files : tree[t][f] # NoFile}
Placed(t) == {<<f, tree[t][f].version>> : f \in Held(t)}
Stored(t) == {tree[t][f].version : f \in Held(t)}
VersionAt(t, f) == {tree[t][g].version : g \in Held(t) \cap {f}}
Now == clock + 1

\* moving on to a step, setting the given fields, and answering the request
Goto(th, step) == req' = [req EXCEPT ![th].at = step]
Done(th) == req' = [req EXCEPT ![th] = NoRequest]
Is(th, op, step) == req[th] # NoRequest /\ req[th].op \in op /\ req[th].at = step

Init ==
    /\ load \in Loads
    /\ dirs = {}
    /\ tree = [t \in Tokens |-> EmptyTree]
    /\ mtime = [t \in Tokens |-> Never]
    /\ meta = [t \in Tokens |-> NoMeta]
    /\ req = [th \in Threads |-> NoRequest]
    /\ clock = 1
    /\ acked = {} /\ discarded = {} /\ host = {} /\ lost = {}
    /\ lastUse = [t \in Tokens |-> Never]
    /\ begun = 0 /\ idles = 0 /\ crashes = 0

----------------------------------------------------------------------------
(* Beginning a request *)

Free(th) == req[th] = NoRequest /\ begun < load.requests

FirstStep == [put |-> "write", delete |-> "delete", move |-> "clear", copy |-> "clear",
              export |-> "list", close |-> "check", provision |-> "scan", stage |-> "sweep"]
Asked(op, t, s, f, g, force) ==
    [op |-> op, at |-> FirstStep[op], token |-> t, file |-> f, dst |-> g, force |-> force,
     subject |-> s, version |-> 0, record |-> NoMeta, paths |-> {}, todo |-> {}]

(* A request of the owner on a cache of theirs.  Resolving the token       *)
(* touches its directory, which keeps it from the reaper.                  *)
dispatch(th, op, t, f, g, force) ==
    /\ Free(th) /\ Known(t)
    /\ req' = [req EXCEPT ![th] = Asked(op, t, meta[t].subject, f, g, force)]
    /\ mtime' = [mtime EXCEPT ![t] = Now]
    /\ lastUse' = [lastUse EXCEPT ![t] = Now]
    /\ clock' = Now /\ begun' = begun + 1
    /\ UNCHANGED <<dirs, tree, meta, acked, discarded, host, lost, idles, crashes>>

Fresh == {t \in Tokens : t \notin dirs /\ meta[t] = NoMeta /\ lastUse[t] = Never}
Minting == {th \in Threads : req[th] # NoRequest /\ req[th].op \in {"provision", "stage"}}

\* begun only while the bound leaves each of them a token
begin_minting(th, op, s) ==
    /\ Free(th) /\ op \in {"provision", "stage"} /\ Cardinality(Minting) < Cardinality(Fresh)
    /\ req' = [req EXCEPT ![th] = Asked(op, None, s, None, None, FALSE)]
    /\ begun' = begun + 1
    /\ UNCHANGED <<disk, clock, history, idles, crashes>>

----------------------------------------------------------------------------
(* Rewriting a sidecar: it is read, opened (which truncates it), filled *)

\* read the record and prepare its new one, or fail for want of a sidecar or a directory
Rewrite(th, t, record) ==
    \/ /\ Known(t)
       /\ req' = [req EXCEPT ![th].at = "open", ![th].record = record]
       /\ mtime' = [mtime EXCEPT ![t] = Now]
    \/ /\ ~ Known(t) /\ Done(th)
       /\ UNCHANGED mtime

MutantTouch(th) ==
    LET t == req[th].token IN
    /\ Is(th, {"put"}, "read")
    /\ Rewrite(th, t, [meta[t] EXCEPT !.used = Now, !.exported = Now])
    /\ clock' = Now
    /\ UNCHANGED <<dirs, tree, meta, history, bounds>>

touch_cache(th) ==
    LET t == req[th].token IN
    /\ Is(th, {"put"}, "read")
    /\ Rewrite(th, t, [meta[t] EXCEPT !.used = Now])
    /\ clock' = Now
    /\ UNCHANGED <<dirs, tree, meta, history, bounds>>

mark_exported(th) ==
    LET t == req[th].token IN
    /\ Is(th, {"export"}, "read")
    /\ Rewrite(th, t, [meta[t] EXCEPT !.used = Now, !.exported = Now])
    /\ clock' = Now
    /\ UNCHANGED <<dirs, tree, meta, history, bounds>>

open_meta(th) ==
    /\ Is(th, Op, "open")
    /\ meta' = [meta EXCEPT ![req[th].token] = Torn]
    /\ Goto(th, "fill")
    /\ UNCHANGED <<dirs, tree, mtime, clock, history, bounds>>

\* the last step of a put (answered 201), an export and a provision
fill_meta(th) ==
    /\ Is(th, Op, "fill")
    /\ meta' = [meta EXCEPT ![req[th].token] = req[th].record]
    /\ acked' = acked \cup (IF req[th].op = "put" THEN {req[th].version} ELSE {})
    /\ lastUse' = [lastUse EXCEPT ![req[th].token] = req[th].record.used]
    /\ Done(th)
    /\ UNCHANGED <<dirs, tree, mtime, clock, discarded, host, lost, bounds>>

----------------------------------------------------------------------------
(* PUT, DELETE, MOVE, COPY *)

\* the parents of a path, the cache's own directory among them if it is gone
MakeParents(t) ==
    /\ dirs' = dirs \cup {t}
    /\ mtime' = IF t \in dirs THEN mtime ELSE [mtime EXCEPT ![t] = Now]
    /\ clock' = Now

put_write(th) ==
    LET t == req[th].token
        f == req[th].file
    IN
    /\ Is(th, {"put"}, "write")
    /\ discarded' = discarded \cup VersionAt(t, f)
    /\ MakeParents(t)
    /\ tree' = [tree EXCEPT ![t][f] = [version |-> Now, mtime |-> Now]]
    /\ req' = [req EXCEPT ![th].at = "read", ![th].version = Now]
    /\ UNCHANGED <<meta, acked, host, lastUse, lost, bounds>>

dav_delete(th) ==
    LET t == req[th].token
        f == req[th].file
    IN
    /\ Is(th, {"delete"}, "delete")
    /\ discarded' = discarded \cup VersionAt(t, f)
    /\ tree' = [tree EXCEPT ![t][f] = NoFile]
    /\ Done(th)
    /\ UNCHANGED <<dirs, mtime, meta, clock, acked, host, lastUse, lost, bounds>>

\* what a client loses when g is cleared for f: all that is there if f is g itself
Overwritten(t, f, g) == IF f = g THEN VersionAt(t, g) ELSE VersionAt(t, g) \ VersionAt(t, f)

MutantClear(th) ==
    LET t == req[th].token
        f == req[th].file
        g == req[th].dst
    IN
    /\ Is(th, {"move", "copy"}, "clear")
    /\ tree' = [tree EXCEPT ![t][g] = NoFile]
    /\ IF f \in Held(t)
       THEN Goto(th, "put_down") /\ discarded' = discarded \cup Overwritten(t, f, g)
       ELSE Done(th) /\ UNCHANGED discarded
    /\ UNCHANGED <<dirs, mtime, meta, clock, acked, host, lastUse, lost, bounds>>

(* MOVE and COPY first clear the destination, when there is a source.      *)
(* The two paths are never compared: where they are one, this removes the  *)
(* source, and put_down then fails for want of it.                         *)
clear_dest(th) ==
    LET t == req[th].token
        f == req[th].file
        g == req[th].dst
    IN
    /\ Is(th, {"move", "copy"}, "clear")
    /\ \/ /\ f \notin Held(t) /\ Done(th)
          /\ UNCHANGED <<tree, discarded>>
       \/ /\ f \in Held(t) /\ Goto(th, "put_down")
          /\ tree' = [tree EXCEPT ![t][g] = NoFile]
          /\ discarded' = discarded \cup Overwritten(t, f, g)
    /\ UNCHANGED <<dirs, mtime, meta, clock, acked, host, lastUse, lost, bounds>>

(* The destination's parents are made anew.  Renaming and copy2 keep the   *)
(* mtime of the file.  Without the source both fail.                       *)
put_down(th) ==
    LET t == req[th].token
        f == req[th].file
        g == req[th].dst
        vacated == IF req[th].op = "move" THEN {f} ELSE {}
    IN
    /\ Is(th, {"move", "copy"}, "put_down")
    /\ Done(th)
    /\ MakeParents(t)
    /\ IF f \notin Held(t) THEN UNCHANGED <<tree, discarded>>
       ELSE /\ discarded' = discarded \cup (VersionAt(t, g) \ VersionAt(t, f))
            /\ tree' = [tree EXCEPT ![t] =
                  [h \in Files |-> IF h = g THEN tree[t][f]
                                   ELSE IF h \in vacated THEN NoFile ELSE tree[t][h]]]
    /\ UNCHANGED <<meta, acked, host, lastUse, lost, bounds>>

----------------------------------------------------------------------------
(* Export: every path found at the start is copied, one that is gone is not *)

export_list(th) ==
    /\ Is(th, {"export"}, "list")
    /\ IF req[th].token \notin dirs THEN Done(th)
       ELSE req' = [req EXCEPT ![th].at = "copy", ![th].paths = Held(req[th].token)]
    /\ UNCHANGED <<disk, clock, history, bounds>>

export_copy(th) ==
    LET t == req[th].token IN
    /\ Is(th, {"export"}, "copy")
    /\ \/ /\ req[th].paths = {} /\ Goto(th, "read")
          /\ UNCHANGED host
       \/ \E f \in req[th].paths :
             /\ req' = [req EXCEPT ![th].paths = @ \ {f}]
             /\ host' = host \cup ({f} \X VersionAt(t, f))
    /\ UNCHANGED <<disk, clock, acked, discarded, lastUse, lost, bounds>>

----------------------------------------------------------------------------
(* Close: the dirty gate, then the directory, then the sidecar *)

\* never exported, or changed since
Dirty(t) == {f \in Held(t) : meta[t].exported = Never \/ tree[t][f].mtime > meta[t].exported}
MayClose(t, force) == Known(t) /\ (force \/ Dirty(t) = {})

close_check(th) ==
    /\ Is(th, {"close"}, "check")
    /\ IF MayClose(req[th].token, req[th].force) THEN Goto(th, "remove") ELSE Done(th)
    /\ UNCHANGED <<disk, clock, history, bounds>>

close_remove(th) ==
    LET t == req[th].token IN
    /\ Is(th, {"close"}, "remove")
    /\ \/ /\ ~ Known(t) /\ Done(th)
          /\ UNCHANGED <<dirs, tree, discarded, lost>>
       \/ /\ Known(t) /\ Goto(th, "unlink")
          /\ dirs' = dirs \ {t}
          /\ tree' = [tree EXCEPT ![t] = EmptyTree]
          /\ discarded' = discarded \cup (IF req[th].force THEN Stored(t) ELSE {})
          /\ lost' = lost \cup (IF req[th].force THEN {} ELSE Placed(t))
    /\ UNCHANGED <<mtime, meta, clock, acked, host, lastUse, bounds>>

close_unlink(th) ==
    /\ Is(th, {"close"}, "unlink")
    /\ meta' = [meta EXCEPT ![req[th].token] = NoMeta]
    /\ Done(th)
    /\ UNCHANGED <<dirs, tree, mtime, clock, history, bounds>>

----------------------------------------------------------------------------
(* Provision: find the subject's cache, or reap and mint one *)

MutantMatch(s) == {}
Match(s) == {t \in Tokens : Known(t) /\ meta[t].subject = s}

\* a sidecar that cannot be read fails the request
provision_scan(th) ==
    /\ Is(th, {"provision"}, "scan")
    /\ \/ /\ \E t \in Tokens : meta[t] = Torn
          /\ Done(th)
          /\ UNCHANGED clock
       \/ \E t \in Match(req[th].subject) :
             /\ req' = [req EXCEPT ![th].at = "open", ![th].token = t,
                                   ![th].record = [meta[t] EXCEPT !.used = Now]]
             /\ clock' = Now
       \/ /\ Match(req[th].subject) = {} /\ \A t \in Tokens : meta[t] # Torn
          /\ Goto(th, "sweep")
          /\ UNCHANGED clock
    /\ UNCHANGED <<disk, history, bounds>>

\* plain sessions idle for TOKEN_TTL go; then every sidecar is looked at, in any order;
\* one that cannot be read, or is gone by then, fails the request
reap_ephemeral(th) ==
    LET Stale == {t \in dirs : meta[t] = NoMeta /\ Now - mtime[t] > TOKEN_TTL} IN
    /\ Is(th, {"provision", "stage"}, "sweep")
    /\ dirs' = dirs \ Stale
    /\ tree' = [t \in Tokens |-> IF t \in Stale THEN EmptyTree ELSE tree[t]]
    /\ lost' = lost \cup UNION {Placed(t) : t \in Stale}
    /\ req' = [req EXCEPT ![th].at = "reap", ![th].todo = {t \in Tokens : meta[t] # NoMeta}]
    /\ UNCHANGED <<mtime, meta, clock, acked, discarded, host, lastUse, bounds>>

MutantIdle(t) == Now - meta[t].used >= SAFETY_TTL

\* by the later of last_used_at and the mtime of the directory
Idle(t) == Now - meta[t].used >= SAFETY_TTL /\ Now - mtime[t] >= SAFETY_TTL

reap_safety_net(th) ==
    /\ Is(th, {"provision", "stage"}, "reap")
    /\ \/ /\ req[th].todo = {} /\ Goto(th, "mint")
       \/ \E t \in req[th].todo :
             \/ meta[t] \notin CacheMeta /\ Done(th)
             \/ /\ meta[t] \in CacheMeta /\ t \notin dirs
                /\ req' = [req EXCEPT ![th].at = "forget", ![th].token = t, ![th].todo = @ \ {t}]
             \/ /\ Known(t) /\ Idle(t)
                /\ req' = [req EXCEPT ![th].at = "expire", ![th].token = t, ![th].todo = @ \ {t}]
             \/ /\ Known(t) /\ ~ Idle(t)
                /\ req' = [req EXCEPT ![th].todo = @ \ {t}]
    /\ UNCHANGED <<disk, clock, history, bounds>>

\* what nobody addressed for SAFETY_TTL has expired
reap_remove(th) ==
    LET t == req[th].token IN
    /\ Is(th, {"provision", "stage"}, "expire")
    /\ dirs' = dirs \ {t}
    /\ tree' = [tree EXCEPT ![t] = EmptyTree]
    /\ discarded' = discarded \cup (IF Now - lastUse[t] >= SAFETY_TTL THEN Stored(t) ELSE {})
    /\ lost' = lost \cup (IF Now - lastUse[t] >= SAFETY_TTL THEN {} ELSE Placed(t))
    /\ Goto(th, "forget")
    /\ UNCHANGED <<mtime, meta, clock, acked, host, lastUse, bounds>>

reap_forget(th) ==
    /\ Is(th, {"provision", "stage"}, "forget")
    /\ meta' = [meta EXCEPT ![req[th].token] = NoMeta]
    /\ Goto(th, "reap")
    /\ UNCHANGED <<dirs, tree, mtime, clock, history, bounds>>

new_token(th) ==
    /\ Is(th, {"provision", "stage"}, "mint")
    /\ \E t \in Fresh :
          /\ dirs' = dirs \cup {t}
          /\ mtime' = [mtime EXCEPT ![t] = Now]
          /\ lastUse' = [lastUse EXCEPT ![t] = Now]
          /\ IF req[th].op = "stage" THEN Done(th)
             ELSE req' = [req EXCEPT ![th].at = "open", ![th].token = t, ![th].record =
                             [subject |-> req[th].subject, used |-> Now, exported |-> Never]]
    /\ clock' = Now
    /\ UNCHANGED <<tree, meta, acked, discarded, host, lost, bounds>>

----------------------------------------------------------------------------
idle ==
    /\ idles < load.idles /\ \A th \in Threads : req[th] = NoRequest
    /\ clock' = clock + SAFETY_TTL
    /\ idles' = idles + 1
    /\ UNCHANGED <<disk, req, history, begun, crashes>>

crash ==
    /\ crashes < load.crashes /\ \E th \in Threads : req[th] # NoRequest
    /\ req' = [th \in Threads |-> NoRequest]
    /\ crashes' = crashes + 1
    /\ UNCHANGED <<disk, clock, history, begun, idles>>

Begin(th) ==
    \/ \E t \in Tokens, f \in Files : \/ dispatch(th, "put", t, f, f, FALSE)
                                      \/ tree[t][f] # NoFile /\ dispatch(th, "delete", t, f, f, FALSE)
    \/ \E t \in Tokens, p \in Targets, op \in {"move", "copy"} : dispatch(th, op, t, p[1], p[2], FALSE)
    \/ \E t \in Tokens : dispatch(th, "export", t, None, None, FALSE)
    \/ \E t \in Tokens, force \in BOOLEAN : dispatch(th, "close", t, None, None, force)
    \/ \E s \in load.subjects, op \in {"provision", "stage"} : begin_minting(th, op, s)

Work(th) ==
    \/ touch_cache(th) \/ mark_exported(th) \/ open_meta(th) \/ fill_meta(th)
    \/ put_write(th) \/ dav_delete(th) \/ clear_dest(th) \/ put_down(th)
    \/ export_list(th) \/ export_copy(th)
    \/ close_check(th) \/ close_remove(th) \/ close_unlink(th)
    \/ provision_scan(th) \/ reap_ephemeral(th) \/ reap_safety_net(th)
    \/ reap_remove(th) \/ reap_forget(th) \/ new_token(th)

Next == ((\E th \in load.threads : Begin(th) \/ Work(th)) \/ idle \/ crash) /\ UNCHANGED load

Spec == Init /\ [][Next]_vars

----------------------------------------------------------------------------
(* Properties *)

(* Directories, sidecars and requests have the shape the code gives them.  *)
Step == {"write", "delete", "clear", "put_down", "list", "copy", "check", "remove", "unlink", "read",
         "open", "fill", "scan", "sweep", "reap", "expire", "forget", "mint"}
Request == [op : Op, at : Step, token : Tokens \cup {None}, file : Files \cup {None},
            dst : Files \cup {None}, force : BOOLEAN, subject : Subjects, version : Nat,
            record : CacheMeta \cup {NoMeta}, paths : SUBSET Files, todo : SUBSET Tokens]
TypeOK ==
    /\ load \in Loads
    /\ dirs \subseteq Tokens
    /\ tree \in [Tokens -> [Files -> [version : Nat, mtime : Nat] \cup {NoFile}]]
    /\ mtime \in [Tokens -> Nat]
    /\ meta \in [Tokens -> CacheMeta \cup {NoMeta, Torn}]
    /\ req \in [Threads -> Request \cup {NoRequest}]
    /\ clock \in Nat
    /\ lastUse \in [Tokens -> Nat]
    /\ acked \subseteq Nat /\ discarded \subseteq Nat
    /\ host \subseteq Files \X Nat /\ lost \subseteq Files \X Nat
    /\ begun \in Nat /\ idles \in Nat /\ crashes \in Nat

(* An upload the server answered 201 is in a cache or on the host, unless  *)
(* a client overwrote, deleted or force-closed it, moved or copied it onto *)
(* its own path (which destroys it), or left its cache unused for the      *)
(* safety-net TTL: neither the dirty gate nor the reaper nor a rename to   *)
(* another path, whatever the order of requests and kills, loses it.       *)
Exported == {h[2] : h \in host}
UploadsSurvive == acked \subseteq (UNION {Stored(t) : t \in Tokens}) \cup Exported \cup discarded

(* The same, as long as requests come one at a time.                       *)
Alone == \A th, u \in load.threads : th = u
UploadsSurviveAlone == Alone => UploadsSurvive

(* What the close gate counts as clean is on the host: no request but an   *)
(* export that copied everything moves a file behind last_export_at, as    *)
(* long as requests come one at a time.                                    *)
CleanIsExported ==
    Alone => \A t \in Tokens : meta[t] \in CacheMeta =>
        \A f \in Held(t) \ Dirty(t) : tree[t][f].version \in Exported

(* provision_cache finds or mints: an owner's subject has one cache, as    *)
(* long as requests come one at a time.                                    *)
OneCachePerSubject ==
    Alone => \A t, u \in Tokens : Known(t) /\ Known(u) /\ meta[t].subject = meta[u].subject => t = u

(* However requests overlap, an upload answered 201 disappears only with   *)
(* its path, by a client's request (one that overwrites or deletes it, or  *)
(* moves or copies it onto itself), or with its cache, by a close or the   *)
(* reaper: concurrent PUT, MOVE and COPY never lose one between them.      *)
Removed == {l[2] : l \in lost}
UploadsAccountedFor ==
    acked \subseteq (UNION {Stored(t) : t \in Tokens}) \cup Exported \cup discarded \cup Removed

=============================================================================
