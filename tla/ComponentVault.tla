--------------------------- MODULE ComponentVault ----------------------------
(***************************************************************************)
(* The component vault (packages/component-kb): an SQLite database and a   *)
(* directory of blobs, worked on by vault_ingest calls in worker threads   *)
(* of the server and by imports of a datasheet cache, each over a          *)
(* connection of its own.                                                  *)
(*                                                                         *)
(* A transaction begins with BEGIN IMMEDIATE, so transactions come one     *)
(* after another and each is one step here, with the audit rows it adds;   *)
(* one that is refused the lock for too long fails.  What a call reads     *)
(* outside a transaction, and every file operation of write_blob, is a     *)
(* step of its own.  A kill ends every call; what SQLite committed and     *)
(* what was renamed stays.                                                 *)
(*                                                                         *)
(* A document is its content, its digest and its blob path in one.  A file *)
(* is a number with the fact whether all of the document is in it; a file  *)
(* that is renamed stays the file its writer holds open.                   *)
(***************************************************************************)
EXTENDS Naturals, FiniteSets, Sequences

CONSTANTS
    Threads,        \* connections at work at the same time
    Documents,
    Extractors,     \* who cut a document into chunks
    Values,         \* spec values of the cache that is imported
    SCHEMA_VERSION, \* the last migration
    NoFile,
    MaxCalls, MaxCrashes, MaxFiles      \* bounds: calls, kills, temporary files ever made

ASSUME VaultAssumption ==
    /\ SCHEMA_VERSION \in Nat \ {0}
    /\ MaxCalls \in Nat /\ MaxCrashes \in Nat /\ MaxFiles \in Nat
    /\ NoFile \notin Nat

VARIABLES
    overlap,    \* whether calls may overlap
    version,    \* PRAGMA user_version
    tables,     \* migrations whose tables are there
    documents,  \* rows of documents
    chunks,     \* rows of chunks
    specs,      \* rows of spec_values an import wrote
    temp, blob, \* per document, the file at its temporary and at its final path
    whole,      \* per file ever made, whether it holds all of its document
    call,       \* per thread, the call it serves
    latest,     \* history: per document, the extractors of the last chunks ingested
    calls, crashes

db == <<version, tables, documents, chunks, specs>>
files == <<temp, blob, whole>>
vars == <<overlap, db, files, call, latest, calls, crashes>>

Made == DOMAIN whole
Idle == [op |-> "none"]
Step == {"open", "migrate", "look", "write_temp", "fill", "rename", "record", "cut", "compare", "insert"}
Ingest == [op : {"ingest"}, at : Step, seen : Nat, doc : Documents, cut_by : SUBSET Extractors, file : Nat \cup {NoFile}]
Import == [op : {"import"}, at : Step, seen : Nat, todo : SUBSET Values, value : Values]

Init ==
    /\ overlap \in BOOLEAN
    /\ version \in 0..SCHEMA_VERSION /\ tables = 1..version     \* a new vault, or one of an earlier release
    /\ documents = {} /\ chunks = {} /\ specs = {}
    /\ temp = [d \in Documents |-> NoFile] /\ blob = [d \in Documents |-> NoFile]
    /\ whole = <<>>
    /\ call = [t \in Threads |-> Idle]
    /\ latest = [d \in Documents |-> {}]
    /\ calls = 0 /\ crashes = 0

Is(t, op, step) == call[t] # Idle /\ call[t].op \in op /\ call[t].at = step
Goto(t, step) == call' = [call EXCEPT ![t].at = step]

Done(t) == call' = [call EXCEPT ![t] = Idle]

----------------------------------------------------------------------------
(* Opening the vault *)

begin(t, request) ==
    /\ call[t] = Idle /\ calls < MaxCalls
    /\ overlap \/ \A u \in Threads : call[u] = Idle
    /\ call' = [call EXCEPT ![t] = request]
    /\ calls' = calls + 1
    /\ UNCHANGED <<overlap, db, files, latest, crashes>>

\* user_version is read before the transaction of the migrations begins
open_vault(t) ==
    /\ Is(t, {"ingest", "import"}, "open")
    /\ call' = [call EXCEPT ![t].at = IF version < SCHEMA_VERSION THEN "migrate"
                                      ELSE IF call[t].op = "ingest" THEN "look" ELSE "compare",
                            ![t].seen = version]
    /\ UNCHANGED <<overlap, db, files, latest, calls, crashes>>

Pending(seen) == (seen + 1)..SCHEMA_VERSION

\* counts the migrations it applied
MutantMigrated(seen) == Cardinality(Pending(seen))
Migrated(seen) == SCHEMA_VERSION

\* tables that exist cannot be created: the transaction is rolled back and the call fails
apply_migrations(t) ==
    LET seen == call[t].seen IN
    /\ Is(t, {"ingest", "import"}, "migrate")
    /\ IF tables \cap Pending(seen) # {} THEN Done(t) /\ UNCHANGED <<version, tables>>
       ELSE /\ tables' = tables \cup Pending(seen)
            /\ version' = Migrated(seen)
            /\ Goto(t, IF call[t].op = "ingest" THEN "look" ELSE "compare")
    /\ UNCHANGED <<overlap, documents, chunks, specs, files, latest, calls, crashes>>

----------------------------------------------------------------------------
(* vault_ingest: write_blob, ingest_document, ingest_chunks *)

\* a blob that is there is never written again
look_for_blob(t) ==
    /\ Is(t, {"ingest"}, "look")
    /\ Goto(t, IF blob[call[t].doc] # NoFile THEN "record" ELSE "write_temp")
    /\ UNCHANGED <<overlap, db, files, latest, calls, crashes>>

\* opening for writing truncates the file that has the name, whoever wrote it
write_temp(t) ==
    LET d == call[t].doc
        new == Len(whole) + 1
    IN
    /\ Is(t, {"ingest"}, "write_temp")
    /\ \/ /\ temp[d] = NoFile /\ new <= MaxFiles
          /\ temp' = [temp EXCEPT ![d] = new]
          /\ whole' = Append(whole, FALSE)
       \/ /\ temp[d] # NoFile
          /\ whole' = [whole EXCEPT ![temp[d]] = FALSE]
          /\ UNCHANGED temp
    /\ call' = [call EXCEPT ![t].at = "fill", ![t].file = temp'[d]]
    /\ UNCHANGED <<overlap, db, blob, latest, calls, crashes>>

fill_temp(t) ==
    /\ Is(t, {"ingest"}, "fill")
    /\ whole' = [whole EXCEPT ![call[t].file] = TRUE]
    /\ Goto(t, "rename")
    /\ UNCHANGED <<overlap, db, temp, blob, latest, calls, crashes>>

\* whatever file has the temporary name by now; without one the call fails
rename_temp(t) ==
    LET d == call[t].doc IN
    /\ Is(t, {"ingest"}, "rename")
    /\ IF temp[d] = NoFile THEN Done(t) /\ UNCHANGED <<temp, blob>>
       ELSE /\ blob' = [blob EXCEPT ![d] = temp[d]]
            /\ temp' = [temp EXCEPT ![d] = NoFile]
            /\ Goto(t, "record")
    /\ UNCHANGED <<overlap, db, whole, latest, calls, crashes>>

\* commits the row before the blob is written
MutantRecord(t) ==
    /\ Is(t, {"ingest"}, "write_temp")
    /\ documents' = documents \cup {call[t].doc}
    /\ Goto(t, "write_temp")
    /\ UNCHANGED <<overlap, version, tables, chunks, specs, files, latest, calls, crashes>>

\* a document of the same content is there once
ingest_document(t) ==
    /\ Is(t, {"ingest"}, "record")
    /\ documents' = documents \cup {call[t].doc}
    /\ Goto(t, "cut")
    /\ UNCHANGED <<overlap, version, tables, chunks, specs, files, latest, calls, crashes>>

\* marks the first chunk of another extractor only
MutantSuperseded(c, d, X) == c.doc = d /\ c.extractor \notin X /\ c.id = 1
Superseded(c, d, X) == c.doc = d /\ c.extractor \notin X

Marked(d, X) == {[c EXCEPT !.stale = c.stale \/ Superseded(c, d, X)] : c \in chunks}

\* one chunk for every extractor of the batch, whatever chunks are there
New(d, X) == {[id |-> Cardinality(chunks) + 1, doc |-> d, extractor |-> x, stale |-> FALSE] : x \in X}

\* active chunks of other extractors turn stale, the new ones are added, the same ones again too
ingest_chunks(t) ==
    LET d == call[t].doc
        X == call[t].cut_by
    IN
    /\ Is(t, {"ingest"}, "cut")
    /\ chunks' = Marked(d, X) \cup New(d, X)
    /\ latest' = [latest EXCEPT ![d] = X]
    /\ Done(t)
    /\ UNCHANGED <<overlap, version, tables, documents, specs, files, calls, crashes>>

----------------------------------------------------------------------------
(* import_client_cache: value by value, unless an import wrote it before *)

MutantDuplicate(v) == FALSE
Duplicate(v) == \E s \in specs : s.value = v

compare(t) ==
    /\ Is(t, {"import"}, "compare")
    /\ \/ /\ call[t].todo = {} /\ Done(t)
       \/ \E v \in call[t].todo :
             call' = [call EXCEPT ![t].todo = @ \ {v}, ![t].value = v,
                                  ![t].at = IF Duplicate(v) THEN "compare" ELSE "insert"]
    /\ UNCHANGED <<overlap, db, files, latest, calls, crashes>>

write_spec(t) ==
    /\ Is(t, {"import"}, "insert")
    /\ specs' = specs \cup {[id |-> Cardinality(specs) + 1, value |-> call[t].value]}
    /\ Goto(t, "compare")
    /\ UNCHANGED <<overlap, version, tables, documents, chunks, files, latest, calls, crashes>>

----------------------------------------------------------------------------
\* a transaction that does not get the lock fails its call
Locks == {"migrate", "record", "cut", "insert"}
locked_out(t) ==
    /\ overlap /\ call[t] # Idle /\ call[t].at \in Locks
    /\ Done(t)
    /\ UNCHANGED <<overlap, db, files, latest, calls, crashes>>

crash ==
    /\ crashes < MaxCrashes /\ \E t \in Threads : call[t] # Idle
    /\ call' = [t \in Threads |-> Idle]
    /\ crashes' = crashes + 1
    /\ UNCHANGED <<overlap, db, files, latest, calls>>

Begin(t) ==
    \/ \E d \in Documents, X \in (SUBSET Extractors) \ {{}} :
          begin(t, [op |-> "ingest", at |-> "open", seen |-> 0, doc |-> d, cut_by |-> X, file |-> NoFile])
    \/ \E v \in Values :
          begin(t, [op |-> "import", at |-> "open", seen |-> 0, todo |-> Values, value |-> v])

Work(t) ==
    \/ open_vault(t) \/ apply_migrations(t)
    \/ look_for_blob(t) \/ write_temp(t) \/ fill_temp(t) \/ rename_temp(t)
    \/ ingest_document(t) \/ ingest_chunks(t)
    \/ compare(t) \/ write_spec(t)
    \/ locked_out(t)

Next == (\E t \in Threads : Begin(t) \/ Work(t)) \/ crash

Spec == Init /\ [][Next]_vars

----------------------------------------------------------------------------
(* Properties *)

(* Rows, files and calls have the shape the code gives them.               *)
TypeOK ==
    /\ overlap \in BOOLEAN
    /\ version \in 0..SCHEMA_VERSION
    /\ whole \in Seq(BOOLEAN)
    /\ temp \in [Documents -> Made \cup {NoFile}]
    /\ blob \in [Documents -> Made \cup {NoFile}]
    /\ documents \subseteq Documents
    /\ call \in [Threads -> Ingest \cup Import \cup {Idle}]
    /\ latest \in [Documents -> SUBSET Extractors]

(* user_version tells which tables there are, whoever opens the vault for  *)
(* the first time beside whom and is killed when: no opener finds tables   *)
(* its version does not know of and fails for good.                        *)
SchemaMatches == tables = 1..version

(* A committed document has its blob at its path, kills leave blobs        *)
(* without rows only, and it holds all of the document as long as calls    *)
(* come one at a time.                                                     *)
RowsHaveBlobs ==
    \A d \in documents : blob[d] # NoFile /\ (~ overlap => whole[blob[d]])

(* However ingests of a document overlap and repeat, the chunks that a     *)
(* search finds are by the extractors of the document's last batch, by     *)
(* every one of them and by no other.  They need not be of that batch: the *)
(* chunks of an earlier batch by the same extractor stay active beside its *)
(* new ones.                                                               *)
ActiveIsByTheLast ==
    \A d \in Documents : {c.extractor : c \in {k \in chunks : k.doc = d /\ ~ k.stale}} = latest[d]

(* Importing a cache again after a kill adds no value twice, as long as    *)
(* imports come one at a time.                                             *)
ImportedOnce == ~ overlap => \A a, b \in specs : a.value = b.value => a = b

=============================================================================
