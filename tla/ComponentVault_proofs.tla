------------------------ MODULE ComponentVault_proofs -------------------------
(***************************************************************************)
(* Proofs about ComponentVault for any threads, documents, extractors,     *)
(* values, schema and bounds.  What the code reads outside a transaction   *)
(* is either checked again by the database (the version: tables cannot be  *)
(* created twice), or stays true (a blob that is there), or is safe only   *)
(* while calls come one at a time (the temporary file, the comparison of   *)
(* an import), which Serial and the parts after it say.                    *)
(***************************************************************************)
EXTENDS ComponentVault, TLAPS

(* No call knows of a version that was not there.                          *)
SeenIsPast == \A t \in Threads : call[t] # Idle => call[t].seen <= version

Serial == ~ overlap => \A t, u \in Threads : call[t] # Idle /\ call[u] # Idle => t = u

(* Files at temporary and final paths are all different.                   *)
FilesDiffer ==
    \A d, e \in Documents :
        /\ temp[d] # NoFile => temp[d] # blob[e]
        /\ temp[d] # NoFile /\ temp[d] = temp[e] => d = e

(* A row is recorded only when its blob is there.                          *)
RecordsFollowBlobs ==
    /\ \A d \in documents : blob[d] # NoFile
    /\ \A t \in Threads : Is(t, {"ingest"}, "record") => blob[call[t].doc] # NoFile

(* Alone, a writer fills the file that has the temporary name.             *)
WriterOwnsTemp ==
    ~ overlap =>
        /\ \A t \in Threads : Is(t, {"ingest"}, "fill") => call[t].file = temp[call[t].doc] /\ call[t].file # NoFile
        /\ \A t \in Threads : Is(t, {"ingest"}, "rename") =>
               temp[call[t].doc] # NoFile /\ whole[temp[call[t].doc]]
        /\ \A d \in Documents : blob[d] # NoFile => whole[blob[d]]

(* Alone, a value that is being inserted is not there.                     *)
InsertsAreNew ==
    ~ overlap => \A t \in Threads : Is(t, {"import"}, "insert") => ~ Duplicate(call[t].value)

Schema == TypeOK /\ SeenIsPast /\ SchemaMatches
FilesKept == FilesDiffer /\ RecordsFollowBlobs /\ WriterOwnsTemp
Blobs == TypeOK /\ Serial /\ FilesKept
ImportsKept == InsertsAreNew /\ ImportedOnce
Imports == TypeOK /\ Serial /\ ImportsKept
IsChunk(c) ==
    /\ c = [id |-> c.id, doc |-> c.doc, extractor |-> c.extractor, stale |-> c.stale]
    /\ c.doc \in Documents /\ c.stale \in BOOLEAN
(* An active chunk is by one of the last batch's extractors, and each of   *)
(* them has an active chunk.                                               *)
OfTheLast == \A c \in chunks : ~ c.stale => c.extractor \in latest[c.doc]
EachHasOne ==
    \A e \in Documents : \A x \in latest[e] : \E c \in chunks : c.doc = e /\ c.extractor = x /\ ~ c.stale
ChunksKept == (\A c \in chunks : IsChunk(c)) /\ OfTheLast /\ EachHasOne
Chunked == TypeOK /\ ChunksKept

----------------------------------------------------------------------------
(* Calls *)

(* A call in progress is no idle one.                                      *)
LEMMA CallsAreNotIdle == \A r \in Ingest \cup Import : r # Idle
BY DEF Ingest, Import, Idle

(* Moving on to a step changes nothing else of a call.                     *)
LEMMA MovingOn ==
    ASSUME TypeOK, NEW t \in Threads, call[t] # Idle, NEW step \in Step, Goto(t, step)
    PROVE  /\ call' \in [Threads -> Ingest \cup Import \cup {Idle}]
           /\ \A u \in Threads \ {t} : call'[u] = call[u]
           /\ call'[t] # Idle
           /\ call'[t].at = step /\ call'[t].op = call[t].op /\ call'[t].seen = call[t].seen
           /\ call[t].op = "ingest" => call'[t].doc = call[t].doc /\ call'[t].file = call[t].file
           /\ call[t].op = "import" => call'[t].value = call[t].value
<1>1. /\ DOMAIN call = Threads
      /\ call' = [call EXCEPT ![t] = [call[t] EXCEPT !.at = step]]
  BY DEF TypeOK, Goto
<1>2. CASE call[t] \in Ingest
  <2>1. [call[t] EXCEPT !.at = step] \in Ingest
    BY <1>2 DEF Ingest
  <2>2. QED
    BY <1>1, <1>2, <2>1, CallsAreNotIdle DEF TypeOK, Ingest
<1>3. CASE call[t] \in Import
  <2>1. [call[t] EXCEPT !.at = step] \in Import
    BY <1>3 DEF Import
  <2>2. QED
    BY <1>1, <1>3, <2>1, CallsAreNotIdle DEF TypeOK, Import
<1>4. QED
  BY <1>2, <1>3 DEF TypeOK

(* The end of a call touches no other.                                     *)
LEMMA Finishing ==
    ASSUME TypeOK, NEW t \in Threads, Done(t)
    PROVE  /\ call' \in [Threads -> Ingest \cup Import \cup {Idle}]
           /\ \A u \in Threads \ {t} : call'[u] = call[u]
           /\ call'[t] = Idle
BY DEF TypeOK, Done

(* A call begins by opening the vault, knowing nothing of it.              *)
LEMMA Beginning ==
    ASSUME TypeOK, NEW t \in Threads, Begin(t)
    PROVE  /\ call' \in [Threads -> Ingest \cup Import \cup {Idle}]
           /\ \A u \in Threads \ {t} : call'[u] = call[u]
           /\ call[t] = Idle /\ call'[t].at = "open" /\ call'[t].seen = 0
           /\ overlap \/ \A u \in Threads : call[u] = Idle
           /\ UNCHANGED <<overlap, db, files, latest, crashes>>
<1>1. ASSUME NEW request \in Ingest \cup Import, request.at = "open", request.seen = 0, begin(t, request)
      PROVE /\ call' \in [Threads -> Ingest \cup Import \cup {Idle}]
            /\ \A u \in Threads \ {t} : call'[u] = call[u]
            /\ call[t] = Idle /\ call'[t].at = "open" /\ call'[t].seen = 0
            /\ overlap \/ \A u \in Threads : call[u] = Idle
            /\ UNCHANGED <<overlap, db, files, latest, crashes>>
  BY <1>1 DEF begin, TypeOK
<1>2. \A d \in Documents : \A X \in (SUBSET Extractors) \ {{}} :
         [op |-> "ingest", at |-> "open", seen |-> 0, doc |-> d, cut_by |-> X, file |-> NoFile] \in Ingest
  BY DEF Ingest, Step
<1>3. \A v \in Values :
         [op |-> "import", at |-> "open", seen |-> 0, todo |-> Values, value |-> v] \in Import
  BY DEF Import, Step
<1>4. CASE \E d \in Documents, X \in (SUBSET Extractors) \ {{}} :
              begin(t, [op |-> "ingest", at |-> "open", seen |-> 0, doc |-> d, cut_by |-> X, file |-> NoFile])
  <2>1. PICK d \in Documents : \E X \in (SUBSET Extractors) \ {{}} :
              begin(t, [op |-> "ingest", at |-> "open", seen |-> 0, doc |-> d, cut_by |-> X, file |-> NoFile])
    BY <1>4, Zenon
  <2>2. PICK X \in (SUBSET Extractors) \ {{}} :
              begin(t, [op |-> "ingest", at |-> "open", seen |-> 0, doc |-> d, cut_by |-> X, file |-> NoFile])
    BY <2>1, Zenon
  <2> DEFINE request == [op |-> "ingest", at |-> "open", seen |-> 0, doc |-> d, cut_by |-> X, file |-> NoFile]
  <2>3. request \in Ingest \cup Import /\ request.at = "open" /\ request.seen = 0 /\ begin(t, request)
    BY <1>2, <2>2
  <2> HIDE DEF request
  <2>4. QED
    BY <1>1, <2>3
<1>5. CASE \E v \in Values :
              begin(t, [op |-> "import", at |-> "open", seen |-> 0, todo |-> Values, value |-> v])
  <2>1. PICK v \in Values :
              begin(t, [op |-> "import", at |-> "open", seen |-> 0, todo |-> Values, value |-> v])
    BY <1>5, Zenon
  <2> DEFINE request == [op |-> "import", at |-> "open", seen |-> 0, todo |-> Values, value |-> v]
  <2>2. request \in Ingest \cup Import /\ request.at = "open" /\ request.seen = 0 /\ begin(t, request)
    BY <1>3, <2>1
  <2> HIDE DEF request
  <2>3. QED
    BY <1>1, <2>2
<1>6. QED
  BY <1>4, <1>5, Zenon DEF Begin

(* Opening the vault tells the version.                                    *)
LEMMA Opening ==
    ASSUME TypeOK, NEW t \in Threads, open_vault(t)
    PROVE  /\ call' \in [Threads -> Ingest \cup Import \cup {Idle}]
           /\ \A u \in Threads \ {t} : call'[u] = call[u]
           /\ call[t] # Idle /\ call'[t] # Idle
           /\ call'[t].at \in {"migrate", "look", "compare"} /\ call'[t].seen = version
<1> DEFINE step == IF version < SCHEMA_VERSION THEN "migrate"
                   ELSE IF call[t].op = "ingest" THEN "look" ELSE "compare"
           r == [call[t] EXCEPT !.at = step, !.seen = version]
<1>1. step \in {"migrate", "look", "compare"} /\ version \in Nat
  BY VaultAssumption DEF TypeOK
<1>2. call' = [call EXCEPT ![t] = r] /\ call[t] # Idle /\ DOMAIN call = Threads
  BY DEF open_vault, Is, TypeOK
<1>3. call[t] \in Ingest \cup Import
  BY <1>2 DEF TypeOK
<1> HIDE DEF step
<1>4. r \in Ingest \cup Import /\ r.at = step /\ r.seen = version
  <2>1. CASE call[t] \in Ingest
    BY <1>1, <2>1 DEF Ingest, Step
  <2>2. CASE call[t] \in Import
    BY <1>1, <2>2 DEF Import, Step
  <2>3. QED
    BY <1>3, <2>1, <2>2
<1> HIDE DEF r
<1>5. QED
  BY <1>1, <1>2, <1>4, CallsAreNotIdle DEF TypeOK

(* Writing makes the temporary file a new one, or takes over the one that  *)
(* is there.                                                               *)
LEMMA Writing ==
    ASSUME TypeOK, NEW t \in Threads, write_temp(t), NEW d, d = call[t].doc
    PROVE  /\ call[t] \in Ingest /\ d \in Documents
           /\ whole' \in Seq(BOOLEAN) /\ Made \subseteq Made'
           /\ temp' \in [Documents -> Made' \cup {NoFile}]
           /\ temp'[d] \in Made' /\ temp'[d] \in Nat
           /\ temp[d] = NoFile => temp'[d] \notin Made
           /\ temp[d] # NoFile => temp'[d] = temp[d]
           /\ \A e \in Documents \ {d} : temp'[e] = temp[e]
           /\ \A f \in Made \ {temp'[d]} : whole'[f] = whole[f]
<1>1. call[t] \in Ingest /\ d \in Documents
  <2>1. call[t].op = "ingest" /\ call[t] # Idle
    BY DEF write_temp, Is
  <2>2. QED
    BY <2>1 DEF TypeOK, Ingest, Import
<1>2. Len(whole) \in Nat /\ Made = 1..Len(whole) /\ whole \in Seq(BOOLEAN) /\ Made' = DOMAIN whole'
  BY DEF TypeOK, Made
<1>3. CASE temp[d] = NoFile /\ temp' = [temp EXCEPT ![d] = Len(whole) + 1] /\ whole' = Append(whole, FALSE)
  <2>1. /\ whole' \in Seq(BOOLEAN) /\ Made' = 1..(Len(whole) + 1)
        /\ \A f \in Made : whole'[f] = whole[f]
    BY <1>2, <1>3
  <2>2. temp'[d] = Len(whole) + 1 /\ \A e \in Documents \ {d} : temp'[e] = temp[e]
    BY <1>1, <1>3 DEF TypeOK
  <2>3. temp' \in [Documents -> Made' \cup {NoFile}]
    BY <1>1, <1>2, <1>3, <2>1 DEF TypeOK
  <2>4. QED
    BY <1>1, <1>2, <1>3, <2>1, <2>2, <2>3
<1>4. CASE temp[d] # NoFile /\ whole' = [whole EXCEPT ![temp[d]] = FALSE] /\ temp' = temp
  <2>1. temp[d] \in Made
    BY <1>1, <1>4 DEF TypeOK
  <2>2. whole \in [1..Len(whole) -> BOOLEAN]
    BY <1>2
  <2>3. whole' \in [1..Len(whole) -> BOOLEAN]
    BY <1>2, <1>4, <2>1, <2>2
  <2>4. whole' \in Seq(BOOLEAN) /\ Made' = Made
    BY <1>2, <2>3
  <2>5. \A f \in Made \ {temp[d]} : whole'[f] = whole[f]
    BY <1>2, <1>4, <2>2
  <2>6. temp' \in [Documents -> Made' \cup {NoFile}]
    BY <1>4, <2>4 DEF TypeOK
  <2>7. temp'[d] \in Made' /\ temp'[d] \in Nat /\ temp'[d] = temp[d]
    BY <1>2, <1>4, <2>1, <2>4
  <2>8. QED
    BY <1>1, <1>4, <2>4, <2>5, <2>6, <2>7
<1>5. QED
  BY <1>3, <1>4 DEF write_temp

(* A writer goes on to fill the file that has the temporary name.          *)
LEMMA WriterGoesOn ==
    ASSUME TypeOK, NEW t \in Threads, write_temp(t), NEW d, d = call[t].doc
    PROVE  /\ call' \in [Threads -> Ingest \cup Import \cup {Idle}]
           /\ \A u \in Threads \ {t} : call'[u] = call[u]
           /\ call'[t] # Idle
           /\ call'[t].at = "fill" /\ call'[t].seen = call[t].seen
           /\ call'[t].doc = d /\ call'[t].file = temp'[d]
<1> DEFINE f == temp'[d]
           r == [call[t] EXCEPT !.at = "fill", !.file = f]
<1>1. call[t] \in Ingest /\ f \in Nat
  BY Writing
<1>2. call' = [call EXCEPT ![t] = r] /\ DOMAIN call = Threads
  BY DEF write_temp, TypeOK
<1> HIDE DEF f
<1>3. r \in Ingest /\ r.at = "fill" /\ r.seen = call[t].seen /\ r.doc = call[t].doc /\ r.file = f
  BY <1>1 DEF Ingest, Step
<1> HIDE DEF r
<1>4. QED
  BY <1>2, <1>3, CallsAreNotIdle DEF TypeOK, f

(* An import takes up a value, or is done.                                 *)
LEMMA Comparing ==
    ASSUME TypeOK, NEW t \in Threads, compare(t)
    PROVE  /\ call' \in [Threads -> Ingest \cup Import \cup {Idle}]
           /\ \A u \in Threads \ {t} : call'[u] = call[u]
           /\ call[t] # Idle
           /\ \/ call'[t] = Idle
              \/ /\ call'[t] # Idle /\ call'[t].seen = call[t].seen
                 /\ \/ call'[t].at = "compare"
                    \/ call'[t].at = "insert" /\ call'[t].op = "import" /\ ~ Duplicate(call'[t].value)
<1>1. CASE Done(t)
  BY <1>1, Finishing DEF compare, Is
<1>2. ASSUME NEW v \in call[t].todo,
             call' = [call EXCEPT ![t].todo = @ \ {v}, ![t].value = v,
                                  ![t].at = IF Duplicate(v) THEN "compare" ELSE "insert"]
      PROVE /\ call' \in [Threads -> Ingest \cup Import \cup {Idle}]
            /\ \A u \in Threads \ {t} : call'[u] = call[u]
            /\ call'[t] # Idle /\ call'[t].seen = call[t].seen
            /\ \/ call'[t].at = "compare"
               \/ call'[t].at = "insert" /\ call'[t].op = "import" /\ ~ Duplicate(call'[t].value)
  <2> DEFINE step == IF Duplicate(v) THEN "compare" ELSE "insert"
             r == [call[t] EXCEPT !.todo = @ \ {v}, !.value = v, !.at = step]
  <2>1. call[t] \in Import
    BY DEF compare, Is, TypeOK, Ingest
  <2>2. /\ step \in {"compare", "insert"} /\ (step = "insert" => ~ Duplicate(v))
        /\ call' = [call EXCEPT ![t] = r] /\ DOMAIN call = Threads
    BY <1>2 DEF TypeOK
  <2> HIDE DEF step
  <2>3. r \in Import /\ r.seen = call[t].seen /\ r.value = v /\ r.at = step /\ r.op = "import"
    BY <2>1, <2>2, <1>2 DEF Import, Step
  <2> HIDE DEF r
  <2>4. call'[t] = r /\ r # Idle
    BY <2>2, <2>3, CallsAreNotIdle
  <2>5. QED
    BY <2>2, <2>3, <2>4 DEF TypeOK
<1>3. QED
  BY <1>1, <1>2 DEF compare, Is
(* A step of a thread is a step of its call alone, and what the call knows *)
(* of the version is what it knew or what is there.                        *)
LEMMA OneThread ==
    ASSUME TypeOK, NEW t \in Threads, Begin(t) \/ Work(t)
    PROVE  /\ call' \in [Threads -> Ingest \cup Import \cup {Idle}]
           /\ \A u \in Threads \ {t} : call'[u] = call[u]
           /\ overlap' = overlap
           /\ call[t] = Idle => overlap \/ \A u \in Threads : call[u] = Idle
           /\ call'[t] # Idle => \/ call'[t].seen \in {0, version}
                                 \/ call[t] # Idle /\ call'[t].seen = call[t].seen
<1>1. CASE Begin(t)
  BY <1>1, Beginning
<1>2. CASE open_vault(t)
  BY <1>2, Opening DEF open_vault
<1>3. ASSUME NEW step \in Step, Goto(t, step), call[t] # Idle, overlap' = overlap
      PROVE /\ call' \in [Threads -> Ingest \cup Import \cup {Idle}]
            /\ \A u \in Threads \ {t} : call'[u] = call[u]
            /\ call[t] # Idle /\ call'[t].seen = call[t].seen
  BY <1>3, MovingOn
<1>4. ASSUME Done(t) PROVE /\ call' \in [Threads -> Ingest \cup Import \cup {Idle}]
                           /\ \A u \in Threads \ {t} : call'[u] = call[u]
                           /\ call'[t] = Idle
  BY <1>4, Finishing
<1>5. CASE apply_migrations(t)
  <2> DEFINE step == IF call[t].op = "ingest" THEN "look" ELSE "compare"
  <2>1. step \in Step /\ call[t] # Idle /\ overlap' = overlap /\ (Done(t) \/ Goto(t, step))
    BY <1>5 DEF apply_migrations, Is, Step
  <2> HIDE DEF step
  <2>2. QED
    BY <1>3, <1>4, <2>1
<1>6. CASE look_for_blob(t)
  <2> DEFINE step == IF blob[call[t].doc] # NoFile THEN "record" ELSE "write_temp"
  <2>1. step \in Step /\ call[t] # Idle /\ overlap' = overlap /\ Goto(t, step)
    BY <1>6 DEF look_for_blob, Is, Step
  <2> HIDE DEF step
  <2>2. QED
    BY <1>3, <2>1
<1>7. CASE write_temp(t)
  BY <1>7, WriterGoesOn DEF write_temp, Is
<1>8. CASE fill_temp(t)
  BY <1>3, <1>8 DEF fill_temp, Is, Step
<1>9. CASE rename_temp(t)
  BY <1>3, <1>4, <1>9 DEF rename_temp, Is, Step
<1>10. CASE ingest_document(t)
  BY <1>3, <1>10 DEF ingest_document, Is, Step
<1>11. CASE ingest_chunks(t)
  BY <1>4, <1>11 DEF ingest_chunks, Is
<1>12. CASE compare(t)
  BY <1>12, Comparing DEF compare
<1>13. CASE write_spec(t)
  BY <1>3, <1>13 DEF write_spec, Is, Step
<1>14. CASE locked_out(t)
  BY <1>4, <1>14 DEF locked_out
<1>15. QED
  BY <1>1, <1>2, <1>5, <1>6, <1>7, <1>8, <1>9, <1>10, <1>11, <1>12, <1>13, <1>14 DEF Work

(* A call that ingests names a document.                                   *)
LEMMA IngestsNameADocument ==
    ASSUME TypeOK, NEW t \in Threads, NEW step, Is(t, {"ingest"}, step)
    PROVE  call[t] \in Ingest /\ call[t].doc \in Documents
BY DEF TypeOK, Is, Ingest, Import

(* Rows, files and calls keep their shape.                                 *)
LEMMA TypeKept ==
    ASSUME TypeOK, [Next]_vars
    PROVE  TypeOK'
<1>1. ASSUME NEW t \in Threads, Begin(t) \/ Work(t)
      PROVE TypeOK'
  <2>1. call' \in [Threads -> Ingest \cup Import \cup {Idle}] /\ overlap' \in BOOLEAN
    BY <1>1, OneThread DEF TypeOK
  <2>2. CASE Begin(t)
    BY <2>1, <2>2, Beginning DEF TypeOK, db, files, Made
  <2>3. CASE open_vault(t) \/ look_for_blob(t) \/ compare(t) \/ write_spec(t) \/ locked_out(t)
    BY <2>1, <2>3 DEF open_vault, look_for_blob, compare, write_spec, locked_out, TypeOK, db, files, Made
  <2>4. CASE apply_migrations(t)
    <3>1. version' \in 0..SCHEMA_VERSION
      BY <2>4, VaultAssumption DEF apply_migrations, Migrated, TypeOK
    <3>2. QED
      BY <2>1, <2>4, <3>1 DEF apply_migrations, TypeOK, files, Made
  <2>5. CASE write_temp(t)
    <3>1. /\ whole' \in Seq(BOOLEAN) /\ Made \subseteq Made'
          /\ temp' \in [Documents -> Made' \cup {NoFile}]
      BY <2>5, Writing
    <3>2. blob' \in [Documents -> Made' \cup {NoFile}]
      BY <2>5, <3>1 DEF write_temp, TypeOK
    <3>3. UNCHANGED <<version, documents, latest>>
      BY <2>5 DEF write_temp, db
    <3>4. QED
      BY <2>1, <3>1, <3>2, <3>3 DEF TypeOK
  <2>6. CASE fill_temp(t)
    <3>1. whole \in [1..Len(whole) -> BOOLEAN] /\ Len(whole) \in Nat
      BY DEF TypeOK
    <3>2. whole' \in [1..Len(whole) -> BOOLEAN]
      BY <2>6, <3>1 DEF fill_temp
    <3>3. whole' \in Seq(BOOLEAN) /\ Made' = Made
      BY <3>1, <3>2 DEF Made
    <3>4. UNCHANGED <<version, documents, latest, temp, blob>>
      BY <2>6 DEF fill_temp, db
    <3>5. QED
      BY <2>1, <3>3, <3>4 DEF TypeOK
  <2>7. CASE rename_temp(t)
    <3>1. call[t].doc \in Documents
      BY <2>7, IngestsNameADocument DEF rename_temp
    <3>2. temp' \in [Documents -> Made \cup {NoFile}] /\ blob' \in [Documents -> Made \cup {NoFile}]
      BY <2>7, <3>1 DEF rename_temp, TypeOK
    <3>3. UNCHANGED <<version, documents, latest, whole, Made>>
      BY <2>7 DEF rename_temp, db, Made
    <3>4. QED
      BY <2>1, <3>2, <3>3 DEF TypeOK
  <2>8. CASE ingest_document(t)
    <3>1. call[t].doc \in Documents
      BY <2>8, IngestsNameADocument DEF ingest_document
    <3>2. QED
      BY <2>1, <2>8, <3>1 DEF ingest_document, TypeOK, files, Made
  <2>9. CASE ingest_chunks(t)
    <3>1. call[t] \in Ingest /\ call[t].doc \in Documents
      BY <2>9, IngestsNameADocument DEF ingest_chunks
    <3>2. call[t].cut_by \in SUBSET Extractors
      BY <3>1 DEF Ingest
    <3>3. latest' \in [Documents -> SUBSET Extractors]
      BY <2>9, <3>2 DEF ingest_chunks, TypeOK
    <3>4. QED
      BY <2>1, <2>9, <3>3 DEF ingest_chunks, TypeOK, files, Made
  <2>10. QED
    BY <1>1, <2>2, <2>3, <2>4, <2>5, <2>6, <2>7, <2>8, <2>9 DEF Work
<1>2. CASE crash
  BY <1>2 DEF crash, TypeOK, db, files, Made
<1>3. CASE UNCHANGED vars
  BY <1>3 DEF vars, TypeOK, db, files, Made
<1>4. QED
  BY <1>1, <1>2, <1>3 DEF Next

(* The vault begins in shape.                                              *)
LEMMA TypeAtFirst == Init => TypeOK
<1> SUFFICES ASSUME Init PROVE TypeOK
  OBVIOUS
<1>1. whole \in Seq(BOOLEAN) /\ version \in 0..SCHEMA_VERSION
  BY DEF Init
<1>2. call \in [Threads -> Ingest \cup Import \cup {Idle}]
  BY DEF Init
<1>3. QED
  BY <1>1, <1>2 DEF Init, TypeOK

----------------------------------------------------------------------------
(* The schema *)

(* Rows, files and calls have the shape the code gives them.               *)
THEOREM TypeCorrect == Spec => []TypeOK
<1>1. TypeOK /\ [Next]_vars => TypeOK'
  BY TypeKept
<1>2. QED
  BY <1>1, TypeAtFirst, PTL DEF Spec

(* user_version tells the tables that are there: a transaction that read   *)
(* it too early is rolled back by the database.                            *)
THEOREM VersionTellsTables == Spec => []SchemaMatches
<1>1. Init => Schema
  BY TypeAtFirst DEF Init, Schema, SeenIsPast, SchemaMatches
<1>2. Schema /\ [Next]_vars => Schema'
  <2> SUFFICES ASSUME Schema, [Next]_vars PROVE Schema'
    OBVIOUS
  <2> USE DEF Schema
  <2>1. TypeOK'
    BY TypeKept
  <2>2. version \in Nat /\ version' \in Nat
    BY <2>1, VaultAssumption DEF TypeOK
  <2>3. ASSUME NEW t \in Threads, Begin(t) \/ Work(t), version <= version'
        PROVE SeenIsPast'
    <3>1. \A u \in Threads : call[u] # Idle => call[u].seen \in Nat /\ call[u].seen <= version'
      BY <2>2, <2>3 DEF SeenIsPast, TypeOK, Ingest, Import
    <3>2. \A u \in Threads \ {t} : call'[u] = call[u]
      BY <2>3, OneThread
    <3>3. call'[t] # Idle => call'[t].seen \in {0, version} \/ (call[t] # Idle /\ call'[t].seen = call[t].seen)
      BY <2>3, OneThread
    <3>4. QED
      BY <2>2, <2>3, <3>1, <3>2, <3>3 DEF SeenIsPast
  <2>4. ASSUME NEW t \in Threads, Begin(t) \/ Work(t), ~ apply_migrations(t)
        PROVE version' = version /\ tables' = tables
    <3>1. CASE Begin(t)
      BY <3>1, Beginning DEF db
    <3>2. CASE Work(t)
      BY <2>4, <3>2 DEF Work, open_vault, look_for_blob, write_temp, fill_temp, rename_temp, ingest_document,
                        ingest_chunks, compare, write_spec, locked_out, db
    <3>3. QED
      BY <2>4, <3>1, <3>2
  <2>5. ASSUME NEW t \in Threads, apply_migrations(t)
        PROVE version <= version' /\ SchemaMatches'
    <3>1. version <= SCHEMA_VERSION /\ SCHEMA_VERSION \in Nat
      BY VaultAssumption DEF TypeOK
    <3>2. CASE UNCHANGED <<version, tables>>
      BY <2>2, <3>2 DEF SchemaMatches
    <3>3. CASE tables \cap Pending(call[t].seen) = {} /\ tables' = tables \cup Pending(call[t].seen)
               /\ version' = SCHEMA_VERSION
      <4>1. call[t].seen \in Nat /\ call[t].seen <= version
        BY <2>5 DEF apply_migrations, Is, TypeOK, SeenIsPast, Ingest, Import
      <4>2. call[t].seen = version
        <5>1. SUFFICES ASSUME call[t].seen < version PROVE FALSE
          BY <2>2, <4>1
        <5>2. version \in 1..version /\ version \in (call[t].seen + 1)..SCHEMA_VERSION
          BY <2>2, <3>1, <4>1, <5>1
        <5>3. QED
          BY <3>3, <5>2 DEF Pending, SchemaMatches
      <4>3. tables' = (1..version) \cup ((version + 1)..SCHEMA_VERSION)
        BY <3>3, <4>2 DEF Pending, SchemaMatches
      <4>4. QED
        BY <2>2, <3>1, <3>3, <4>3 DEF SchemaMatches
    <3>4. QED
      BY <2>5, <3>2, <3>3 DEF apply_migrations, Migrated
  <2>6. CASE \E t \in Threads : Begin(t) \/ Work(t)
    <3>1. PICK t \in Threads : Begin(t) \/ Work(t)
      BY <2>6
    <3>2. CASE apply_migrations(t)
      BY <2>1, <2>3, <2>5, <3>1, <3>2
    <3>3. CASE ~ apply_migrations(t)
      <4>1. version' = version /\ tables' = tables
        BY <2>4, <3>1, <3>3
      <4>2. QED
        BY <2>1, <2>2, <2>3, <3>1, <4>1 DEF SchemaMatches
    <3>4. QED
      BY <3>2, <3>3
  <2>7. CASE crash \/ UNCHANGED vars
    BY <2>1, <2>7 DEF crash, vars, db, SeenIsPast, SchemaMatches
  <2>8. QED
    BY <2>6, <2>7 DEF Next
<1>3. QED
  BY <1>1, <1>2, PTL DEF Spec, Schema
----------------------------------------------------------------------------
(* Blobs *)

(* Alone, the thread that takes a step is the only one with a call.        *)
LEMMA StaysSerial ==
    ASSUME TypeOK, Serial, [Next]_vars
    PROVE  Serial'
<1>1. ASSUME NEW t \in Threads, Begin(t) \/ Work(t)
      PROVE Serial'
  <2> SUFFICES ASSUME ~ overlap', NEW u \in Threads, NEW w \in Threads, call'[u] # Idle, call'[w] # Idle
               PROVE u = w
    BY DEF Serial
  <2>1. /\ ~ overlap /\ \A x \in Threads \ {t} : call'[x] = call[x]
        /\ call[t] = Idle => overlap \/ \A x \in Threads : call[x] = Idle
    BY <1>1, OneThread
  <2>2. QED
    BY <2>1 DEF Serial
<1>2. CASE crash \/ UNCHANGED vars
  BY <1>2 DEF crash, vars, Serial
<1>3. QED
  BY <1>1, <1>2 DEF Next

(* What the other threads do when one takes a step, with overlap or not.   *)
LEMMA TheOthers ==
    ASSUME TypeOK, Serial, NEW t \in Threads, Begin(t) \/ Work(t)
    PROVE  /\ \A u \in Threads \ {t} : call'[u] = call[u]
           /\ overlap' = overlap
           /\ ~ overlap => \A u \in Threads \ {t} : call'[u] = Idle
BY OneThread DEF Serial

(* A committed document has its blob, and alone its blob is whole.         *)
THEOREM DocumentsHaveBlobs == Spec => []RowsHaveBlobs
<1>1. Init => Blobs
  BY TypeAtFirst DEF Init, Blobs, FilesKept, Serial, FilesDiffer, RecordsFollowBlobs, WriterOwnsTemp, Is
<1>2. Blobs /\ [Next]_vars => Blobs'
  <2> SUFFICES ASSUME Blobs, [Next]_vars PROVE Blobs'
    OBVIOUS
  <2> USE DEF Blobs, FilesKept
  <2>1. TypeOK' /\ Serial'
    BY TypeKept, StaysSerial
  <2>2. NoFile \notin Made /\ NoFile \notin Nat
    BY VaultAssumption DEF Made, TypeOK
  <2>3. ASSUME NEW t \in Threads, Begin(t) \/ Work(t), UNCHANGED <<files, documents>>,
               ~ Is(t, {"ingest"}, "fill")', ~ Is(t, {"ingest"}, "rename")',
               Is(t, {"ingest"}, "record")' => blob[call'[t].doc] # NoFile
        PROVE FilesKept'
    <3>1. FilesDiffer'
      BY <2>3 DEF FilesDiffer, files
    <3>2. RecordsFollowBlobs'
      BY <2>3, TheOthers DEF RecordsFollowBlobs, files, Is
    <3>3. WriterOwnsTemp'
      BY <2>3, TheOthers DEF WriterOwnsTemp, files, Is
    <3>4. QED
      BY <3>1, <3>2, <3>3
  <2>4. ASSUME NEW t \in Threads, Begin(t) PROVE FilesKept'
    BY <2>3, <2>4, Beginning DEF db, Is
  <2>5. ASSUME NEW t \in Threads, open_vault(t) PROVE FilesKept'
    BY <2>3, <2>5, Opening DEF open_vault, db, Is, Work
  <2>6. ASSUME NEW t \in Threads, NEW step \in {"look", "compare", "record", "write_temp", "cut"},
               Work(t), call[t] # Idle, Goto(t, step), UNCHANGED <<files, documents>>,
               step = "record" => blob[call[t].doc] # NoFile /\ call[t].op = "ingest"
        PROVE FilesKept'
    BY <2>3, <2>6, MovingOn DEF Is, Step
  <2>7. ASSUME NEW t \in Threads, Work(t), Done(t), UNCHANGED <<files, documents>> PROVE FilesKept'
    BY <2>3, <2>7, Finishing DEF Is
  <2>8. ASSUME NEW t \in Threads, apply_migrations(t) PROVE FilesKept'
    <3> DEFINE step == IF call[t].op = "ingest" THEN "look" ELSE "compare"
    <3>1. step \in {"look", "compare"} /\ call[t] # Idle /\ (Done(t) \/ Goto(t, step))
          /\ Work(t) /\ UNCHANGED <<files, documents>>
      BY <2>8 DEF apply_migrations, Is, Work
    <3> HIDE DEF step
    <3>2. QED
      BY <2>6, <2>7, <3>1
  <2>9. ASSUME NEW t \in Threads, look_for_blob(t) PROVE FilesKept'
    <3> DEFINE step == IF blob[call[t].doc] # NoFile THEN "record" ELSE "write_temp"
    <3>1. /\ step \in {"record", "write_temp"} /\ call[t] # Idle /\ call[t].op = "ingest" /\ Goto(t, step)
          /\ step = "record" => blob[call[t].doc] # NoFile
          /\ Work(t) /\ UNCHANGED <<files, documents>>
      BY <2>9 DEF look_for_blob, Is, Work, db
    <3> HIDE DEF step
    <3>2. QED
      BY <2>6, <3>1
  <2>10. ASSUME NEW t \in Threads, write_temp(t) PROVE FilesKept'
    <3> DEFINE d == call[t].doc
    <3>1. /\ call[t] \in Ingest /\ d \in Documents /\ call'[t].at = "fill" /\ call'[t].doc = d
          /\ call'[t].file = temp'[d] /\ call'[t] # Idle
      BY <2>10, Writing, WriterGoesOn
    <3>2. /\ temp'[d] \in Nat /\ (temp[d] = NoFile => temp'[d] \notin Made) /\ (temp[d] # NoFile => temp'[d] = temp[d])
          /\ \A e \in Documents \ {d} : temp'[e] = temp[e]
          /\ \A f \in Made \ {temp'[d]} : whole'[f] = whole[f]
      BY <2>10, Writing
    <3>3. blob' = blob /\ documents' = documents
      BY <2>10 DEF write_temp, db
    <3>4. \A e \in Documents : blob[e] \in Made \cup {NoFile} /\ temp[e] \in Made \cup {NoFile}
      BY DEF TypeOK
    <3> HIDE DEF d
    <3>5. FilesDiffer'
      <4>1. \A e \in Documents : temp'[d] # blob[e]
        BY <2>2, <3>1, <3>2, <3>4 DEF FilesDiffer
      <4>2. \A e \in Documents \ {d} : temp'[d] # temp[e]
        BY <2>2, <3>1, <3>2, <3>4 DEF FilesDiffer
      <4>3. QED
        BY <3>1, <3>2, <3>3, <4>1, <4>2 DEF FilesDiffer
    <3>6. RecordsFollowBlobs'
      <4>1. \A u \in Threads \ {t} : call'[u] = call[u]
        BY <2>10, TheOthers DEF Work
      <4>2. QED
        BY <3>1, <3>3, <4>1 DEF RecordsFollowBlobs, Is
    <3>7. WriterOwnsTemp'
      <4> SUFFICES ASSUME ~ overlap' PROVE /\ \A u \in Threads : Is(u, {"ingest"}, "fill")' => call'[u].file = temp'[call'[u].doc] /\ call'[u].file # NoFile
                                           /\ \A u \in Threads : ~ Is(u, {"ingest"}, "rename")'
                                           /\ \A e \in Documents : blob'[e] # NoFile => whole'[blob'[e]]
        BY DEF WriterOwnsTemp
      <4>1. ~ overlap /\ \A u \in Threads \ {t} : call'[u] = Idle
        BY <2>10, TheOthers DEF Work
      <4>2. \A e \in Documents : blob[e] # NoFile => blob[e] \in Made \ {temp'[d]} /\ whole[blob[e]]
        BY <2>2, <3>1, <3>2, <3>4, <4>1 DEF FilesDiffer, WriterOwnsTemp
      <4>3. \A e \in Documents : blob'[e] # NoFile => whole'[blob'[e]]
        BY <3>2, <3>3, <4>2
      <4>4. QED
        BY <2>2, <3>1, <3>2, <4>1, <4>3 DEF Is
    <3>8. QED
      BY <3>5, <3>6, <3>7
  <2>11. ASSUME NEW t \in Threads, fill_temp(t) PROVE FilesKept'
    <3>1. /\ call[t] \in Ingest /\ call[t] # Idle /\ call[t].doc \in Documents /\ Goto(t, "rename")
          /\ whole' = [whole EXCEPT ![call[t].file] = TRUE] /\ UNCHANGED <<temp, blob, documents, overlap>>
          /\ Is(t, {"ingest"}, "fill") /\ Work(t)
      BY <2>11, IngestsNameADocument, CallsAreNotIdle DEF fill_temp, db, Work
    <3>2. call'[t].at = "rename" /\ call'[t].doc = call[t].doc
      BY <3>1, MovingOn DEF Step, Is
    <3>3. \A u \in Threads \ {t} : call'[u] = call[u]
      BY <3>1, TheOthers
    <3>4. FilesDiffer' /\ RecordsFollowBlobs'
      BY <3>1, <3>2, <3>3 DEF FilesDiffer, RecordsFollowBlobs, Is
    <3>5. WriterOwnsTemp'
      <4> SUFFICES ASSUME ~ overlap PROVE WriterOwnsTemp'
        BY <3>1 DEF WriterOwnsTemp
      <4>1. \A u \in Threads \ {t} : call'[u] = Idle
        BY <3>1, TheOthers
      <4>2. call[t].file = temp[call[t].doc] /\ temp[call[t].doc] \in Made
        BY <3>1 DEF WriterOwnsTemp, TypeOK
      <4>3. whole' = [f \in Made |-> IF f = call[t].file THEN TRUE ELSE whole[f]]
        BY <3>1 DEF Made, TypeOK
      <4>4. \A f \in Made : whole[f] => whole'[f]
        BY <4>3
      <4>5. \A e \in Documents : blob[e] # NoFile => blob[e] \in Made /\ whole[blob[e]]
        BY DEF WriterOwnsTemp, TypeOK
      <4>6. \A e \in Documents : blob'[e] # NoFile => whole'[blob'[e]]
        BY <3>1, <4>4, <4>5
      <4>7. temp'[call'[t].doc] # NoFile /\ whole'[temp'[call'[t].doc]]
        BY <2>2, <3>1, <3>2, <4>2, <4>3
      <4>8. QED
        BY <3>2, <4>1, <4>6, <4>7 DEF WriterOwnsTemp, Is
    <3>6. QED
      BY <3>4, <3>5
  <2>12. ASSUME NEW t \in Threads, rename_temp(t) PROVE FilesKept'
    <3>1. CASE Done(t) /\ UNCHANGED <<temp, blob>>
      BY <2>7, <2>12, <3>1 DEF rename_temp, files, db, Work
    <3>2. CASE temp[call[t].doc] # NoFile
      <4> DEFINE d == call[t].doc
      <4>1. /\ call[t] \in Ingest /\ call[t] # Idle /\ d \in Documents /\ Goto(t, "record")
            /\ blob' = [blob EXCEPT ![d] = temp[d]] /\ temp' = [temp EXCEPT ![d] = NoFile]
            /\ UNCHANGED <<whole, documents, overlap>>
            /\ Is(t, {"ingest"}, "rename") /\ Work(t)
        BY <2>12, <3>2, IngestsNameADocument, CallsAreNotIdle DEF rename_temp, db, Work
      <4>2. call'[t].at = "record" /\ call'[t].doc = d
        BY <4>1, MovingOn DEF Step, Is
      <4>3. \A u \in Threads \ {t} : call'[u] = call[u]
        BY <4>1, TheOthers
      <4>4. /\ blob'[d] = temp[d] /\ temp'[d] = NoFile
            /\ \A e \in Documents \ {d} : blob'[e] = blob[e] /\ temp'[e] = temp[e]
        BY <4>1 DEF TypeOK
      <4> HIDE DEF d
      <4>5. FilesDiffer'
        BY <4>1, <4>4 DEF FilesDiffer
      <4>6. RecordsFollowBlobs'
        <5>1. \A e \in Documents : blob[e] # NoFile => blob'[e] # NoFile
          BY <3>2, <4>4 DEF d
        <5>2. \A u \in Threads \ {t} : Is(u, {"ingest"}, "record") => call[u].doc \in Documents
          BY IngestsNameADocument
        <5>3. documents \subseteq Documents /\ documents' = documents /\ blob'[d] # NoFile
          BY <3>2, <4>1, <4>4 DEF TypeOK, d
        <5>4. QED
          BY <4>2, <4>3, <5>1, <5>2, <5>3 DEF RecordsFollowBlobs, Is
      <4>7. WriterOwnsTemp'
        <5> SUFFICES ASSUME ~ overlap PROVE WriterOwnsTemp'
          BY <4>1 DEF WriterOwnsTemp
        <5>1. \A u \in Threads \ {t} : call'[u] = Idle
          BY <4>1, TheOthers
        <5>2. whole[temp[d]] /\ \A e \in Documents : blob[e] # NoFile => whole[blob[e]]
          BY <4>1 DEF WriterOwnsTemp, d
        <5>3. QED
          BY <4>1, <4>2, <4>4, <5>1, <5>2 DEF WriterOwnsTemp, Is
      <4>8. QED
        BY <4>5, <4>6, <4>7
    <3>3. QED
      BY <2>12, <3>1, <3>2 DEF rename_temp
  <2>13. ASSUME NEW t \in Threads, ingest_document(t) PROVE FilesKept'
    <3>1. /\ call[t] # Idle /\ Goto(t, "cut") /\ documents' = documents \cup {call[t].doc}
          /\ UNCHANGED <<files, overlap>> /\ Is(t, {"ingest"}, "record") /\ Work(t)
      BY <2>13 DEF ingest_document, Is, Work
    <3>2. call'[t].at = "cut" /\ \A u \in Threads \ {t} : call'[u] = call[u]
      BY <3>1, MovingOn DEF Step
    <3>3. FilesDiffer' /\ WriterOwnsTemp'
      BY <3>1, <3>2 DEF FilesDiffer, WriterOwnsTemp, files, Is
    <3>4. RecordsFollowBlobs'
      BY <3>1, <3>2 DEF RecordsFollowBlobs, files, Is
    <3>5. QED
      BY <3>3, <3>4
  <2>14. ASSUME NEW t \in Threads, ingest_chunks(t) PROVE FilesKept'
    BY <2>7, <2>14 DEF ingest_chunks, Work
  <2>15. ASSUME NEW t \in Threads, compare(t) PROVE FilesKept'
    BY <2>3, <2>15, Comparing DEF compare, db, Is, Work
  <2>16. ASSUME NEW t \in Threads, write_spec(t) PROVE FilesKept'
    BY <2>6, <2>16 DEF write_spec, Is, Work
  <2>17. ASSUME NEW t \in Threads, locked_out(t) PROVE FilesKept'
    BY <2>7, <2>17 DEF locked_out, db, Work
  <2>18. ASSUME crash \/ UNCHANGED vars PROVE FilesKept'
    BY <2>18 DEF crash, vars, db, files, FilesDiffer, RecordsFollowBlobs, WriterOwnsTemp, Is
  <2> HIDE DEF FilesKept
  <2>19. FilesKept'
    BY <2>4, <2>5, <2>8, <2>9, <2>10, <2>11, <2>12, <2>13, <2>14, <2>15, <2>16, <2>17, <2>18 DEF Next, Work
  <2>20. QED
    BY <2>1, <2>19
<1>3. Blobs => RowsHaveBlobs
  BY DEF Blobs, FilesKept, TypeOK, RecordsFollowBlobs, WriterOwnsTemp, RowsHaveBlobs
<1>4. QED
  BY <1>1, <1>2, <1>3, PTL DEF Spec
----------------------------------------------------------------------------
(* Imports and chunks *)

(* Imports that come one at a time add no value twice.                     *)
THEOREM NothingImportedTwice == Spec => []ImportedOnce
<1>1. Init => Imports
  BY TypeAtFirst DEF Init, Imports, ImportsKept, Serial, InsertsAreNew, ImportedOnce, Is
<1>2. Imports /\ [Next]_vars => Imports'
  <2> SUFFICES ASSUME Imports, [Next]_vars PROVE Imports'
    OBVIOUS
  <2> USE DEF Imports
  <2>1. TypeOK' /\ Serial'
    BY TypeKept, StaysSerial
  <2>2. ASSUME NEW t \in Threads, Begin(t) \/ Work(t), specs' = specs,
               Is(t, {"import"}, "insert")' => ~ Duplicate(call'[t].value)
        PROVE ImportsKept'
    BY <2>2, TheOthers DEF ImportsKept, InsertsAreNew, ImportedOnce, Duplicate, Is
  <2>3. ASSUME NEW t \in Threads, write_spec(t) PROVE ImportsKept'
    <3>1. /\ Is(t, {"import"}, "insert") /\ call[t] # Idle /\ Goto(t, "compare") /\ Work(t) /\ overlap' = overlap
          /\ specs' = specs \cup {[id |-> Cardinality(specs) + 1, value |-> call[t].value]}
      BY <2>3 DEF write_spec, Is, Work
    <3>2. call'[t].at = "compare"
      BY <3>1, MovingOn DEF Step
    <3>3. SUFFICES ASSUME ~ overlap PROVE ImportsKept'
      BY <3>1 DEF ImportsKept, InsertsAreNew, ImportedOnce
    <3>4. \A u \in Threads \ {t} : call'[u] = Idle
      BY <3>1, <3>3, TheOthers
    <3>5. InsertsAreNew'
      BY <3>2, <3>4 DEF InsertsAreNew, Is
    <3>6. \A s \in specs : s.value # call[t].value
      BY <3>1, <3>3 DEF ImportsKept, InsertsAreNew, Duplicate
    <3>7. ImportedOnce'
      BY <3>1, <3>3, <3>6 DEF ImportsKept, ImportedOnce
    <3>8. QED
      BY <3>5, <3>7 DEF ImportsKept
  <2>4. ASSUME NEW t \in Threads, Begin(t) PROVE ImportsKept'
    BY <2>2, <2>4, Beginning DEF db, Is
  <2>5. ASSUME NEW t \in Threads, open_vault(t) PROVE ImportsKept'
    BY <2>2, <2>5, Opening DEF open_vault, db, Is, Work
  <2>6. ASSUME NEW t \in Threads, NEW step \in Step \ {"insert"}, Work(t), call[t] # Idle,
               Goto(t, step), specs' = specs
        PROVE ImportsKept'
    BY <2>2, <2>6, MovingOn DEF Is
  <2>7. ASSUME NEW t \in Threads, Work(t), Done(t), specs' = specs PROVE ImportsKept'
    BY <2>2, <2>7, Finishing DEF Is
  <2>8. ASSUME NEW t \in Threads, apply_migrations(t) PROVE ImportsKept'
    <3> DEFINE step == IF call[t].op = "ingest" THEN "look" ELSE "compare"
    <3>1. step \in Step \ {"insert"} /\ call[t] # Idle /\ (Done(t) \/ Goto(t, step)) /\ Work(t) /\ specs' = specs
      BY <2>8 DEF apply_migrations, Is, Work, Step
    <3> HIDE DEF step
    <3>2. QED
      BY <2>6, <2>7, <3>1
  <2>9. ASSUME NEW t \in Threads, look_for_blob(t) PROVE ImportsKept'
    <3> DEFINE step == IF blob[call[t].doc] # NoFile THEN "record" ELSE "write_temp"
    <3>1. step \in Step \ {"insert"} /\ call[t] # Idle /\ Goto(t, step) /\ Work(t) /\ specs' = specs
      BY <2>9 DEF look_for_blob, Is, Work, Step, db
    <3> HIDE DEF step
    <3>2. QED
      BY <2>6, <3>1
  <2>10. ASSUME NEW t \in Threads, write_temp(t) PROVE ImportsKept'
    BY <2>2, <2>10, WriterGoesOn DEF write_temp, db, Is, Work
  <2>11. ASSUME NEW t \in Threads, fill_temp(t) \/ rename_temp(t) \/ ingest_document(t) \/ ingest_chunks(t) \/ locked_out(t)
         PROVE ImportsKept'
    BY <2>6, <2>7, <2>11 DEF fill_temp, rename_temp, ingest_document, ingest_chunks, locked_out, db, Is, Work, Step
  <2>12. ASSUME NEW t \in Threads, compare(t) PROVE ImportsKept'
    BY <2>2, <2>12, Comparing DEF compare, db, Is, Work
  <2>13. ASSUME crash \/ UNCHANGED vars PROVE ImportsKept'
    BY <2>13 DEF crash, vars, db, ImportsKept, InsertsAreNew, ImportedOnce, Duplicate, Is
  <2>14. ImportsKept'
    BY <2>3, <2>4, <2>5, <2>8, <2>9, <2>10, <2>11, <2>12, <2>13 DEF Next, Work
  <2>15. QED
    BY <2>1, <2>14
<1>3. QED
  BY <1>1, <1>2, PTL DEF Spec, Imports, ImportsKept

(* The extractors of the chunks a search finds are those of the last batch *)
(* of their document, for any batches in any order.                        *)
THEOREM ActiveChunksAreByTheLast == Spec => []ActiveIsByTheLast
<1>1. Init => Chunked
  BY TypeAtFirst DEF Init, Chunked, ChunksKept, OfTheLast, EachHasOne
<1>2. Chunked /\ [Next]_vars => Chunked'
  <2> SUFFICES ASSUME Chunked, [Next]_vars PROVE Chunked'
    OBVIOUS
  <2> USE DEF Chunked
  <2>1. TypeOK'
    BY TypeKept
  <2>2. ASSUME NEW t \in Threads, ingest_chunks(t) PROVE ChunksKept'
    <3> DEFINE d == call[t].doc
               X == call[t].cut_by
    <3>1. call[t] \in Ingest /\ d \in Documents
      BY <2>2, IngestsNameADocument DEF ingest_chunks
    <3>2. X \subseteq Extractors
      BY <3>1 DEF Ingest
    <3>3. chunks' = Marked(d, X) \cup New(d, X) /\ latest' = [latest EXCEPT ![d] = X]
      BY <2>2 DEF ingest_chunks
    <3>4. latest'[d] = X /\ \A e \in Documents \ {d} : latest'[e] = latest[e]
      BY <3>1, <3>3 DEF TypeOK
    <3> HIDE DEF d, X
    <3>5. ASSUME NEW c \in Marked(d, X) PROVE IsChunk(c) /\ (~ c.stale => c.extractor \in latest'[c.doc])
      <4>1. PICK b \in chunks : c = [b EXCEPT !.stale = b.stale \/ Superseded(b, d, X)]
        BY <3>5 DEF Marked
      <4> DEFINE s == (b.stale \/ Superseded(b, d, X))
      <4>2. IsChunk(b) /\ s \in BOOLEAN /\ (~ s => ~ b.stale /\ (b.doc = d => b.extractor \in X))
        BY <4>1 DEF ChunksKept, IsChunk, Superseded
      <4> HIDE DEF s
      <4>3. IsChunk(c) /\ c.doc = b.doc /\ c.extractor = b.extractor /\ c.stale = s /\ b.doc \in Documents
        BY <4>1, <4>2 DEF IsChunk, s
      <4>4. ~ b.stale => b.extractor \in latest[b.doc]
        BY <4>1 DEF ChunksKept, OfTheLast
      <4>5. QED
        BY <3>4, <4>2, <4>3, <4>4
    <3>6. ASSUME NEW c \in New(d, X) PROVE IsChunk(c) /\ c.extractor \in latest'[c.doc]
      <4>1. PICK x \in X : c = [id |-> Cardinality(chunks) + 1, doc |-> d, extractor |-> x, stale |-> FALSE]
        BY <3>6 DEF New
      <4> DEFINE n == Cardinality(chunks) + 1
      <4>2. c = [id |-> n, doc |-> d, extractor |-> x, stale |-> FALSE]
        BY <4>1
      <4> HIDE DEF n
      <4>3. c.id = n /\ c.doc = d /\ c.extractor = x /\ c.stale = FALSE
        BY <4>2
      <4>4. QED
        BY <3>1, <3>4, <4>1, <4>2, <4>3 DEF IsChunk, d
    <3>7. (\A c \in chunks : IsChunk(c))' /\ OfTheLast'
      BY <3>3, <3>5, <3>6 DEF OfTheLast
    <3>8. ASSUME NEW x \in X PROVE \E c \in chunks' : c.doc = d /\ c.extractor = x /\ ~ c.stale
      <4> DEFINE n == Cardinality(chunks) + 1
                 c == [id |-> n, doc |-> d, extractor |-> x, stale |-> FALSE]
      <4>1. c \in New(d, X)
        BY <3>8 DEF New
      <4> HIDE DEF n
      <4>2. c.doc = d /\ c.extractor = x /\ ~ c.stale
        OBVIOUS
      <4> HIDE DEF c
      <4>3. QED
        BY <3>3, <4>1, <4>2
    <3>9. ASSUME NEW e \in Documents \ {d}, NEW x \in latest[e]
          PROVE \E c \in chunks' : c.doc = e /\ c.extractor = x /\ ~ c.stale
      <4>1. PICK b \in chunks : b.doc = e /\ b.extractor = x /\ ~ b.stale
        BY <3>9 DEF ChunksKept, EachHasOne
      <4>2. PICK c : c = [b EXCEPT !.stale = b.stale \/ Superseded(b, d, X)]
        OBVIOUS
      <4>3. c \in chunks'
        BY <3>3, <4>2 DEF Marked
      <4>4. IsChunk(b) /\ ~ Superseded(b, d, X)
        BY <4>1 DEF ChunksKept, Superseded
      <4>5. c.doc = b.doc /\ c.extractor = b.extractor /\ c.stale = (b.stale \/ Superseded(b, d, X))
        BY <4>2, <4>4 DEF IsChunk
      <4>6. QED
        BY <4>1, <4>3, <4>4, <4>5
    <3>10. EachHasOne'
      BY <3>4, <3>8, <3>9 DEF EachHasOne
    <3>11. QED
      BY <3>7, <3>10 DEF ChunksKept
  <2>3. ASSUME UNCHANGED <<chunks, latest>> PROVE ChunksKept'
    BY <2>3 DEF ChunksKept, OfTheLast, EachHasOne
  <2>4. ASSUME NEW t \in Threads, Begin(t) PROVE ChunksKept'
    BY <2>3, <2>4, Beginning DEF db
  <2>5. ASSUME NEW t \in Threads, Work(t), ~ ingest_chunks(t) PROVE UNCHANGED <<chunks, latest>>
    BY <2>5 DEF Work, open_vault, apply_migrations, look_for_blob, write_temp, fill_temp, rename_temp,
                ingest_document, compare, write_spec, locked_out, db
  <2>6. ASSUME crash \/ UNCHANGED vars PROVE ChunksKept'
    BY <2>3, <2>6 DEF crash, vars, db
  <2>7. ChunksKept'
    BY <2>2, <2>3, <2>4, <2>5, <2>6 DEF Next
  <2>8. QED
    BY <2>1, <2>7
<1>3. Chunked => ActiveIsByTheLast
  <2> SUFFICES ASSUME Chunked, NEW d \in Documents
               PROVE {c.extractor : c \in {k \in chunks : k.doc = d /\ ~ k.stale}} = latest[d]
    BY DEF ActiveIsByTheLast
  <2>1. ASSUME NEW c \in chunks, c.doc = d, ~ c.stale PROVE c.extractor \in latest[d]
    BY <2>1 DEF Chunked, ChunksKept, OfTheLast
  <2>2. ASSUME NEW x \in latest[d] PROVE \E c \in chunks : c.doc = d /\ ~ c.stale /\ x = c.extractor
    BY <2>2 DEF Chunked, ChunksKept, EachHasOne
  <2>3. QED
    BY <2>1, <2>2
<1>4. QED
  BY <1>1, <1>2, <1>3, PTL DEF Spec
=============================================================================
