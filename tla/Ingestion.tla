----------------------------- MODULE Ingestion -----------------------------
(***************************************************************************)
(* How a file becomes rows: uploads through the generic boundary, Forestry *)
(* uploads, the projection of a Transelec workbook and the controlled      *)
(* import of the pinned Forestry archive (routers ingestion, transelec and *)
(* forestry_workflow; object_store, source_provenance, source_discovery,   *)
(* forestry_uploads, forestry_persistence, import_projection and           *)
(* forestry_snapshot_import).                                              *)
(*                                                                         *)
(* A content stands for its SHA-256.  A transaction is READ COMMITTED: its *)
(* rows are visible when it commits, and an insert of a key that another   *)
(* open transaction has inserted waits for that one to end.                *)
(***************************************************************************)
EXTENDS Integers, FiniteSets

CONSTANTS
    Docs,           \* contents of files
    Traits,         \* what each is: see Trait
    Pinned,         \* the archive DEGENFELD_2026 names
    Tasks,          \* requests and script runs
    Casts,          \* bound: what the tasks of one behaviour are, and the archive on disk
    MaxFaults,      \* bound: statements or writes that fail
    MaxCrashes,     \* bound: processes killed
    MaxChanges,     \* bound: changes of the file on disk
    Unset

\* size in bytes; whether it is over the upload limit; whether the archive
\* inspector refuses it; whether it meets the workbook contract; the fingerprint of
\* the shapefile family in it and the name of its layer.
Trait == [size : Nat, oversized : BOOLEAN, unsafe : BOOLEAN, workbook : BOOLEAN,
          family : Docs \cup {Unset}, layer : Docs \cup {Unset}]

Kinds == {"upload", "forestry", "project", "import", "dry-run"}

ASSUME IngestionAssumption ==
    /\ Traits \in [Docs -> Trait] /\ Pinned \in Docs /\ Unset \notin Docs
    /\ \A c \in Casts : /\ c.is \in [Tasks -> [kind : Kinds, product : {"transelect", "forestry"}, doc : Docs]]
                       /\ c.source \in Docs
    /\ {MaxFaults, MaxCrashes, MaxChanges} \subseteq Nat

VARIABLES
    file,       \* per content: what the object store has of it
    temps,      \* tasks whose temporary file is in _tmp
    db,         \* committed rows
    task,       \* the requests and script runs
    source,     \* the archive under CAMPO_DIGITAL_SOURCE_ROOT: content and mtime
    faults, crashes

ingestVars == <<file, temps, db, task, source, faults, crashes>>

Ended == {"done", "refused", "killed"}

Row(table, key, val, t) == [table |-> table, key |-> key, val |-> val, by |-> t]

Tables == {"system", "asset", "snapshot", "observation", "run", "job", "family", "upload", "import",
           "published", "audit"}

IngestTypeOK ==
    /\ file \in [Docs -> {"absent", "bare", "whole"}]
    /\ temps \subseteq Tasks
    /\ \A r \in db \cup UNION {task[t].tx : t \in Tasks} : r.table \in Tables /\ r.by \in Tasks
    /\ \A r, q \in db : r.table = q.table /\ r.key = q.key => r = q
    /\ \A t \in Tasks :
          /\ task[t].pc \in Ended \cup {"start", "receive", "check", "put", "publish", "meta", "system",
                                        "snapshot", "rows", "family", "find", "insert", "others",
                                        "observe", "read", "reread", "extract", "verify", "commit", "audit"}
          /\ task[t].code \in {0, 200, 404, 409, 413, 422, 500}
          /\ task[t].pc \in Ended => task[t].tx = {}

IngestInit ==
    /\ file = [c \in Docs |-> "absent"] /\ temps = {} /\ db = {}
    /\ \E c \in Casts :
          /\ task = [t \in Tasks |-> [kind |-> c.is[t].kind, product |-> c.is[t].product,
                                      doc |-> c.is[t].doc, pc |-> "start", tx |-> {}, code |-> 0,
                                      new |-> FALSE, known |-> FALSE, stat |-> Unset, got |-> Unset]]
          /\ source = [doc |-> c.source, mtime |-> 0]
    /\ faults = 0 /\ crashes = 0

-----------------------------------------------------------------------------
(* Transactions.                                                           *)

Has(t, table, key) == \E r \in db \cup task[t].tx : r.table = table /\ r.key = key

Waits(t, table, key) ==
    \E u \in Tasks \ {t} : \E r \in task[u].tx : r.table = table /\ r.key = key

Go(t, pc) == task' = [task EXCEPT ![t].pc = pc]

\* INSERT ... ON CONFLICT DO NOTHING, then SELECT.
Resolve(t, row, pc) ==
    /\ ~Waits(t, row.table, row.key)
    /\ task' = [task EXCEPT ![t].pc = pc,
                            ![t].tx = IF Has(t, row.table, row.key) THEN @ ELSE @ \cup {row}]

\* Mutant: the transaction of a refused request is left open.
RefusedStillOpen(t, code) ==
    /\ task' = [task EXCEPT ![t].pc = IF task[t].tx = {} THEN "refused" ELSE @, ![t].code = code]
    /\ UNCHANGED db

\* The work transaction rolls back; a forestry upload and a projection then audit
\* the failure in one of their own.
Refuses(t, code) ==
    /\ task' = [task EXCEPT ![t].pc = IF task[t].kind \in {"forestry", "project"} THEN "audit" ELSE "refused",
                            ![t].tx = {}, ![t].code = code]
    /\ UNCHANGED db

FailureEvent(t) ==
    IF task[t].kind = "project" THEN "import.validation.failed" ELSE "forestry.snapshot.upload_rejected"

\* _record_failure_audit: a failure of it is only logged.
_record_failure_audit(t) ==
    /\ task[t].pc = "audit"
    /\ Go(t, "refused")
    /\ \/ db' = db \cup {Row("audit", <<t, FailureEvent(t)>>, task[t].code, t)} /\ UNCHANGED faults
       \/ faults < MaxFaults /\ faults' = faults + 1 /\ UNCHANGED db
    /\ UNCHANGED <<file, temps, source, crashes>>

\* The dry run of the import rolls back where the others commit.
commit(t) ==
    /\ task[t].pc = "commit"
    /\ task' = [task EXCEPT ![t].pc = "done", ![t].tx = {}, ![t].code = 200]
    /\ db' = IF task[t].kind = "dry-run" THEN db ELSE db \cup task[t].tx
    /\ UNCHANGED <<file, temps, source, faults, crashes>>

\* A statement or a write to the volume fails: put's finally removes its file.
Fault(t) ==
    /\ faults < MaxFaults /\ faults' = faults + 1
    /\ task[t].pc \in {"publish", "meta", "system", "snapshot", "rows", "family", "insert", "commit"}
    /\ Refuses(t, 500)
    /\ temps' = temps \ {t}
    /\ UNCHANGED <<file, source, crashes>>

\* The server, or the script, is killed: transactions are gone, files stay.
Kill(procs) ==
    /\ crashes < MaxCrashes /\ crashes' = crashes + 1
    /\ \E t \in procs : task[t].pc \notin Ended
    /\ task' = [t \in Tasks |-> IF t \in procs /\ task[t].pc \notin Ended \cup {"start"}
                                THEN [task[t] EXCEPT !.pc = "killed", !.tx = {}] ELSE task[t]]
    /\ UNCHANGED <<file, temps, db, source, faults>>

Scripts == {t \in Tasks : task[t].kind \in {"import", "dry-run"}}

-----------------------------------------------------------------------------
(* Receiving and storing an upload.                                        *)

\* upload and upload_shapefile_zip read the body into a temporary file of their own.
receive(t) ==
    /\ task[t].pc = "start" /\ task[t].kind \in {"upload", "forestry"}
    /\ IF Traits[task[t].doc].oversized
       THEN task' = [task EXCEPT ![t].pc = "refused", ![t].code = 413]
       ELSE Go(t, "check")
    /\ UNCHANGED <<file, temps, db, source, faults, crashes>>

\* Whether the archive is refused: too many or unsafe members, too large unpacked.
inspect_forestry_zip(doc) == Traits[doc].unsafe

\* dispatch_inspection: the archive inspector alone rejects; anything else it or
\* another inspector meets is evidence.
dispatch_inspection(t) ==
    /\ task[t].pc = "check" /\ task[t].kind = "upload"
    /\ IF task[t].product = "forestry" /\ inspect_forestry_zip(task[t].doc)
       THEN Refuses(t, 422) ELSE Go(t, "put") /\ UNCHANGED db
    /\ UNCHANGED <<file, temps, source, faults, crashes>>

\* accept_forestry_upload up to the store: the family is extracted and parsed.
parse_forestry_family(t) ==
    /\ task[t].pc = "check" /\ task[t].kind = "forestry"
    /\ IF Traits[task[t].doc].family = Unset THEN Refuses(t, 422) ELSE Go(t, "put") /\ UNCHANGED db
    /\ UNCHANGED <<file, temps, source, faults, crashes>>

put_write(t) ==
    /\ task[t].pc = "put"
    /\ temps' = temps \cup {t}
    /\ Go(t, "publish")
    /\ UNCHANGED <<file, db, source, faults, crashes>>

\* The file is renamed onto its key, unless the key is there: same hash, same size.
put_publish(t) ==
    LET c == task[t].doc IN
    /\ task[t].pc = "publish"
    /\ IF file[c] = "absent"
       THEN file' = [file EXCEPT ![c] = "bare"] /\ temps' = temps \ {t}
       ELSE UNCHANGED <<file, temps>>
    /\ Go(t, "meta")
    /\ UNCHANGED <<db, source, faults, crashes>>

Unlinked(t) == temps \ {t}

\* Mutant: the metadata of a key that was there is taken to be there too.
put_meta_of_new_key(t) ==
    /\ task[t].pc = "meta"
    /\ file' = IF t \in temps THEN file ELSE [file EXCEPT ![task[t].doc] = "whole"]
    /\ temps' = Unlinked(t)
    /\ Go(t, "system")
    /\ UNCHANGED <<db, source, faults, crashes>>

\* The metadata is written whether or not the key was there.
put_meta(t) ==
    /\ task[t].pc = "meta"
    /\ file' = [file EXCEPT ![task[t].doc] = "whole"]
    /\ temps' = Unlinked(t)
    /\ Go(t, "system")
    /\ UNCHANGED <<db, source, faults, crashes>>

-----------------------------------------------------------------------------
(* Provenance, and what is recorded with it.                               *)

SystemKey(t) == IF t \in Scripts THEN "mirror" ELSE "upload"

\* An upload's asset is its content, the archive's is its path.
AssetKey(t) == IF t \in Scripts THEN "archive" ELSE task[t].doc

Content(t) == IF t \in Scripts THEN task[t].got ELSE task[t].doc

_resolve_source_system(t) ==
    /\ task[t].pc = "system"
    /\ Resolve(t, Row("system", SystemKey(t), Unset, t), "snapshot")
    /\ UNCHANGED <<file, temps, db, source, faults, crashes>>

\* The rows a task adds for its asset and for its snapshot, a content of the asset;
\* a snapshot's value is the key of an uploaded object.
_resolve_source_asset(t) ==
    IF Has(t, "asset", AssetKey(t)) THEN {} ELSE {Row("asset", AssetKey(t), Unset, t)}

_resolve_source_snapshot(t, stored) ==
    LET key == <<AssetKey(t), Content(t)>> IN
    IF Has(t, "snapshot", key) THEN {} ELSE {Row("snapshot", key, stored, t)}

Observation(t) == Row("observation", t, Content(t), t)

persist_uploaded_source_provenance(t) ==
    _resolve_source_asset(t) \cup _resolve_source_snapshot(t, task[t].doc) \cup {Observation(t)}

persist_filesystem_source_provenance(t) ==
    _resolve_source_asset(t) \cup _resolve_source_snapshot(t, Unset) \cup {Observation(t)}

\* An insert of the asset or of the snapshot waits for whoever has inserted it.
persist_source_provenance(t) ==
    /\ task[t].pc = "snapshot"
    /\ ~Waits(t, "asset", AssetKey(t)) /\ ~Waits(t, "snapshot", <<AssetKey(t), Content(t)>>)
    /\ task' = [task EXCEPT
          ![t].pc = IF task[t].kind = "upload" THEN "rows" ELSE "family",
          ![t].tx = @ \cup IF t \in Scripts THEN persist_filesystem_source_provenance(t)
                           ELSE persist_uploaded_source_provenance(t)]
    /\ UNCHANGED <<file, temps, db, source, faults, crashes>>

ingestion_run(t) == Row("run", t, <<task[t].product, task[t].doc>>, t)

\* The run, its job and the two audit events.
enqueue_processing_job(t) ==
    /\ task[t].pc = "rows" /\ task[t].kind = "upload"
    /\ task' = [task EXCEPT ![t].pc = "commit", ![t].tx = @ \cup
          {ingestion_run(t), Row("job", t, task[t].product, t),
           Row("audit", <<t, "upload.completed">>, task[t].doc, t),
           Row("audit", <<t, "processing.requested">>, t, t)}]
    /\ UNCHANGED <<file, temps, db, source, faults, crashes>>

\* The content of the family a task has parsed: the script parses what it read last.
Parsed(t) == IF t \in Scripts THEN task[t].stat ELSE task[t].doc

\* _resolve_existing_snapshot: the family is there under another layer name.
Conflicting(t) ==
    \E r \in db : r.table = "family" /\ r.key = Traits[Parsed(t)].family
                  /\ r.val.layer # Traits[Parsed(t)].layer

\* The snapshot row of a family, its features included.
_insert_shapefile_snapshot(t) ==
    Row("family", Traits[Parsed(t)].family,
        [layer |-> Traits[Parsed(t)].layer, doc |-> Content(t)], t)

\* The family is inserted unless its fingerprint is there.
persist_parsed_family(t) ==
    LET f == Traits[Parsed(t)].family IN
    /\ task[t].pc = "family" /\ ~Waits(t, "family", f)
    /\ IF Conflicting(t) THEN Refuses(t, 409)
       ELSE /\ task' = [task EXCEPT
                   ![t].pc = IF t \in Scripts THEN "verify" ELSE "rows",
                   ![t].new = ~Has(t, "family", f),
                   ![t].tx = @ \cup IF Has(t, "family", f) THEN {}
                                    ELSE {_insert_shapefile_snapshot(t)}]
            /\ UNCHANGED db
    /\ UNCHANGED <<file, temps, source, faults, crashes>>

snapshot_upload(t) == Row("upload", t, <<Traits[task[t].doc].family, task[t].doc>>, t)

\* The upload and its audit event.
record_upload(t) ==
    /\ task[t].pc = "rows" /\ task[t].kind = "forestry"
    /\ task' = [task EXCEPT ![t].pc = "commit", ![t].tx = @ \cup
          {snapshot_upload(t),
           Row("audit", <<t, "forestry.snapshot.uploaded">>, task[t].new, t)}]
    /\ UNCHANGED <<file, temps, db, source, faults, crashes>>

-----------------------------------------------------------------------------
(* Projecting a Transelec workbook: validate_and_project_import.           *)

\* The run of another product is not found; an object that cannot be opened is 409.
project_start(t) ==
    LET c == task[t].doc IN
    /\ task[t].pc = "start" /\ task[t].kind = "project"
    /\ IF ~\E r \in db : r.table = "run" /\ r.val = <<"transelect", c>>
       THEN task' = [task EXCEPT ![t].pc = "refused", ![t].code = 404]
       ELSE IF file[c] = "absent"
       THEN task' = [task EXCEPT ![t].pc = "refused", ![t].code = 409]
       ELSE task' = [task EXCEPT ![t].pc = "check", ![t].known = Has(t, "import", c)]
    /\ UNCHANGED <<file, temps, db, source, faults, crashes>>

\* The contract is checked before any statement.
project_read(t) ==
    /\ task[t].pc = "check" /\ task[t].kind = "project"
    /\ IF Traits[task[t].doc].workbook THEN Go(t, "find") /\ UNCHANGED db ELSE Refuses(t, 422)
    /\ UNCHANGED <<file, temps, source, faults, crashes>>

Imported(t) == Has(t, "import", task[t].doc)

find_existing_import(t) ==
    /\ task[t].pc = "find"
    /\ Go(t, IF Imported(t) THEN "commit" ELSE "insert")
    /\ UNCHANGED <<file, temps, db, source, faults, crashes>>

_insert_import(t) == Row("import", task[t].doc, t, t)

\* _insert_import, _insert_rows, _verify_invariants and the audit event: one unit, as
\* nobody sees the rows before the commit.  A second import of the snapshot breaks
\* the unique constraint.
insert_import(t) ==
    LET c == task[t].doc IN
    /\ task[t].pc = "insert" /\ ~Waits(t, "import", c)
    /\ IF Has(t, "import", c) THEN Refuses(t, 500)
       ELSE /\ task' = [task EXCEPT ![t].pc = "commit", ![t].new = TRUE, ![t].tx = @ \cup
                           {_insert_import(t), Row("audit", <<t, "import.validated">>, c, t)}]
            /\ UNCHANGED db
    /\ UNCHANGED <<file, temps, source, faults, crashes>>

-----------------------------------------------------------------------------
(* The controlled import: forestry_snapshot_import.                        *)

\* Somebody replaces the archive on disk.
SourceChanges(c) ==
    /\ source.mtime < MaxChanges /\ c # source.doc
    /\ source' = [doc |-> c, mtime |-> source.mtime + 1]
    /\ UNCHANGED <<file, temps, db, task, faults, crashes>>

\* The archive's hash is the pinned one.
import_start(t) ==
    /\ task[t].pc = "start" /\ t \in Scripts
    /\ IF source.doc # Pinned
       THEN task' = [task EXCEPT ![t].pc = "refused", ![t].code = 422] ELSE Go(t, "others")
    /\ UNCHANGED <<file, temps, db, source, faults, crashes>>

list_shapefile_snapshots(t) ==
    /\ task[t].pc = "others"
    /\ IF \E r \in db : r.table = "family" /\ r.key # Traits[Pinned].family
       THEN Refuses(t, 409) ELSE Go(t, "observe") /\ UNCHANGED db
    /\ UNCHANGED <<file, temps, source, faults, crashes>>

observe_source_file(t) ==
    /\ task[t].pc = "observe"
    /\ task' = [task EXCEPT ![t].pc = "read", ![t].stat = Traits[source.doc].size]
    /\ UNCHANGED <<file, temps, db, source, faults, crashes>>

\* fingerprint_source_file: the file is identified before it is read ...
fingerprint_read(t) ==
    /\ task[t].pc = "read"
    /\ task' = [task EXCEPT ![t].pc = "reread", ![t].got = source]
    /\ UNCHANGED <<file, temps, db, source, faults, crashes>>

SameIdentity(got) == got.mtime = source.mtime

\* What was hashed: a content, or parts of two.
Digest(got) == IF got = source THEN source.doc ELSE Unset

_validate_discovery_pair(t) == task[t].stat = Traits[task[t].got.doc].size

\* ... and after; the sizes of the two looks are compared when it is recorded.
fingerprint_source_file(t) ==
    /\ task[t].pc = "reread"
    /\ IF SameIdentity(task[t].got) /\ _validate_discovery_pair(t)
       THEN task' = [task EXCEPT ![t].pc = "extract", ![t].got = Digest(task[t].got)] /\ UNCHANGED db
       ELSE Refuses(t, 500)
    /\ UNCHANGED <<file, temps, source, faults, crashes>>

\* The archive is opened a second time to extract the family.
extract_family_archive(t) ==
    /\ task[t].pc = "extract"
    /\ IF Traits[source.doc].family = Unset THEN Refuses(t, 422)
       ELSE task' = [task EXCEPT ![t].pc = "system", ![t].stat = source.doc] /\ UNCHANGED db
    /\ UNCHANGED <<file, temps, source, faults, crashes>>

\* The persisted fingerprint, layer and counts are the expected ones.
observed_checks(t) ==
    /\ Traits[Parsed(t)].family = Traits[Pinned].family
    /\ Traits[Parsed(t)].layer = Traits[Pinned].layer

\* The checks, the initial publication and the audit event.
run_import(t) ==
    /\ task[t].pc = "verify" /\ ~Waits(t, "published", 1)
    /\ IF ~observed_checks(t) THEN Refuses(t, 422)
       ELSE /\ task' = [task EXCEPT ![t].pc = "commit", ![t].tx = @
                  \cup (IF Has(t, "published", 1) THEN {}
                        ELSE {Row("published", 1, Traits[Parsed(t)].family, t)})
                  \cup (IF task[t].kind = "import" /\ task[t].new
                        THEN {Row("audit", <<t, "forestry.snapshot.imported">>, Traits[Parsed(t)].family, t)}
                        ELSE {})]
            /\ UNCHANGED db
    /\ UNCHANGED <<file, temps, source, faults, crashes>>

-----------------------------------------------------------------------------
StoreStep(t) == receive(t) \/ put_write(t) \/ put_publish(t) \/ put_meta(t)

ProvenanceStep(t) ==
    \/ dispatch_inspection(t) \/ parse_forestry_family(t)
    \/ _resolve_source_system(t) \/ persist_source_provenance(t)
    \/ enqueue_processing_job(t) \/ persist_parsed_family(t) \/ record_upload(t)

ProjectStep(t) ==
    project_start(t) \/ project_read(t) \/ find_existing_import(t) \/ insert_import(t)

ImportStep(t) ==
    \/ import_start(t) \/ list_shapefile_snapshots(t) \/ observe_source_file(t)
    \/ fingerprint_read(t) \/ fingerprint_source_file(t) \/ extract_family_archive(t) \/ run_import(t)

TaskStep(t) ==
    StoreStep(t) \/ ProvenanceStep(t) \/ ProjectStep(t) \/ ImportStep(t)
        \/ commit(t) \/ _record_failure_audit(t)

\* Every task has ended.
Quiet == (\A t \in Tasks : task[t].pc \in Ended) /\ UNCHANGED ingestVars

IngestNext ==
    \/ \E t \in Tasks : TaskStep(t) \/ Fault(t)
    \/ Kill(Scripts) \/ Kill(Tasks \ Scripts)
    \/ \E c \in Docs : SourceChanges(c)
    \/ Quiet

TaskSteps == \E t \in Tasks : TaskStep(t)

\* Some running process takes its next step; the database wakes who waits.
IngestSpec == IngestInit /\ [][IngestNext]_ingestVars /\ WF_ingestVars(TaskSteps)

-----------------------------------------------------------------------------
(* Properties.                                                             *)

\* A recorded upload can be opened and described: its object and the metadata are in
\* the store before the row is visible, also when an earlier put of the same bytes
\* was killed between the rename and the metadata (LocalObjectStore.put).
RecordedIsStored ==
    \A r \in db : r.table = "snapshot" /\ r.val # Unset => file[r.val] = "whole"

\* A request that is refused or a run that is rolled back leaves no row behind but
\* the audit of its failure (forestry.snapshot.upload_rejected,
\* import.validation.failed), whichever step failed.
RefusedLeavesNothing ==
    \A t \in Tasks : task[t].pc \in {"refused", "audit", "killed"} \/ task[t].kind = "dry-run" =>
        \A r \in db : r.by = t =>
            r.table = "audit" /\ r.key[2] \in {"import.validation.failed", "forestry.snapshot.upload_rejected"}

\* Projecting again what was imported before the request began answers with that
\* import and never fails on the unique constraint: only requests that overlap can.
RerunFindsImport ==
    \A t \in Tasks : task[t].kind = "project" /\ task[t].known =>
        task[t].pc # "insert" /\ ~task[t].new

\* No snapshot is recorded under the hash of a file that changed while it was read
\* (fingerprint_source_file raises SourceFileChangedError).
FingerprintWhole == \A r \in db : r.table = "snapshot" => r.key[2] # Unset

\* What an import commits is the pinned family under the pinned layer, however the
\* archive on disk changes between the four times it is opened.
ImportedIsPinned ==
    \A r \in db : r.table \in {"family", "published"} /\ r.by \in Scripts =>
        IF r.table = "published" THEN r.val = Traits[Pinned].family
        ELSE r.key = Traits[Pinned].family /\ r.val.layer = Traits[Pinned].layer

\* A temporary file outlives its request only if the process was killed.
TempsRemoved == \A t \in temps : task[t].pc \in {"publish", "meta", "killed"}

\* The tables and the object store agree whatever fails, is killed or overlaps: rows are
\* of bytes that are stored and were read whole, and a refused run leaves none.
RecordedIsTrue ==
    /\ IngestTypeOK /\ RecordedIsStored /\ RefusedLeavesNothing /\ RerunFindsImport
    /\ FingerprintWhole /\ ImportedIsPinned /\ TempsRemoved

\* Every request and run ends: nobody waits for ever for a key of another.
EveryTaskEnds == <>[](\A t \in Tasks : task[t].pc \in Ended)
=============================================================================
